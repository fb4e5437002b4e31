----------------------- MODULE GatewayExchangeProofs -----------------------
(***************************************************************************)
(* For every set of requests, clients, routes and revisions, every         *)
(* configuration and every number of servers built.                        *)
(*                                                                         *)
(* The admission: its state is well typed; no server has more reservations *)
(* of a (client, route) than the limit it was built with; and no window of *)
(* a server admits more requests than its budget, in whatever order        *)
(* handlers reach the mutex.                                               *)
(*                                                                         *)
(* The exchange that a handler goes through behind it: its state is well   *)
(* typed; its last event tells what the client was answered; every body    *)
(* that crossed to the upstream or the client has an event that permitted  *)
(* it; and the two limits hold with the exchange in the place of the       *)
(* admission's one step.                                                   *)
(***************************************************************************)
EXTENDS GatewayExchange, FiniteSetTheorems, TLAPS

\* The states of a handler before its reservation.
Unreserved == {"idle", "server", "admit", "rate", "reserve"}

\* A handler that passed the route lookup of a protected route has a client's
\* key; what it holds is a reservation in its own server under that key.
HandlersInv ==
    \A r \in Requests :
        /\ req[r].pc # "idle" => req[r].route \in Routes /\ req[r].cfg \in Revisions
        /\ req[r].pc \in {"rate", "reserve"} => req[r].key \in Clients
        /\ req[r].pc \in Unreserved \cup {"done"} => holds[r] = {}
        /\ \A p \in holds[r] : p = <<req[r].srv, KeyOf(r)>> /\ req[r].srv # 0

\* ReservationsWithinLimit for every server, built or not: a server that is
\* built starts with empty counters and no holder.
CountersInv ==
    \A s \in Servers, k \in Keys :
        /\ concurrency[s][k] = Cardinality(Holders(s, k))
        /\ concurrency[s][k] # 0 =>
              /\ s <= Len(built)
              /\ concurrency[s][k] <= effectivePolicy(Config[built[s]], k).concurrent

Inv == AdmissionTypeOK /\ HandlersInv /\ CountersInv

-----------------------------------------------------------------------------
(* Facts about the pieces the handler is made of.                          *)

\* An event the handler emits with a refusal before policy is a traffic event,
\* and the answer it writes an answer.
LEMMA RefusalTyped ==
    ASSUME NEW reason \in Reasons
    PROVE  /\ Event(0, "input", BlockedDecision, reason) \in TrafficEvent
           /\ [status |-> ErrorStatus(reason), code |-> ErrorCode(reason)] \in Answer
<1>1. ErrorStatus(reason) \in Nat
  BY DEF ErrorStatus
<1>2. ErrorCode(reason) \in {"", "missing_route"} \cup Reasons
  BY DEF ErrorCode, Reasons
<1>3. trafficEventGatewayStatus(0, reason, "block") \in Nat
  BY DEF trafficEventGatewayStatus, TerminationStatus
<1>4. reason \notin {"", "async_shadow_verdict"}
  BY DEF Reasons, AuthReasons, LimitReasons, StreamReasons
<1>5. trafficErrorType("input", "block", reason, FALSE)
          \in {"", "missing_route", "verdict_error"} \cup Reasons
  BY <1>4 DEF trafficErrorType, Reasons
<1> QED
  BY <1>1, <1>2, <1>3, <1>5
  DEF Event, BlockedDecision, TrafficEvent, Answer, PolicyActions

\* Refusing a handler leaves it a handler, in state return, with its server,
\* key and route.
LEMMA RefuseHandler ==
    ASSUME NEW x \in Handler, NEW reason \in Reasons
    PROVE  /\ RefuseInput(x, reason) \in Handler
           /\ RefuseInput(x, reason).pc = "return"
           /\ RefuseInput(x, reason).srv = x.srv
           /\ RefuseInput(x, reason).key = x.key
           /\ RefuseInput(x, reason).route = x.route
           /\ RefuseInput(x, reason).cfg = x.cfg
           /\ RefuseInput(x, reason).granted = x.granted
           /\ RefuseInput(x, reason).at = x.at
<1>1. x.events \in Seq(TrafficEvent)
  BY DEF Handler
<1>2. Append(x.events, Event(0, "input", BlockedDecision, reason)) \in Seq(TrafficEvent)
  <2> DEFINE ev == Event(0, "input", BlockedDecision, reason)
  <2>1. ev \in TrafficEvent
    BY RefusalTyped
  <2> HIDE DEF ev
  <2>2. Append(x.events, ev) \in Seq(TrafficEvent)
    BY <1>1, <2>1
  <2> QED
    BY <2>2 DEF ev
<1> DEFINE a == [status |-> ErrorStatus(reason), code |-> ErrorCode(reason)]
           e == Append(x.events, Event(0, "input", BlockedDecision, reason))
<1>3. RefuseInput(x, reason) = [x EXCEPT !.pc = "return", !.answer = a, !.events = e]
  BY DEF RefuseInput, Refuse
<1>4. a \in Answer /\ e \in Seq(TrafficEvent)
  BY <1>2, RefusalTyped
<1> HIDE DEF a, e
<1> QED
  BY <1>3, <1>4 DEF Handler

\* Every reason of the admission is a reason.
LEMMA AdmissionReasonTyped ==
    ASSUME NEW cfg, NEW key, NEW route
    PROVE  AdmissionReason(cfg, key, route) \in Reasons \cup {""}
<1>1. authenticate(cfg, key) \in Reasons \cup {""}
  BY DEF authenticate, Reasons, AuthReasons
<1> QED
  BY <1>1 DEF AdmissionReason, Reasons, LimitReasons

\* The parts of the assumption the steps use.
LEMMA Bounds == MaxServers \in Nat /\ MaxNow \in Nat
BY AdmissionAssumption

\* Every revision has a configuration.
LEMMA ConfigTyped == \A rev \in Revisions : Config[rev] \in Configuration
BY AdmissionAssumption

\* Requests are finitely many.
LEMMA RequestsFinite == IsFiniteSet(Requests)
BY AdmissionAssumption

\* A handler's server is a number.
LEMMA ServerIndex ==
    ASSUME NEW x \in Handler
    PROVE  x.srv \in Nat
<1>1. x.srv \in 0..MaxServers
  BY DEF Handler
<1> QED
  BY <1>1, Bounds

-----------------------------------------------------------------------------
\* The invariant holds before the first request.
LEMMA InitInv == AdmissionInit => Inv
<1> SUFFICES ASSUME AdmissionInit PROVE Inv
  OBVIOUS
<1>1. Idle \in Handler
  <2>1. /\ Unanswered \in Answer
        /\ BlockedDecision \in Decision
    BY DEF Unanswered, Answer, BlockedDecision, Decision, PolicyActions
  <2>2. 0 \in 0..MaxServers
    BY Bounds
  <2>3. <<>> \in Seq(TrafficEvent)
    OBVIOUS
  <2> QED
    BY <2>1, <2>2, <2>3 DEF Idle, Handler
<1>2. AdmissionTypeOK
  <2>1. req \in [Requests -> Handler]
    BY <1>1 DEF AdmissionInit
  <2>2. \A r \in Requests : req[r].srv = 0 /\ req[r].pc = "idle"
    BY DEF AdmissionInit, Idle
  <2>3. built \in Seq(Revisions) /\ Len(built) = 0
    BY DEF AdmissionInit
  <2> QED
    BY <2>1, <2>2, <2>3, Bounds DEF AdmissionTypeOK, AdmissionInit
<1>3. HandlersInv
  BY DEF HandlersInv, Idle, Unreserved, AdmissionInit
<1>4. CountersInv
  <2>1. \A s \in Servers, k \in Keys : Holders(s, k) = {}
    BY DEF Holders, AdmissionInit
  <2> QED
    BY <2>1, FS_EmptySet DEF CountersInv, AdmissionInit
<1> QED
  BY <1>2, <1>3, <1>4 DEF Inv

-----------------------------------------------------------------------------
(* Steps.                                                                  *)

\* The limits of a server that is built are natural numbers.
LEMMA PolicyTyped ==
    ASSUME AdmissionTypeOK, NEW s \in 1..Len(built), NEW k \in Keys
    PROVE  effectivePolicy(Config[built[s]], k) \in Policy
<1>0. built[s] \in Revisions
  BY DEF AdmissionTypeOK
<1>1. Config[built[s]] \in Configuration
  BY <1>0, ConfigTyped
<1>2. k[2] \in Routes
  BY DEF Keys
<1> QED
  BY <1>1, <1>2 DEF effectivePolicy, Configuration

\* A step that moves one handler and leaves counters, reservations and servers
\* alone keeps the invariant, if the new handler state fits what it holds.
LEMMA LocalStep ==
    ASSUME Inv, NEW r \in Requests, NEW h \in Handler,
           req' = [req EXCEPT ![r] = h],
           UNCHANGED <<configVars, concurrency, holds>>,
           rates' \in [Servers -> [Keys -> [start : Nat, count : Nat]]],
           audit' = audit, now' = now,
           h.srv <= Len(built),
           h.pc \notin {"idle", "server"} => h.srv # 0,
           h.pc # "idle" /\ h.route \in Routes /\ h.cfg \in Revisions,
           h.pc \in {"rate", "reserve"} => h.key \in Clients,
           h.pc \in Unreserved \cup {"done"} => holds[r] = {},
           \/ holds[r] = {}
           \/ h.srv = req[r].srv /\ h.key = req[r].key /\ h.route = req[r].route /\ h.cfg = req[r].cfg
    PROVE  Inv'
<1>1. /\ req \in [Requests -> Handler]
      /\ req' \in [Requests -> Handler]
      /\ req'[r] = h
      /\ \A q \in Requests : q # r => req'[q] = req[q]
  BY DEF Inv, AdmissionTypeOK
<1>2. AdmissionTypeOK'
  BY <1>1 DEF Inv, AdmissionTypeOK, configVars
<1>3. HandlersInv'
  <2> SUFFICES ASSUME NEW q \in Requests
               PROVE  /\ req'[q].pc # "idle" =>
                            req'[q].route \in Routes /\ req'[q].cfg \in Revisions
                      /\ req'[q].pc \in {"rate", "reserve"} => req'[q].key \in Clients
                      /\ req'[q].pc \in Unreserved \cup {"done"} => holds[q] = {}
                      /\ \A p \in holds[q] :
                            p = <<req'[q].srv, <<req'[q].key, req'[q].route>> >>
                            /\ req'[q].srv # 0
    BY DEF HandlersInv, KeyOf
  <2> QED
    BY <1>1 DEF Inv, HandlersInv, KeyOf
<1>4. CountersInv'
  <2>1. \A s, k : Holders(s, k)' = Holders(s, k)
    BY DEF Holders
  <2> QED
    BY <2>1 DEF Inv, CountersInv, configVars
<1> QED
  BY <1>2, <1>3, <1>4 DEF Inv

\* A reload, the audit gate and the clock touch no counter and no handler.
LEMMA EnvironmentStep == Inv /\ Environment => Inv'
<1> SUFFICES ASSUME Inv, Environment PROVE Inv'
  OBVIOUS
<1>1. /\ UNCHANGED <<built, current, rates, concurrency, holds, req>>
      /\ active' \in Revisions /\ audit' \in BOOLEAN /\ now' \in 0..MaxNow
  <2>0. active \in Revisions /\ audit \in BOOLEAN /\ now \in 0..MaxNow
    BY DEF Inv, AdmissionTypeOK
  <2>1. CASE Tick
    BY <2>0, <2>1, Bounds DEF Tick, configVars, limitVars
  <2>2. CASE AuditChanges
    BY <2>0, <2>2 DEF AuditChanges, configVars, limitVars
  <2>3. ASSUME NEW rev \in Revisions, Reload(rev)
        PROVE  /\ UNCHANGED <<built, current, rates, concurrency, holds, req>>
               /\ active' \in Revisions /\ audit' \in BOOLEAN /\ now' \in 0..MaxNow
    BY <2>0, <2>3 DEF Reload, limitVars
  <2> QED
    BY <2>1, <2>2, <2>3 DEF Environment
<1>2. AdmissionTypeOK'
  BY <1>1 DEF Inv, AdmissionTypeOK
<1>3. HandlersInv'
  BY <1>1 DEF Inv, HandlersInv, KeyOf
<1>4. CountersInv'
  BY <1>1 DEF Inv, CountersInv, Holders
<1> QED
  BY <1>2, <1>3, <1>4 DEF Inv

\* A request arrives without a reservation.
LEMMA ArriveStep ==
    ASSUME Inv, NEW r \in Requests, NEW key \in Clients \cup {NoKey, BadKey},
           NEW route \in Routes, Arrive(r, key, route)
    PROVE  Inv'
<1> DEFINE h == [req[r] EXCEPT !.pc = "server", !.cfg = active, !.key = key, !.route = route]
<1>0. req[r] \in Handler /\ active \in Revisions
  BY DEF Inv, AdmissionTypeOK
<1>1. h \in Handler
  BY <1>0 DEF Handler
<1>2. req' = [req EXCEPT ![r] = h]
  BY DEF Arrive, Inv, AdmissionTypeOK
<1>3. h.pc = "server" /\ h.srv = req[r].srv /\ h.route = route /\ h.cfg = active
  BY <1>0 DEF Handler
<1>4. holds[r] = {} /\ req[r].srv <= Len(built)
  BY DEF Arrive, Inv, HandlersInv, Unreserved, AdmissionTypeOK
<1>5. UNCHANGED <<configVars, limitVars, audit, now>>
  BY DEF Arrive
<1> HIDE DEF h
<1> QED
  BY <1>0, <1>1, <1>2, <1>3, <1>4, <1>5, LocalStep DEF limitVars, Inv, AdmissionTypeOK

\* The handler takes the current server.
LEMMA ReuseStep ==
    ASSUME Inv, NEW r \in Requests, ReuseServer(r)
    PROVE  Inv'
<1> DEFINE h == [req[r] EXCEPT !.pc = "admit", !.srv = current]
<1>0. /\ req[r] \in Handler /\ req[r].pc = "server"
      /\ current \in 0..MaxServers /\ current # 0 /\ current <= Len(built)
  BY Bounds DEF Inv, AdmissionTypeOK, ReuseServer, Reusable
<1>1. h \in Handler
  BY <1>0 DEF Handler
<1>2. req' = [req EXCEPT ![r] = h]
  BY DEF ReuseServer, Inv, AdmissionTypeOK
<1>3. h.pc = "admit" /\ h.srv = current /\ h.route = req[r].route /\ h.cfg = req[r].cfg
  BY <1>0 DEF Handler
<1>4. holds[r] = {} /\ req[r].route \in Routes /\ req[r].cfg \in Revisions
  BY <1>0 DEF Inv, HandlersInv, Unreserved
<1>5. UNCHANGED <<configVars, limitVars, audit, now>>
  BY DEF ReuseServer
<1> HIDE DEF h
<1> QED
  BY <1>0, <1>1, <1>2, <1>3, <1>4, <1>5, LocalStep DEF limitVars, Inv, AdmissionTypeOK

\* The new server is one whose counters nobody has touched.
LEMMA BuildStep ==
    ASSUME Inv, NEW r \in Requests, BuildServer(r)
    PROVE  Inv'
<1> DEFINE n == Len(built) + 1
           h == [req[r] EXCEPT !.pc = "admit", !.srv = n]
<1>0. /\ req \in [Requests -> Handler] /\ req[r] \in Handler /\ req[r].pc = "server"
      /\ built \in Seq(Revisions) /\ Len(built) \in Nat
      /\ n \in 0..MaxServers /\ n # 0
  BY Bounds DEF Inv, AdmissionTypeOK, BuildServer
<1>1. h \in Handler
  <2> HIDE DEF n
  <2> QED
    BY <1>0 DEF Handler
<1>2. req' = [req EXCEPT ![r] = h]
  BY DEF BuildServer, Inv, AdmissionTypeOK
<1>3. h.pc = "admit" /\ h.srv = n /\ h.route = req[r].route /\ h.cfg = req[r].cfg
  BY <1>0 DEF Handler
<1>4. holds[r] = {} /\ req[r].route \in Routes /\ req[r].cfg \in Revisions
  BY <1>0 DEF Inv, HandlersInv, Unreserved
<1>5. /\ built' = Append(built, req[r].cfg) /\ req[r].cfg \in Revisions
      /\ current' \in 0..n
      /\ UNCHANGED <<active, rates, concurrency, holds, audit, now>>
  BY <1>0, <1>4 DEF BuildServer, limitVars, Inv, AdmissionTypeOK
<1>6. /\ built' \in Seq(Revisions) /\ Len(built') = n
      /\ \A s \in 1..Len(built) : built'[s] = built[s]
  BY <1>0, <1>5
<1>7. /\ req' \in [Requests -> Handler] /\ req'[r] = h
      /\ \A q \in Requests : q # r => req'[q] = req[q]
  BY <1>0, <1>1, <1>2
<1> HIDE DEF h
<1>8. AdmissionTypeOK'
  <2>1. Len(built') <= MaxServers /\ current' \in 0..Len(built')
    BY <1>0, <1>5, <1>6, Bounds
  <2>2. \A q \in Requests :
          /\ req'[q].srv <= Len(built')
          /\ req'[q].pc \notin {"idle", "server"} => req'[q].srv # 0
    <3> SUFFICES ASSUME NEW q \in Requests
                 PROVE  /\ req'[q].srv <= Len(built')
                        /\ req'[q].pc \notin {"idle", "server"} => req'[q].srv # 0
      OBVIOUS
    <3>1. CASE q = r
      BY <1>0, <1>3, <1>6, <1>7, <3>1
    <3>2. CASE q # r
      <4>1. /\ req'[q] = req[q] /\ req[q].srv <= Len(built)
            /\ req[q].pc \notin {"idle", "server"} => req[q].srv # 0
        BY <1>7, <3>2 DEF Inv, AdmissionTypeOK
      <4>2. req[q].srv \in Nat
        BY <1>0, ServerIndex
      <4> QED
        BY <1>0, <1>6, <4>1, <4>2
    <3> QED
      BY <3>1, <3>2
  <2>3. /\ active \in Revisions
        /\ rates \in [Servers -> [Keys -> [start : Nat, count : Nat]]]
        /\ concurrency \in [Servers -> [Keys -> Nat]]
        /\ holds \in [Requests -> SUBSET (Servers \X Keys)]
        /\ audit \in BOOLEAN /\ now \in 0..MaxNow
    BY DEF Inv, AdmissionTypeOK
  <2> HIDE DEF n
  <2> QED
    BY <1>5, <1>6, <1>7, <2>1, <2>2, <2>3 DEF AdmissionTypeOK
<1>9. HandlersInv'
  BY <1>3, <1>4, <1>5, <1>7 DEF Inv, HandlersInv, KeyOf, Unreserved
<1>10. CountersInv'
  <2>1. \A s, k : Holders(s, k)' = Holders(s, k)
    BY <1>5 DEF Holders
  <2> SUFFICES ASSUME NEW s \in Servers, NEW k \in Keys, concurrency[s][k] # 0
               PROVE  /\ s <= Len(built')
                      /\ concurrency[s][k] <= effectivePolicy(Config[built'[s]], k).concurrent
    BY <1>5, <2>1 DEF Inv, CountersInv
  <2>2. s \in 1..Len(built)
    BY <1>0, Bounds DEF Inv, CountersInv, Servers
  <2> QED
    BY <1>0, <1>6, <2>2 DEF Inv, CountersInv
<1> QED
  BY <1>8, <1>9, <1>10 DEF Inv

\* The lookup and AdmitProtectedRoute: a handler goes on to the limiter only
\* with the key of a client.
LEMMA AdmitStep ==
    ASSUME Inv, NEW r \in Requests, Admit(r)
    PROVE  Inv'
<1> DEFINE reason == AdmissionReason(ConfigOf(r), req[r].key, req[r].route)
           protected == routeProtected(ConfigOf(r), req[r].route)
           h == IF reason # "" THEN RefuseInput(req[r], reason)
                ELSE IF protected THEN [req[r] EXCEPT !.pc = "rate", !.at = now]
                ELSE [req[r] EXCEPT !.pc = "infra"]
<1>0. /\ req[r] \in Handler /\ req[r].pc = "admit" /\ req[r].srv <= Len(built)
      /\ req[r].srv # 0 /\ now \in Nat
      /\ req[r].route \in Routes /\ req[r].cfg \in Revisions /\ holds[r] = {}
  <2>1. req[r].pc = "admit"
    BY DEF Admit
  <2>2. req[r] \in Handler /\ req[r].srv <= Len(built) /\ req[r].srv # 0
    BY <2>1 DEF Inv, AdmissionTypeOK
  <2>3. now \in Nat
    BY Bounds DEF Inv, AdmissionTypeOK
  <2>4. req[r].route \in Routes /\ req[r].cfg \in Revisions /\ holds[r] = {}
    BY <2>1 DEF Inv, HandlersInv, Unreserved
  <2> QED
    BY <2>1, <2>2, <2>3, <2>4
<1>1. req' = [req EXCEPT ![r] = h]
  BY DEF Admit, Inv, AdmissionTypeOK
<1>2. UNCHANGED <<configVars, limitVars, audit, now>>
  BY DEF Admit
<1>3. reason = "" /\ protected => req[r].key \in Clients
  <2> SUFFICES ASSUME reason = "", protected PROVE req[r].key \in Clients
    OBVIOUS
  <2>1. authenticate(ConfigOf(r), req[r].key) = ""
    BY DEF AdmissionReason
  <2>2. req[r].key # NoKey /\ req[r].key # BadKey
    BY <2>1 DEF authenticate
  <2> QED
    BY <1>0, <2>2 DEF Handler
<1>4. reason \in Reasons \cup {""}
  BY AdmissionReasonTyped
<1> HIDE DEF reason, protected
<1>5. /\ h \in Handler /\ h.srv = req[r].srv /\ h.key = req[r].key
      /\ h.route = req[r].route /\ h.cfg = req[r].cfg
      /\ h.pc \in {"return", "rate", "infra"}
      /\ h.pc = "rate" => req[r].key \in Clients
  <2>1. CASE reason # ""
    BY <1>0, <1>4, <2>1, RefuseHandler
  <2>2. CASE reason = "" /\ protected
    BY <1>0, <1>3, <2>2 DEF Handler
  <2>3. CASE reason = "" /\ ~protected
    BY <1>0, <2>3 DEF Handler
  <2> QED
    BY <2>1, <2>2, <2>3
<1> HIDE DEF h
<1> QED
  BY <1>0, <1>1, <1>2, <1>5, LocalStep DEF limitVars, Inv, AdmissionTypeOK, Unreserved

\* What the invariant says of a handler inside the limiter.
LEMMA InLimiter ==
    ASSUME Inv, NEW r \in Requests, req[r].pc \in {"rate", "reserve"}
    PROVE  /\ req[r] \in Handler /\ req[r].srv \in 1..Len(built)
           /\ req[r].srv \in Servers /\ KeyOf(r) \in Keys
           /\ req[r].route \in Routes /\ req[r].cfg \in Revisions
           /\ req[r].key \in Clients /\ holds[r] = {}
           /\ PolicyOf(r) \in Policy
<1>1. /\ req[r] \in Handler /\ req[r].srv <= Len(built) /\ req[r].srv # 0
      /\ Len(built) <= MaxServers /\ Len(built) \in Nat
  BY DEF Inv, AdmissionTypeOK
<1>2. /\ req[r].route \in Routes /\ req[r].cfg \in Revisions
      /\ req[r].key \in Clients /\ holds[r] = {}
  BY DEF Inv, HandlersInv, Unreserved
<1>3. req[r].srv \in 1..Len(built) /\ req[r].srv \in Servers
  <2>1. req[r].srv \in Nat
    BY <1>1, ServerIndex
  <2> QED
    BY <1>1, <2>1, Bounds DEF Servers
<1>4. KeyOf(r) \in Keys
  BY <1>2 DEF KeyOf, Keys
<1>5. PolicyOf(r) \in Policy
  BY <1>3, <1>4, PolicyTyped DEF PolicyOf, ConfigOf, Inv
<1> QED
  BY <1>1, <1>2, <1>3, <1>4, <1>5

\* allowRate changes only its rate window.
LEMMA RateStep ==
    ASSUME Inv, NEW r \in Requests, allowRate(r)
    PROVE  Inv'
<1> DEFINE h == [req[r] EXCEPT !.pc = "reserve", !.granted = TRUE]
           S == req[r].srv
           K == KeyOf(r)
<1>0. /\ req[r] \in Handler /\ S \in 1..Len(built) /\ S \in Servers /\ K \in Keys
      /\ req[r].route \in Routes /\ req[r].cfg \in Revisions
      /\ req[r].key \in Clients /\ holds[r] = {}
  BY InLimiter DEF allowRate
<1>1. rates \in [Servers -> [Keys -> [start : Nat, count : Nat]]]
  BY DEF Inv, AdmissionTypeOK
<1>2. req[r].at \in Nat
  BY <1>0 DEF Handler
<1>3. rates[S][K] \in [start : Nat, count : Nat]
  BY <1>0, <1>1
<1>4. rates' \in [Servers -> [Keys -> [start : Nat, count : Nat]]]
  <2> DEFINE o == WindowOver(r)
             t == req[r].at
  <2>1. rates' = [rates EXCEPT ![S][K] =
                     IF o THEN [start |-> t, count |-> 1]
                     ELSE [start |-> @.start, count |-> @.count + 1]]
    BY DEF allowRate
  <2> HIDE DEF S, K, o, t
  <2>2. CASE o
    BY <1>0, <1>1, <1>2, <2>1, <2>2 DEF t
  <2>3. CASE ~o
    BY <1>0, <1>1, <1>3, <2>1, <2>3
  <2> QED
    BY <2>2, <2>3
<1>5. h \in Handler /\ h.pc = "reserve" /\ h.srv = S /\ h.route = req[r].route
      /\ h.cfg = req[r].cfg /\ h.key = req[r].key
  BY <1>0 DEF Handler
<1>6. req' = [req EXCEPT ![r] = h]
  BY DEF allowRate, Inv, AdmissionTypeOK
<1>7. UNCHANGED <<configVars, concurrency, holds, audit, now>>
  BY DEF allowRate
<1>8. h.srv <= Len(built) /\ h.srv # 0
  BY <1>0, <1>5
<1> HIDE DEF h, S, K
<1> QED
  BY <1>0, <1>4, <1>5, <1>6, <1>7, <1>8, LocalStep

\* A refusal by the limiter.
LEMMA LimiterRefuses ==
    ASSUME Inv, NEW r \in Requests, RateRefused(r) \/ ConcurrencyRefused(r)
    PROVE  Inv'
<1>1. PICK reason \in Reasons :
        /\ req[r].pc \in {"rate", "reserve"}
        /\ req' = [req EXCEPT ![r] = RefuseInput(req[r], reason)]
        /\ UNCHANGED <<configVars, limitVars, audit, now>>
  <2>1. {"rate_limit_exceeded", "concurrency_limit_exceeded"} \subseteq Reasons
    BY DEF Reasons, LimitReasons
  <2> QED
    BY <2>1 DEF RateRefused, ConcurrencyRefused, Inv, AdmissionTypeOK
<1> DEFINE h == RefuseInput(req[r], reason)
<1>2. /\ req[r] \in Handler /\ req[r].srv \in 1..Len(built)
      /\ req[r].route \in Routes /\ req[r].cfg \in Revisions /\ holds[r] = {}
  BY <1>1, InLimiter
<1>3. /\ h \in Handler /\ h.pc = "return" /\ h.srv = req[r].srv
      /\ h.route = req[r].route /\ h.cfg = req[r].cfg
  BY <1>2, RefuseHandler
<1>4. req' = [req EXCEPT ![r] = h]
  BY <1>1
<1>5. h.srv <= Len(built) /\ h.srv # 0
  BY <1>2, <1>3
<1> HIDE DEF h
<1> QED
  BY <1>1, <1>2, <1>3, <1>4, <1>5, LocalStep
  DEF limitVars, Inv, AdmissionTypeOK, Unreserved

\* The exchange keeps its reservation until it returns.
LEMMA ServeStep ==
    ASSUME Inv, NEW r \in Requests, Serve(r)
    PROVE  Inv'
<1> DEFINE h == [req[r] EXCEPT !.pc = "return", !.answer.status = 200]
<1>0. /\ req[r] \in Handler /\ req[r].srv <= Len(built) /\ req[r].srv # 0
      /\ req[r].route \in Routes /\ req[r].cfg \in Revisions
  BY DEF Serve, Inv, AdmissionTypeOK, HandlersInv
<1>1. [req[r].answer EXCEPT !.status = 200] \in Answer
  BY <1>0 DEF Handler, Answer
<1>2. /\ h \in Handler /\ h.pc = "return" /\ h.srv = req[r].srv /\ h.key = req[r].key
      /\ h.route = req[r].route /\ h.cfg = req[r].cfg
  BY <1>0, <1>1 DEF Handler
<1>3. req' = [req EXCEPT ![r] = h]
  BY DEF Serve, Inv, AdmissionTypeOK
<1>4. UNCHANGED <<configVars, limitVars, audit, now>>
  BY DEF Serve
<1> HIDE DEF h
<1> QED
  BY <1>0, <1>2, <1>3, <1>4, LocalStep DEF limitVars, Inv, AdmissionTypeOK, Unreserved

\* The holders of a reservation are finitely many.
LEMMA HoldersFinite ==
    ASSUME NEW s, NEW k
    PROVE  IsFiniteSet(Holders(s, k)) /\ Cardinality(Holders(s, k)) \in Nat
<1>1. Holders(s, k) \subseteq Requests
  BY DEF Holders
<1>2. IsFiniteSet(Holders(s, k))
  BY <1>1, RequestsFinite, FS_Subset
<1> QED
  BY <1>2, FS_CardinalityType

\* acquireConcurrency: one more reservation, one more holder.
LEMMA AcquireStep ==
    ASSUME Inv, NEW r \in Requests, acquireConcurrency(r)
    PROVE  Inv'
<1> DEFINE S == req[r].srv
           K == KeyOf(r)
           h == [req[r] EXCEPT !.pc = "body"]
<1>0. /\ req[r] \in Handler /\ S \in 1..Len(built) /\ S \in Servers /\ K \in Keys
      /\ req[r].route \in Routes /\ req[r].cfg \in Revisions
      /\ holds[r] = {} /\ PolicyOf(r) \in Policy
  BY InLimiter DEF acquireConcurrency
<1>1. /\ req \in [Requests -> Handler]
      /\ concurrency \in [Servers -> [Keys -> Nat]]
      /\ holds \in [Requests -> SUBSET (Servers \X Keys)]
  BY DEF Inv, AdmissionTypeOK
<1>2. /\ h \in Handler /\ h.pc = "body" /\ h.srv = S /\ h.key = req[r].key
      /\ h.route = req[r].route /\ h.cfg = req[r].cfg
  BY <1>0 DEF Handler
<1>3. /\ req' = [req EXCEPT ![r] = h]
      /\ concurrency' = [concurrency EXCEPT ![S][K] = @ + 1]
      /\ holds' = [holds EXCEPT ![r] = {<<S, K>>}]
      /\ UNCHANGED <<configVars, rates, audit, now>>
  BY <1>1 DEF acquireConcurrency
<1>4. concurrency[S][K] < PolicyOf(r).concurrent
  BY DEF acquireConcurrency, CapacityLeft
<1>k. K = <<req[r].key, req[r].route>>
  BY DEF KeyOf
<1> HIDE DEF S, K, h
<1>5. /\ req' \in [Requests -> Handler] /\ req'[r] = h
      /\ \A q \in Requests : q # r => req'[q] = req[q]
  BY <1>1, <1>2, <1>3
<1>6. /\ concurrency' \in [Servers -> [Keys -> Nat]]
      /\ concurrency'[S][K] = concurrency[S][K] + 1
      /\ \A s \in Servers, k \in Keys :
            s # S \/ k # K => concurrency'[s][k] = concurrency[s][k]
  BY <1>0, <1>1, <1>3
<1>7. /\ holds' \in [Requests -> SUBSET (Servers \X Keys)] /\ holds'[r] = {<<S, K>>}
      /\ \A q \in Requests : q # r => holds'[q] = holds[q]
  BY <1>0, <1>1, <1>3
<1>8. AdmissionTypeOK'
  <2>1. h.srv <= Len(built) /\ h.srv # 0
    BY <1>0, <1>2
  <2> QED
    BY <1>2, <1>3, <1>5, <1>6, <1>7, <2>1 DEF Inv, AdmissionTypeOK, configVars
<1>9. HandlersInv'
  <2> SUFFICES ASSUME NEW q \in Requests
               PROVE  /\ req'[q].pc # "idle" =>
                            req'[q].route \in Routes /\ req'[q].cfg \in Revisions
                      /\ req'[q].pc \in {"rate", "reserve"} => req'[q].key \in Clients
                      /\ req'[q].pc \in Unreserved \cup {"done"} => holds'[q] = {}
                      /\ \A p \in holds'[q] :
                            p = <<req'[q].srv, <<req'[q].key, req'[q].route>> >>
                            /\ req'[q].srv # 0
    BY DEF HandlersInv, KeyOf
  <2>1. CASE q = r
    <3>1. S # 0
      BY <1>0
    <3> QED
      BY <1>0, <1>2, <1>5, <1>7, <1>k, <2>1, <3>1 DEF Unreserved
  <2>2. CASE q # r
    BY <1>5, <1>7, <2>2 DEF Inv, HandlersInv, KeyOf
  <2> QED
    BY <2>1, <2>2
<1>10. CountersInv'
  <2> SUFFICES ASSUME NEW s \in Servers, NEW k \in Keys
               PROVE  /\ concurrency'[s][k] = Cardinality(Holders(s, k)')
                      /\ concurrency'[s][k] # 0 =>
                            /\ s <= Len(built)
                            /\ concurrency'[s][k] <=
                                   effectivePolicy(Config[built[s]], k).concurrent
    BY <1>3 DEF CountersInv, configVars
  <2>0. /\ concurrency[s][k] = Cardinality(Holders(s, k))
        /\ concurrency[s][k] # 0 =>
              /\ s <= Len(built)
              /\ concurrency[s][k] <= effectivePolicy(Config[built[s]], k).concurrent
    BY DEF Inv, CountersInv
  <2>1. CASE s = S /\ k = K
    <3>1. Holders(s, k)' = Holders(s, k) \cup {r}
      BY <1>7, <2>1 DEF Holders
    <3>2. r \notin Holders(s, k)
      BY <1>0 DEF Holders
    <3>3. Cardinality(Holders(s, k)') = Cardinality(Holders(s, k)) + 1
      BY <3>1, <3>2, HoldersFinite, FS_AddElement
    <3>4. effectivePolicy(Config[built[s]], k) = PolicyOf(r)
      BY <2>1 DEF PolicyOf, ConfigOf, S, K
    <3>5. concurrency[S][K] \in Nat /\ PolicyOf(r).concurrent \in Nat
      BY <1>0, <1>1 DEF Policy
    <3> QED
      BY <1>0, <1>4, <1>6, <2>0, <2>1, <3>3, <3>4, <3>5
  <2>2. CASE s # S \/ k # K
    <3>1. Holders(s, k)' = Holders(s, k)
      BY <1>0, <1>7, <2>2 DEF Holders
    <3> QED
      BY <1>6, <2>0, <2>2, <3>1
  <2> QED
    BY <2>1, <2>2
<1> QED
  BY <1>8, <1>9, <1>10 DEF Inv

\* Return: the deferred release, once; the floor at zero never bites.
LEMMA ReturnStep ==
    ASSUME Inv, NEW r \in Requests, Return(r)
    PROVE  Inv'
<1> DEFINE h == [req[r] EXCEPT !.pc = "done"]
<1>0. /\ req[r] \in Handler /\ req[r].srv <= Len(built) /\ req[r].srv # 0
      /\ req[r].route \in Routes /\ req[r].cfg \in Revisions
  BY DEF Return, Inv, AdmissionTypeOK, HandlersInv
<1>1. /\ req \in [Requests -> Handler]
      /\ concurrency \in [Servers -> [Keys -> Nat]]
      /\ holds \in [Requests -> SUBSET (Servers \X Keys)]
  BY DEF Inv, AdmissionTypeOK
<1>2. /\ h \in Handler /\ h.pc = "done" /\ h.srv = req[r].srv /\ h.key = req[r].key
      /\ h.route = req[r].route /\ h.cfg = req[r].cfg
  BY <1>0 DEF Handler
<1>3. /\ req' = [req EXCEPT ![r] = h]
      /\ concurrency' = [s \in Servers |-> [k \in Keys |-> Released(s, k, r)]]
      /\ holds' = [holds EXCEPT ![r] = {}]
      /\ UNCHANGED <<configVars, rates, audit, now>>
  BY <1>1 DEF Return
<1> HIDE DEF h
<1>4. /\ req' \in [Requests -> Handler] /\ req'[r] = h
      /\ \A q \in Requests : q # r => req'[q] = req[q]
  BY <1>1, <1>2, <1>3
<1>5. /\ holds' \in [Requests -> SUBSET (Servers \X Keys)] /\ holds'[r] = {}
      /\ \A q \in Requests : q # r => holds'[q] = holds[q]
  BY <1>1, <1>3
<1>6. ASSUME NEW s \in Servers, NEW k \in Keys
      PROVE  /\ concurrency'[s][k] \in Nat
             /\ concurrency'[s][k] = Cardinality(Holders(s, k)')
             /\ concurrency'[s][k] <= concurrency[s][k]
  <2>0. concurrency[s][k] = Cardinality(Holders(s, k)) /\ concurrency[s][k] \in Nat
    BY <1>1 DEF Inv, CountersInv
  <2>1. concurrency'[s][k] = Released(s, k, r)
    BY <1>3
  <2>2. CASE <<s, k>> \in holds[r]
    <3>1. Holders(s, k)' = Holders(s, k) \ {r} /\ r \in Holders(s, k)
      BY <1>5, <2>2 DEF Holders
    <3>2. Cardinality(Holders(s, k)') = Cardinality(Holders(s, k)) - 1
      BY <3>1, HoldersFinite, FS_RemoveElement
    <3>3. Cardinality(Holders(s, k)) # 0
      BY <3>1, HoldersFinite, FS_EmptySet
    <3> QED
      BY <2>0, <2>1, <2>2, <3>2, <3>3 DEF Released
  <2>3. CASE <<s, k>> \notin holds[r]
    <3>1. Holders(s, k)' = Holders(s, k)
      BY <1>5, <2>3 DEF Holders
    <3> QED
      BY <2>0, <2>1, <2>3, <3>1 DEF Released
  <2> QED
    BY <2>2, <2>3
<1>7. AdmissionTypeOK'
  <2>1. concurrency' \in [Servers -> [Keys -> Nat]]
    <3>1. \A s \in Servers, k \in Keys : Released(s, k, r) \in Nat
      BY <1>3, <1>6
    <3> QED
      BY <1>3, <3>1
  <2> QED
    BY <1>0, <1>2, <1>3, <1>4, <1>5, <2>1 DEF Inv, AdmissionTypeOK, configVars
<1>8. HandlersInv'
  BY <1>0, <1>2, <1>4, <1>5 DEF Inv, HandlersInv, KeyOf, Unreserved
<1>9. CountersInv'
  <2> SUFFICES ASSUME NEW s \in Servers, NEW k \in Keys
               PROVE  /\ concurrency'[s][k] = Cardinality(Holders(s, k)')
                      /\ concurrency'[s][k] # 0 =>
                            /\ s <= Len(built)
                            /\ concurrency'[s][k] <=
                                   effectivePolicy(Config[built[s]], k).concurrent
    BY <1>3 DEF CountersInv, configVars
  <2>1. /\ concurrency[s][k] \in Nat
        /\ concurrency[s][k] # 0 =>
              /\ s <= Len(built)
              /\ concurrency[s][k] <= effectivePolicy(Config[built[s]], k).concurrent
    BY <1>1 DEF Inv, CountersInv
  <2>2. s <= Len(built) => effectivePolicy(Config[built[s]], k).concurrent \in Nat
    BY PolicyTyped DEF Servers, Inv, Policy, AdmissionTypeOK
  <2> QED
    BY <1>6, <2>1, <2>2
<1> QED
  BY <1>7, <1>8, <1>9 DEF Inv

-----------------------------------------------------------------------------
\* The invariant is inductive.
LEMMA NextInv == Inv /\ [AdmissionNext]_admissionVars => Inv'
<1> SUFFICES ASSUME Inv, [AdmissionNext]_admissionVars PROVE Inv'
  OBVIOUS
<1>1. CASE Environment
  BY <1>1, EnvironmentStep
<1>2. ASSUME NEW r \in Requests, AdmissionStep(r) PROVE Inv'
  BY <1>2, ArriveStep, ReuseStep, BuildStep, AdmitStep, RateStep, LimiterRefuses,
     AcquireStep, ReturnStep DEF AdmissionStep
<1>3. ASSUME NEW r \in Requests, Serve(r) PROVE Inv'
  BY <1>3, ServeStep
<1>4. CASE UNCHANGED admissionVars
  <2>0. UNCHANGED <<active, built, current, rates, concurrency, holds, audit, now, req>>
    BY <1>4 DEF admissionVars, configVars, limitVars
  <2>1. AdmissionTypeOK'
    BY <2>0 DEF Inv, AdmissionTypeOK
  <2>2. HandlersInv'
    BY <2>0 DEF Inv, HandlersInv, KeyOf
  <2>3. CountersInv'
    BY <2>0 DEF Inv, CountersInv, Holders
  <2> QED
    BY <2>1, <2>2, <2>3 DEF Inv
<1> QED
  BY <1>1, <1>2, <1>3, <1>4 DEF AdmissionNext

\* Type correctness of the admission state, for any number of requests,
\* clients, routes, revisions and servers (server_builder.go, limits.go).
THEOREM AdmissionTypeCorrect == AdmissionSpec => []AdmissionTypeOK
<1>1. Inv => AdmissionTypeOK
  BY DEF Inv
<1> QED
  BY <1>1, InitInv, NextInv, PTL DEF AdmissionSpec

\* The invariant bounds the reservations of every server built.
LEMMA InvWithinLimits == Inv => ReservationsWithinLimit
<1> SUFFICES ASSUME Inv, NEW s \in 1..Len(built), NEW k \in Keys
             PROVE  /\ concurrency[s][k] = Cardinality(Holders(s, k))
                    /\ Holders(s, k) # {} =>
                          Cardinality(Holders(s, k)) <=
                              effectivePolicy(Config[built[s]], k).concurrent
  BY DEF ReservationsWithinLimit
<1>1. s \in Servers
  BY Bounds DEF Inv, AdmissionTypeOK, Servers
<1>2. Holders(s, k) # {} => Cardinality(Holders(s, k)) # 0
  BY HoldersFinite, FS_EmptySet
<1> QED
  BY <1>1, <1>2 DEF Inv, CountersInv

\* acquireConcurrency and release (limits.go:136-163) keep each counter equal
\* to the number of requests that hold a reservation, and within the limit of
\* the server's own configuration, whatever interleaving of requests, reloads
\* and audit failures.
THEOREM ReservationsBounded == AdmissionSpec => []ReservationsWithinLimit
BY InvWithinLimits, InitInv, NextInv, PTL DEF AdmissionSpec

-----------------------------------------------------------------------------
(* The rate windows.                                                       *)

LimitOf(s, k) == effectivePolicy(Config[built[s]], k)
Granted(s, k) == {r \in Requests : req[r].granted /\ req[r].srv = s /\ KeyOf(r) = k}
InWindow(s, k) == {r \in Granted(s, k) : req[r].at >= rates[s][k].start}

\* A window counts every request admitted in it, and each of them, however late
\* it comes to the mutex, carries an instant before the window's end: so the
\* next window starts after all of them.
WindowInv(s, k) ==
    /\ rates[s][k].count = 0 => Granted(s, k) = {}
    /\ rates[s][k].count # 0 =>
          s <= Len(built) /\ rates[s][k].count <= LimitOf(s, k).requests
    /\ \A r \in Granted(s, k) : req[r].at < rates[s][k].start + LimitOf(s, k).window
    /\ Cardinality(InWindow(s, k)) <= rates[s][k].count

Unlimited == {"idle", "server", "admit", "rate"}

RateInv ==
    /\ \A r \in Requests : req[r].pc \in Unlimited => ~ req[r].granted
    /\ \A r \in Requests : req[r].pc = "rate" => ValidPolicy(PolicyOf(r))
    /\ \A s \in Servers, k \in Keys : WindowInv(s, k)

\* With no server there is no window.
LEMMA InitRate == AdmissionInit => RateInv
<1> SUFFICES ASSUME AdmissionInit PROVE RateInv
  OBVIOUS
<1>1. \A r \in Requests : ~ req[r].granted /\ req[r].pc = "idle"
  BY DEF AdmissionInit, Idle
<1>2. \A s, k : Granted(s, k) = {} /\ InWindow(s, k) = {}
  BY <1>1 DEF Granted, InWindow
<1>3. \A s \in Servers, k \in Keys : rates[s][k].count = 0
  BY DEF AdmissionInit
<1>4. ASSUME NEW s \in Servers, NEW k \in Keys PROVE WindowInv(s, k)
  <2>1. Cardinality(InWindow(s, k)) = 0
    BY <1>2, FS_EmptySet
  <2> QED
    BY <1>2, <1>3, <2>1 DEF WindowInv
<1> QED
  BY <1>1, <1>4 DEF RateInv

\* The server of an admitted request is built.
LEMMA GrantedBuilt ==
    ASSUME Inv, RateInv, NEW r \in Requests, req[r].granted \/ req[r].pc = "rate"
    PROVE  req[r].srv \in 1..Len(built)
<1>1. req[r].pc \notin {"idle", "server"}
  BY DEF RateInv, Unlimited
<1>2. req[r].srv <= Len(built) /\ req[r].srv # 0 /\ req[r] \in Handler
  BY <1>1 DEF Inv, AdmissionTypeOK
<1> QED
  BY <1>2, ServerIndex DEF Inv, AdmissionTypeOK

\* A step that leaves the windows alone and moves one handler without changing
\* what it was admitted with.
LEMMA RateKept ==
    ASSUME Inv, RateInv, NEW r \in Requests, NEW h,
           req' = [req EXCEPT ![r] = h], UNCHANGED rates,
           Len(built') \in Nat, Len(built') >= Len(built),
           \A s \in 1..Len(built) : built'[s] = built[s],
           h.granted = req[r].granted,
           h.granted => /\ h.srv = req[r].srv /\ h.key = req[r].key
                        /\ h.route = req[r].route /\ h.at = req[r].at,
           h.pc \in Unlimited => ~ h.granted,
           h.pc = "rate" =>
              ValidPolicy(effectivePolicy(Config[built'[h.srv]], <<h.key, h.route>>))
    PROVE  RateInv'
<1>1. req'[r] = h /\ \A q \in Requests \ {r} : req'[q] = req[q]
  BY DEF Inv, AdmissionTypeOK
<1>2. Len(built) \in Nat
  BY DEF Inv, AdmissionTypeOK
<1>3. \A s, k : Granted(s, k)' = Granted(s, k)
  BY <1>1 DEF Granted, KeyOf
<1>4. \A q \in Requests : req'[q].granted => req'[q].at = req[q].at
  BY <1>1
<1>5. \A s, k : InWindow(s, k)' = InWindow(s, k)
  BY <1>3, <1>4 DEF InWindow, Granted
<1>6. \A s \in 1..Len(built) : \A k : LimitOf(s, k)' = LimitOf(s, k)
  BY DEF LimitOf
<1>7. \A q \in Requests \ {r} : req[q].pc = "rate" => PolicyOf(q)' = PolicyOf(q)
  BY <1>1, GrantedBuilt DEF PolicyOf, ConfigOf, KeyOf
<1>8. ASSUME NEW s \in Servers, NEW k \in Keys PROVE WindowInv(s, k)'
  <2>1. WindowInv(s, k) /\ s \in Nat /\ s >= 1
    BY Bounds DEF RateInv, Servers
  <2>2. rates[s][k].count # 0 =>
           s <= Len(built') /\ rates[s][k].count <= LimitOf(s, k)'.requests
    BY <1>2, <1>6, <2>1 DEF WindowInv
  <2>3. \A q \in Granted(s, k) : req'[q].at < rates[s][k].start + LimitOf(s, k)'.window
    <3> SUFFICES ASSUME NEW q \in Granted(s, k)
                 PROVE  req'[q].at < rates[s][k].start + LimitOf(s, k)'.window
      OBVIOUS
    <3>1. q \in Requests /\ req[q].granted /\ req[q].srv = s
      BY DEF Granted
    <3>2. s \in 1..Len(built)
      BY <3>1, GrantedBuilt
    <3> QED
      BY <1>3, <1>4, <1>6, <2>1, <3>1, <3>2 DEF WindowInv, Granted
  <2> QED
    BY <1>3, <1>5, <2>1, <2>2, <2>3 DEF WindowInv
<1>9. \A q \in Requests : req'[q].pc = "rate" => ValidPolicy(PolicyOf(q))'
  BY <1>1, <1>7 DEF RateInv, PolicyOf, ConfigOf, KeyOf, ValidPolicy
<1>10. \A q \in Requests : req'[q].pc \in Unlimited => ~ req'[q].granted
  BY <1>1 DEF RateInv
<1> QED
  BY <1>8, <1>9, <1>10 DEF RateInv

\* Past the route lookup, a request to a protected route has a valid policy.
LEMMA AdmittedPolicy ==
    ASSUME NEW cfg, NEW key, NEW route, routeProtected(cfg, route),
           AdmissionReason(cfg, key, route) = ""
    PROVE  ValidPolicy(effectivePolicy(cfg, <<key, route>>))
<1>1. authenticate(cfg, key) = "" /\ hasPolicy(cfg, route)
  BY DEF AdmissionReason
<1> QED
  BY <1>1 DEF hasPolicy, effectivePolicy

\* An admission counts in its window, or opens the next one.
LEMMA AdmitRate ==
    ASSUME Inv, RateInv, NEW r \in Requests, Admit(r)
    PROVE  RateInv'
<1> DEFINE reason == AdmissionReason(ConfigOf(r), req[r].key, req[r].route)
           protected == routeProtected(ConfigOf(r), req[r].route)
           h == IF reason # "" THEN RefuseInput(req[r], reason)
                ELSE IF protected THEN [req[r] EXCEPT !.pc = "rate", !.at = now]
                ELSE [req[r] EXCEPT !.pc = "infra"]
<1>1. /\ req[r] \in Handler /\ req[r].pc = "admit" /\ ~ req[r].granted
      /\ Len(built) \in Nat
  <2>1. req[r].pc = "admit"
    BY DEF Admit
  <2>2. req[r] \in Handler /\ Len(built) \in Nat
    BY DEF Inv, AdmissionTypeOK
  <2>3. ~ req[r].granted
    BY <2>1 DEF RateInv, Unlimited
  <2> QED
    BY <2>1, <2>2, <2>3
<1>2. req' = [req EXCEPT ![r] = h] /\ UNCHANGED <<rates, built>>
  BY DEF Admit, limitVars, configVars
<1>3. reason = "" /\ protected =>
         ValidPolicy(effectivePolicy(Config[built[req[r].srv]], <<req[r].key, req[r].route>>))
  BY AdmittedPolicy DEF ConfigOf
<1>4. reason \in Reasons \cup {""}
  BY AdmissionReasonTyped
<1> HIDE DEF reason, protected
<1>5. /\ h.granted = req[r].granted
      /\ h.pc = "rate" =>
            /\ reason = "" /\ protected
            /\ h.srv = req[r].srv /\ h.key = req[r].key /\ h.route = req[r].route
  <2>1. CASE reason # ""
    BY <1>1, <1>4, <2>1, RefuseHandler
  <2>2. CASE reason = "" /\ protected
    BY <1>1, <2>2 DEF Handler
  <2>3. CASE reason = "" /\ ~protected
    BY <1>1, <2>3 DEF Handler
  <2> QED
    BY <2>1, <2>2, <2>3
<1> HIDE DEF h
<1>6. h.pc = "rate" =>
         ValidPolicy(effectivePolicy(Config[built'[h.srv]], <<h.key, h.route>>))
  BY <1>2, <1>3, <1>5
<1>7. ~ h.granted
  BY <1>1, <1>5
<1>8. Len(built') \in Nat /\ Len(built') >= Len(built)
  BY <1>1, <1>2
<1> QED
  BY <1>2, <1>5, <1>6, <1>7, <1>8, RateKept

\* The steps that neither ask the limiter nor are admitted to it.
LEMMA OtherRate ==
    ASSUME Inv, RateInv, NEW r \in Requests,
           \/ \E key \in Clients \cup {NoKey, BadKey}, route \in Routes : Arrive(r, key, route)
           \/ ReuseServer(r) \/ BuildServer(r) \/ RateRefused(r) \/ acquireConcurrency(r)
           \/ ConcurrencyRefused(r) \/ Return(r) \/ Serve(r)
    PROVE  RateInv'
<1> DEFINE Kept(h) ==
        /\ req' = [req EXCEPT ![r] = h]
        /\ h.granted = req[r].granted
        /\ h.granted => /\ h.srv = req[r].srv /\ h.key = req[r].key
                        /\ h.route = req[r].route /\ h.at = req[r].at
        /\ h.pc \in Unlimited => ~ h.granted
        /\ h.pc # "rate"
<1>0. /\ req[r] \in Handler /\ req \in [Requests -> Handler]
      /\ built \in Seq(Revisions) /\ Len(built) \in Nat
      /\ req[r].pc \in Unlimited => ~ req[r].granted
  BY DEF Inv, AdmissionTypeOK, RateInv
<1>1. UNCHANGED rates
  BY DEF Arrive, ReuseServer, BuildServer, RateRefused, acquireConcurrency,
         ConcurrencyRefused, Return, Serve, limitVars
<1>2. /\ Len(built') \in Nat /\ Len(built') >= Len(built)
      /\ \A s \in 1..Len(built) : built'[s] = built[s]
  <2>1. CASE BuildServer(r)
    <3>1. req[r].cfg \in Revisions
      BY <2>1 DEF BuildServer, Inv, HandlersInv
    <3>2. built' = Append(built, req[r].cfg)
      BY <2>1 DEF BuildServer
    <3> QED
      BY <1>0, <3>1, <3>2
  <2>2. CASE ~ BuildServer(r)
    <3>1. built' = built
      BY <2>2 DEF Arrive, ReuseServer, RateRefused, acquireConcurrency, ConcurrencyRefused,
                  Return, Serve, configVars
    <3> QED
      BY <1>0, <3>1
  <2> QED
    BY <2>1, <2>2
<1>3. \E h : Kept(h)
  <2>1. ASSUME NEW key \in Clients \cup {NoKey, BadKey}, NEW route \in Routes,
               Arrive(r, key, route)
        PROVE  \E h : Kept(h)
    <3> DEFINE h == [req[r] EXCEPT !.pc = "server", !.cfg = active, !.key = key, !.route = route]
    <3>1. Kept(h)
      BY <1>0, <2>1 DEF Arrive, Handler, Unlimited
    <3> QED
      BY <3>1
  <2>2. CASE ReuseServer(r)
    <3> DEFINE h == [req[r] EXCEPT !.pc = "admit", !.srv = current]
    <3>1. Kept(h)
      BY <1>0, <2>2 DEF ReuseServer, Handler, Unlimited
    <3> QED
      BY <3>1
  <2>3. CASE BuildServer(r)
    <3> DEFINE h == [req[r] EXCEPT !.pc = "admit", !.srv = Len(built) + 1]
    <3>1. Kept(h)
      BY <1>0, <2>3 DEF BuildServer, Handler, Unlimited
    <3> QED
      BY <3>1
  <2>4. CASE RateRefused(r) \/ ConcurrencyRefused(r)
    <3>1. PICK reason \in {"rate_limit_exceeded", "concurrency_limit_exceeded"} :
             req' = [req EXCEPT ![r] = RefuseInput(req[r], reason)]
      BY <1>0, <2>4 DEF RateRefused, ConcurrencyRefused
    <3>2. reason \in Reasons
      BY DEF Reasons, LimitReasons
    <3> DEFINE h == RefuseInput(req[r], reason)
    <3>3. /\ h.pc = "return" /\ h.granted = req[r].granted /\ h.at = req[r].at
          /\ h.srv = req[r].srv /\ h.key = req[r].key /\ h.route = req[r].route
      BY <1>0, <3>2, RefuseHandler
    <3>4. req' = [req EXCEPT ![r] = h]
      BY <3>1
    <3> HIDE DEF h
    <3> QED
      BY <3>3, <3>4 DEF Unlimited
  <2>5. CASE acquireConcurrency(r)
    <3> DEFINE h == [req[r] EXCEPT !.pc = "body"]
    <3>1. Kept(h)
      BY <1>0, <2>5 DEF acquireConcurrency, Handler, Unlimited
    <3> QED
      BY <3>1
  <2>6. CASE Return(r)
    <3> DEFINE h == [req[r] EXCEPT !.pc = "done"]
    <3>1. Kept(h)
      BY <1>0, <2>6 DEF Return, Handler, Unlimited
    <3> QED
      BY <3>1
  <2>7. CASE Serve(r)
    <3> DEFINE h == [req[r] EXCEPT !.pc = "return", !.answer.status = 200]
    <3>1. Kept(h)
      BY <1>0, <2>7 DEF Serve, Handler, Unlimited
    <3> QED
      BY <3>1
  <2> QED
    BY <2>1, <2>2, <2>3, <2>4, <2>5, <2>6, <2>7
<1>4. PICK h : Kept(h)
  BY <1>3
<1> QED
  BY <1>1, <1>2, <1>4, RateKept

\* allowRate: a request joins the window it falls in, or opens the next one.
LEMMA AllowRate ==
    ASSUME Inv, RateInv, NEW r \in Requests, allowRate(r)
    PROVE  RateInv'
<1>a. /\ req[r] \in Handler /\ req[r].srv \in 1..Len(built)
      /\ req[r].srv \in Servers /\ KeyOf(r) \in Keys
  BY InLimiter DEF allowRate
<1>b. PICK S \in Servers, K \in Keys : S = req[r].srv /\ K = KeyOf(r)
  BY <1>a
<1>0. req[r] \in Handler /\ S \in 1..Len(built) /\ S \in Servers /\ K \in Keys
  BY <1>a, <1>b
<1> DEFINE W == rates[S][K]
           P == LimitOf(S, K)
           t == req[r].at
           over == WindowOver(r)
<1>1. /\ req \in [Requests -> Handler]
      /\ rates \in [Servers -> [Keys -> [start : Nat, count : Nat]]]
      /\ W \in [start : Nat, count : Nat] /\ t \in Nat
  <2>1. /\ req \in [Requests -> Handler]
        /\ rates \in [Servers -> [Keys -> [start : Nat, count : Nat]]]
    BY DEF Inv, AdmissionTypeOK
  <2>2. t \in Nat
    BY <1>0 DEF Handler
  <2>3. W \in [start : Nat, count : Nat]
    BY <1>0, <2>1
  <2> QED
    BY <2>1, <2>2, <2>3
<1>2. P \in Policy /\ ValidPolicy(P) /\ PolicyOf(r) = P
  <2>1. P \in Policy
    BY <1>0, PolicyTyped DEF LimitOf, Inv
  <2>2. PolicyOf(r) = P
    BY <1>b DEF LimitOf, PolicyOf, ConfigOf
  <2>3. req[r].pc = "rate"
    BY DEF allowRate
  <2> QED
    BY <2>1, <2>2, <2>3 DEF RateInv
<1>3. P.requests \in Nat /\ P.requests > 0 /\ P.window \in Nat /\ P.window > 0
  BY <1>2 DEF Policy, ValidPolicy
<1>4. /\ over => W.count = 0 \/ t >= W.start + P.window
      /\ ~ over => W.count # 0 /\ t < W.start + P.window /\ W.count < P.requests
  <2>1. over \/ W.count < P.requests
    BY <1>2, <1>b DEF allowRate, RateWindow
  <2>2. over <=> W.count = 0 \/ t >= W.start + P.window
    BY <1>2, <1>b DEF WindowOver, RateWindow
  <2>3. W.start \in Nat /\ W.count \in Nat
    BY <1>1
  <2> HIDE DEF W, P, t, over
  <2> QED
    BY <1>1, <1>3, <2>1, <2>2, <2>3
<1>5. /\ req' = [req EXCEPT ![r].pc = "reserve", ![r].granted = TRUE]
      /\ rates' = [rates EXCEPT ![S][K] = IF over THEN [start |-> t, count |-> 1]
                                          ELSE [start |-> @.start, count |-> @.count + 1]]
      /\ UNCHANGED built
  BY <1>b DEF allowRate, configVars
<1>6. /\ req'[r].pc = "reserve" /\ req'[r].granted /\ req'[r].at = t
      /\ req'[r].srv = S /\ KeyOf(r)' = K
      /\ \A q \in Requests \ {r} : req'[q] = req[q]
  BY <1>0, <1>1, <1>5, <1>b DEF Handler, KeyOf
<1>7. WindowInv(S, K) /\ ~ req[r].granted
  <2>1. req[r].pc \in Unlimited
    BY DEF allowRate, Unlimited
  <2> QED
    BY <1>0, <2>1 DEF RateInv
<1> HIDE DEF t, over
<1>8. /\ rates'[S][K] = IF over THEN [start |-> t, count |-> 1]
                        ELSE [start |-> W.start, count |-> W.count + 1]
      /\ \A s \in Servers, k \in Keys : s # S \/ k # K => rates'[s][k] = rates[s][k]
  BY <1>0, <1>1, <1>5
<1>9. \A s, k : LimitOf(s, k)' = LimitOf(s, k)
  BY <1>5 DEF LimitOf
<1>10. /\ Granted(S, K)' = Granted(S, K) \cup {r}
       /\ r \notin Granted(S, K)
       /\ \A s, k : s # S \/ k # K => Granted(s, k)' = Granted(s, k)
  BY <1>6, <1>7 DEF Granted, KeyOf
<1>11. /\ \A q \in Granted(S, K) : req'[q].at = req[q].at /\ req[q].at \in Nat
       /\ \A s, k : \A q \in Granted(s, k) : q \in Requests /\ req'[q].at = req[q].at
  BY <1>1, <1>6, <1>7 DEF Granted, Handler
<1>12. WindowInv(S, K)'
  <2>1. IsFiniteSet(InWindow(S, K)) /\ Cardinality(InWindow(S, K)) \in Nat
    BY RequestsFinite, FS_Subset, FS_CardinalityType DEF InWindow, Granted
  <2>2. W.start \in Nat /\ W.count \in Nat
    BY <1>1
  <2>3. CASE over
    <3>1. rates'[S][K].start = t /\ rates'[S][K].count = 1
      BY <1>8, <2>3
    <3>2. \A q \in Granted(S, K) : req[q].at < t
      <4>1. CASE W.count = 0
        BY <1>7, <4>1 DEF WindowInv
      <4>2. CASE t >= W.start + P.window
        <5>1. \A q \in Granted(S, K) : req[q].at < W.start + P.window
          BY <1>7 DEF WindowInv
        <5> HIDE DEF W, P
        <5> QED
          BY <1>1, <1>3, <1>11, <2>2, <4>2, <5>1
      <4> QED
        BY <1>4, <2>3, <4>1, <4>2
    <3>3. InWindow(S, K)' = {r}
      BY <1>1, <1>6, <1>10, <1>11, <3>1, <3>2 DEF InWindow
    <3>4. Cardinality(InWindow(S, K)') = 1
      BY <3>3, FS_Singleton
    <3>5. \A q \in Granted(S, K)' : req'[q].at < t + P.window
      <4> HIDE DEF P
      <4> QED
        BY <1>1, <1>3, <1>6, <1>10, <1>11, <3>2
    <3>6. S <= Len(built') /\ 1 <= P.requests
      BY <1>0, <1>3, <1>5
    <3> QED
      BY <1>9, <3>1, <3>4, <3>5, <3>6 DEF WindowInv
  <2>4. CASE ~ over
    <3>1. rates'[S][K].start = W.start /\ rates'[S][K].count = W.count + 1
      BY <1>8, <2>4
    <3>2. InWindow(S, K)' \subseteq InWindow(S, K) \cup {r}
      BY <1>10, <1>11, <3>1 DEF InWindow
    <3>3. Cardinality(InWindow(S, K)') <= W.count + 1
      <4>1. /\ IsFiniteSet(InWindow(S, K) \cup {r})
            /\ Cardinality(InWindow(S, K) \cup {r}) <= Cardinality(InWindow(S, K)) + 1
        <5>1. r \notin InWindow(S, K)
          BY <1>10 DEF InWindow
        <5> DEFINE Z == InWindow(S, K)
        <5> HIDE DEF Z
        <5>2. IsFiniteSet(Z) /\ Cardinality(Z) \in Nat /\ r \notin Z
          BY <2>1, <5>1 DEF Z
        <5>3. IsFiniteSet(Z \cup {r}) /\ Cardinality(Z \cup {r}) = Cardinality(Z) + 1
          BY <5>2, FS_AddElement
        <5> QED
          BY <5>2, <5>3 DEF Z
      <4>2. /\ Cardinality(InWindow(S, K)') <= Cardinality(InWindow(S, K) \cup {r})
            /\ Cardinality(InWindow(S, K)') \in Nat
            /\ Cardinality(InWindow(S, K) \cup {r}) \in Nat
        BY <3>2, <4>1, FS_Subset, FS_CardinalityType
      <4>3. Cardinality(InWindow(S, K)) <= W.count
        BY <1>7 DEF WindowInv
      <4> HIDE DEF W
      <4> QED
        BY <2>1, <2>2, <4>1, <4>2, <4>3
    <3>4. \A q \in Granted(S, K)' : req'[q].at < W.start + P.window
      <4>1. \A q \in Granted(S, K) : req[q].at < W.start + P.window
        BY <1>7 DEF WindowInv
      <4> QED
        BY <1>4, <1>6, <1>10, <1>11, <2>4, <4>1
    <3>5. S <= Len(built') /\ W.count + 1 <= P.requests /\ W.count + 1 # 0
      <4> HIDE DEF W, P
      <4> QED
        BY <1>0, <1>3, <1>4, <1>5, <2>2, <2>4
    <3> QED
      BY <1>9, <3>1, <3>3, <3>4, <3>5 DEF WindowInv
  <2> QED
    BY <2>3, <2>4
<1>13. ASSUME NEW s \in Servers, NEW k \in Keys, s # S \/ k # K
       PROVE  WindowInv(s, k)'
  <2>1. WindowInv(s, k) /\ rates'[s][k] = rates[s][k] /\ Granted(s, k)' = Granted(s, k)
    BY <1>8, <1>10, <1>13 DEF RateInv
  <2>2. InWindow(s, k)' = InWindow(s, k)
    BY <1>11, <2>1 DEF InWindow
  <2>3. \A q \in Granted(s, k) : req'[q].at < rates[s][k].start + LimitOf(s, k)'.window
    BY <1>9, <1>11, <2>1 DEF WindowInv
  <2>4. rates[s][k].count # 0 =>
           s <= Len(built') /\ rates[s][k].count <= LimitOf(s, k)'.requests
    BY <1>5, <1>9, <2>1 DEF WindowInv
  <2> QED
    BY <2>1, <2>2, <2>3, <2>4 DEF WindowInv
<1>14. \A q \in Requests : /\ req'[q].pc \in Unlimited => ~ req'[q].granted
                           /\ req'[q].pc = "rate" => ValidPolicy(PolicyOf(q))'
  <2>1. \A q \in Requests \ {r} : PolicyOf(q)' = PolicyOf(q)
    BY <1>5, <1>6 DEF PolicyOf, ConfigOf, KeyOf
  <2> QED
    BY <1>6, <2>1 DEF RateInv, Unlimited, ValidPolicy
<1> QED
  BY <1>12, <1>13, <1>14 DEF RateInv

\* Every step keeps the windows within their budgets.
LEMMA NextRate == Inv /\ RateInv /\ [AdmissionNext]_admissionVars => RateInv'
<1> SUFFICES ASSUME Inv, RateInv, [AdmissionNext]_admissionVars PROVE RateInv'
  OBVIOUS
<1>1. CASE Environment \/ UNCHANGED admissionVars
  <2>1. UNCHANGED <<built, rates, req>>
    BY <1>1 DEF Environment, Tick, AuditChanges, Reload, admissionVars, configVars, limitVars
  <2>2. \A s, k : WindowInv(s, k)' = WindowInv(s, k)
    BY <2>1 DEF WindowInv, InWindow, Granted, LimitOf, KeyOf
  <2>3. \A q : PolicyOf(q)' = PolicyOf(q)
    BY <2>1 DEF PolicyOf, ConfigOf, KeyOf
  <2> QED
    BY <2>1, <2>2, <2>3 DEF RateInv, ValidPolicy
<1>2. ASSUME NEW r \in Requests, AdmissionStep(r) \/ Serve(r) PROVE RateInv'
  BY <1>2, AdmitRate, OtherRate, AllowRate DEF AdmissionStep
<1> QED
  BY <1>1, <1>2 DEF AdmissionNext

\* The invariants bound the admissions of the current window.
LEMMA InvWithinWindows == Inv /\ RateInv => RateWithinWindow
<1> SUFFICES ASSUME Inv, RateInv, NEW s \in 1..Len(built), NEW k \in Keys,
                    InWindow(s, k) # {}
             PROVE  Cardinality(InWindow(s, k)) <= LimitOf(s, k).requests
  BY DEF RateWithinWindow, InWindow, Granted, LimitOf
<1>1. s \in Servers
  BY Bounds DEF Inv, AdmissionTypeOK, Servers
<1>2. WindowInv(s, k) /\ Granted(s, k) # {}
  BY <1>1 DEF RateInv, InWindow
<1>3. rates[s][k].count \in Nat /\ LimitOf(s, k).requests \in Nat
  BY <1>1, PolicyTyped DEF Inv, AdmissionTypeOK, LimitOf, Policy
<1>4. Cardinality(InWindow(s, k)) \in Nat
  BY RequestsFinite, FS_Subset, FS_CardinalityType DEF InWindow, Granted
<1> QED
  BY <1>2, <1>3, <1>4 DEF WindowInv

\* allowRate (limits.go:103): no window of a server admits more than its
\* budget, although the handlers read the clock before the limiter's mutex and
\* reach it in any order, and servers are replaced under them.
THEOREM WindowsBounded == AdmissionSpec => []RateWithinWindow
BY InvWithinWindows, InitInv, NextInv, InitRate, NextRate, PTL DEF AdmissionSpec

-----------------------------------------------------------------------------
(* The exchange.                                                           *)

\* Where a handler is: before the input decision, between it and the upstream
\* call, with the upstream, and after its answer.
Open == {"idle", "server", "admit", "rate", "reserve", "body", "infra", "decode", "input"}
Permitted == {"project", "forward"}
Ended == {"return", "done"}

\* Each of the two policy decisions starts at most one background verdict.
ShadowBound(pc) == IF pc \in Open THEN 0 ELSE IF pc \in Ended THEN 2 ELSE 1

\* The handler's last event tells what it answered.
Answered(h, body) ==
    \E i \in DOMAIN h.events :
        /\ IsLastLive(h.events, i)
        /\ h.answer.code # "" => h.events[i].error = h.answer.code
        /\ h.events[i].status = RecordedStatus(h.answer, body)

\* Some event permits the body to cross.
Recorded(events, direction, body) ==
    \E i \in DOMAIN events : Permits(events[i], direction, body)

\* The decision on the input, which is not to block, has been recorded.
InputPermitted(h) ==
    \E i \in DOMAIN h.events :
        /\ h.events[i].direction = "input"
        /\ h.events[i].action = h.decision.action
        /\ h.events[i].action # "block"

\* One handler with the bodies that crossed for it.
Sound(h, up, down) ==
    /\ h.shadows <= ShadowBound(h.pc)
    /\ h.pc = "stream" => h.status # 0
    /\ h.pc \in Ended => Answered(h, down)
    /\ h.pc \notin Ended => h.answer = Unanswered /\ down = "nothing"
    /\ h.pc \in Open \cup Permitted => up = "nothing"
    /\ h.pc \in Permitted => InputPermitted(h)
    /\ up # "nothing" => Recorded(h.events, "input", up)
    /\ down \in {"raw", "redacted"} => Recorded(h.events, "output", down)

\* What the limiter knows of a request is what it arrived with.
SameRequest(x, h) ==
    /\ x.srv = h.srv /\ x.key = h.key /\ x.route = h.route /\ x.cfg = h.cfg
    /\ x.granted = h.granted /\ x.at = h.at

ExchangeInv ==
    /\ Inv /\ RateInv
    /\ upstreamBody \in [Requests -> Passed] /\ clientBody \in [Requests -> Passed]
    /\ \A r \in Requests : Sound(req[r], upstreamBody[r], clientBody[r])

-----------------------------------------------------------------------------
(* Events.                                                                 *)

\* An event at the end of the record: the last live one if it is live, and what
\* was recorded stays.
LEMMA Appended ==
    ASSUME NEW s \in Seq(TrafficEvent), NEW e \in TrafficEvent
    PROVE  /\ Append(s, e) \in Seq(TrafficEvent)
           /\ Len(s) + 1 \in DOMAIN Append(s, e) /\ Append(s, e)[Len(s) + 1] = e
           /\ \A i \in DOMAIN s : i \in DOMAIN Append(s, e) /\ Append(s, e)[i] = s[i]
           /\ Live(e) => IsLastLive(Append(s, e), Len(s) + 1)
           /\ ~ Live(e) => \A i \in DOMAIN s : IsLastLive(s, i) => IsLastLive(Append(s, e), i)
<1>1. /\ Append(s, e) \in Seq(TrafficEvent) /\ Len(s) \in Nat
      /\ DOMAIN s = 1..Len(s) /\ DOMAIN Append(s, e) = 1..(Len(s) + 1)
      /\ Append(s, e)[Len(s) + 1] = e /\ \A i \in 1..Len(s) : Append(s, e)[i] = s[i]
  OBVIOUS
<1> DEFINE t == Append(s, e)
<1>2. /\ t \in Seq(TrafficEvent) /\ DOMAIN t = 1..(Len(s) + 1)
      /\ t[Len(s) + 1] = e /\ \A i \in 1..Len(s) : t[i] = s[i]
  BY <1>1
<1> HIDE DEF t
<1>3. Live(e) => IsLastLive(t, Len(s) + 1)
  BY <1>1, <1>2 DEF IsLastLive
<1>4. ~ Live(e) => \A i \in DOMAIN s : IsLastLive(s, i) => IsLastLive(t, i)
  BY <1>1, <1>2 DEF IsLastLive
<1> QED
  BY <1>1, <1>2, <1>3, <1>4 DEF t

\* A recorded permission stays recorded.
LEMMA StaysRecorded ==
    ASSUME NEW s \in Seq(TrafficEvent), NEW e \in TrafficEvent, NEW direction, NEW body,
           Recorded(s, direction, body)
    PROVE  Recorded(Append(s, e), direction, body)
BY Appended DEF Recorded

\* The reasons that are the termination of their event.
SameStatus == Reasons \ (StreamReasons \cup
                         {"redaction_failed", "blocked_input", "blocked_output"})

\* Both tables give a reason the same status.
LEMMA StatusesAgree ==
    ASSUME NEW reason \in SameStatus, NEW action
    PROVE  TerminationStatus(reason, action) = ErrorStatus(reason)
<1>1. CASE reason \in {"missing_client_key", "invalid_client_key"}
  BY <1>1 DEF TerminationStatus, ErrorStatus
<1>2. CASE reason \in {"disabled_client_key", "revoked_client_key", "missing_limit_policy"}
  BY <1>2 DEF TerminationStatus, ErrorStatus
<1>3. CASE reason \in {"rate_limit_exceeded", "concurrency_limit_exceeded"}
  BY <1>3 DEF TerminationStatus, ErrorStatus
<1>4. CASE reason \in {"invalid_json", "invalid_request", "read_request_error"}
  BY <1>4 DEF TerminationStatus, ErrorStatus
<1>5. CASE reason \in {"request_too_large", "audit_sink_unhealthy"}
  BY <1>5 DEF TerminationStatus, ErrorStatus
<1>6. CASE reason \in {"unsupported_path", "missing_model_mapping"}
  BY <1>6 DEF TerminationStatus, ErrorStatus
<1>7. CASE reason \in {"missing_provider", "upstream_error", "upstream_response_too_large"}
  BY <1>7 DEF TerminationStatus, ErrorStatus
<1> QED
  BY <1>1, <1>2, <1>3, <1>4, <1>5, <1>6, <1>7
  DEF SameStatus, Reasons, AuthReasons, LimitReasons, StreamReasons

\* The ways a handler refuses, and what the event of each has.
Refuses(direction, decision, termination, reason) ==
    \/ /\ decision = BlockedDecision /\ termination = reason
       /\ reason \in SameStatus
    \/ /\ decision \in Decision /\ decision.action = "block" /\ termination = ""
       /\ reason = IF direction = "input" THEN "blocked_input" ELSE "blocked_output"
    \/ /\ decision \in Decision /\ decision.action = "redact"
       /\ termination = "redaction_failed" /\ reason = "redaction_failed"

\* The tables of client and event agree on a refusal (lifecycle_errors.go,
\* request_admission.go, event_emission.go, traffic_event.go).
LEMMA RefusalRecorded ==
    ASSUME NEW direction \in {"input", "output"}, NEW decision, NEW termination, NEW reason,
           Refuses(direction, decision, termination, reason)
    PROVE  LET e == Event(0, direction, decision, termination)
               a == [status |-> ErrorStatus(reason), code |-> ErrorCode(reason)]
           IN  /\ e \in TrafficEvent /\ Live(e) /\ a \in Answer
               /\ e.error = a.code /\ e.status = RecordedStatus(a, "nothing")
<1> DEFINE e == Event(0, direction, decision, termination)
           a == [status |-> ErrorStatus(reason), code |-> ErrorCode(reason)]
<1>1. decision \in Decision /\ decision.action \in PolicyActions /\ reason \in Reasons
  <2>1. BlockedDecision \in Decision
    BY DEF BlockedDecision, Decision, PolicyActions
  <2>2. decision \in Decision /\ reason \in Reasons
    BY <2>1 DEF Refuses, SameStatus, Reasons
  <2> QED
    BY <2>2 DEF Decision
<1>2. /\ e.direction = direction /\ e.action = decision.action
      /\ e.status = TerminationStatus(termination, decision.action)
      /\ e.error = trafficErrorType(direction, decision.action, termination, decision.failed)
      /\ e = [direction |-> direction, status |-> e.status, error |-> e.error,
              action |-> decision.action]
  BY DEF Event, trafficEventGatewayStatus
<1>3. a.status = ErrorStatus(reason) /\ a.code = ErrorCode(reason)
  OBVIOUS
<1>4. ErrorStatus(reason) \in Nat /\ ErrorCode(reason) \in {"missing_route"} \cup Reasons
  BY <1>1 DEF ErrorStatus, ErrorCode, Reasons
<1>5. e.error = ErrorCode(reason)
  <2>1. CASE termination = reason /\ reason \in Reasons
    <3>1. reason \notin {"", "async_shadow_verdict"}
      BY <2>1 DEF Reasons, AuthReasons, LimitReasons, StreamReasons
    <3> QED
      BY <1>2, <2>1, <3>1 DEF trafficErrorType, ErrorCode
  <2>2. CASE decision.action = "block" /\ termination = ""
    <3>1. reason = IF direction = "input" THEN "blocked_input" ELSE "blocked_output"
      BY <2>2 DEF Refuses, SameStatus, Reasons, AuthReasons, LimitReasons, StreamReasons
    <3>2. trafficBlockReason(direction, "block", "") = reason
      BY <3>1 DEF trafficBlockReason, AuthReasons, LimitReasons
    <3> QED
      BY <1>2, <2>2, <3>1, <3>2 DEF trafficErrorType, ErrorCode
  <2> QED
    BY <1>1, <2>1, <2>2 DEF Refuses, SameStatus
<1>6. e.status = RecordedStatus(a, "nothing") /\ e.status \in Nat
  <2>1. CASE reason = "redaction_failed"
    <3>1. termination = "redaction_failed" /\ decision.action = "redact"
      BY <2>1 DEF Refuses, SameStatus
    <3>2. TerminationStatus("redaction_failed", "redact") = 200
      BY DEF TerminationStatus
    <3>3. RecordedStatus(a, "nothing") = 200
      BY <2>1 DEF RecordedStatus, ErrorCode
    <3> QED
      BY <1>2, <3>1, <3>2, <3>3
  <2>2. CASE reason # "redaction_failed"
    <3>1. RecordedStatus(a, "nothing") = ErrorStatus(reason)
      BY <2>2 DEF RecordedStatus, ErrorCode
    <3>2. TerminationStatus(termination, decision.action) = ErrorStatus(reason)
      <4>1. CASE termination = reason /\ reason \in SameStatus
        BY <4>1, StatusesAgree
      <4>2. CASE decision.action = "block" /\ termination = ""
        <5>1. reason \in {"blocked_input", "blocked_output"}
          BY <4>2 DEF Refuses, SameStatus, Reasons, AuthReasons, LimitReasons, StreamReasons
        <5>2. ErrorStatus(reason) = 403
          BY <5>1 DEF ErrorStatus
        <5>3. TerminationStatus("", "block") = 403
          BY DEF TerminationStatus
        <5> QED
          BY <4>2, <5>2, <5>3
      <4> QED
        BY <2>2, <4>1, <4>2 DEF Refuses, SameStatus
    <3> QED
      BY <1>2, <1>4, <3>1, <3>2
  <2> QED
    BY <2>1, <2>2
<1>7. e \in TrafficEvent /\ Live(e)
  BY <1>1, <1>2, <1>4, <1>5, <1>6 DEF TrafficEvent, Live
<1>8. a \in Answer
  BY <1>4 DEF Answer
<1> QED
  BY <1>3, <1>5, <1>6, <1>7, <1>8 DEF e, a

-----------------------------------------------------------------------------
(* One handler.                                                            *)

\* A handler that refuses has answered, and its event tells so.
LEMMA RefuseSound ==
    ASSUME NEW h \in Handler, NEW up, NEW direction \in {"input", "output"}, NEW decision,
           NEW termination, NEW reason, Refuses(direction, decision, termination, reason),
           h.shadows <= 2, up # "nothing" => Recorded(h.events, "input", up)
    PROVE  LET x == Refuse(h, direction, decision, termination, reason)
           IN  /\ x \in Handler /\ x.pc = "return" /\ Sound(x, up, "nothing")
               /\ SameRequest(x, h)
<1> DEFINE e == Event(0, direction, decision, termination)
           a == [status |-> ErrorStatus(reason), code |-> ErrorCode(reason)]
           s == Append(h.events, e)
           x == Refuse(h, direction, decision, termination, reason)
<1>1. /\ e \in TrafficEvent /\ Live(e) /\ a \in Answer
      /\ e.error = a.code /\ e.status = RecordedStatus(a, "nothing")
  BY RefusalRecorded
<1>2. x = [h EXCEPT !.pc = "return", !.answer = a, !.events = s]
  BY DEF Refuse
<1> HIDE DEF e, a
<1>3. h.events \in Seq(TrafficEvent)
  BY DEF Handler
<1>4. /\ s \in Seq(TrafficEvent) /\ Len(h.events) + 1 \in DOMAIN s
      /\ s[Len(h.events) + 1] = e /\ IsLastLive(s, Len(h.events) + 1)
  BY <1>1, <1>3, Appended
<1>5. up # "nothing" => Recorded(s, "input", up)
  BY <1>1, <1>3, StaysRecorded
<1> HIDE DEF s, x
<1>6. /\ x \in Handler /\ x.pc = "return" /\ x.answer = a /\ x.events = s
      /\ x.shadows = h.shadows /\ SameRequest(x, h)
  BY <1>1, <1>2, <1>4 DEF Handler, SameRequest
<1>7. Answered(x, "nothing")
  BY <1>1, <1>4, <1>6 DEF Answered
<1>8. Sound(x, up, "nothing")
  BY <1>5, <1>6, <1>7 DEF Sound, ShadowBound, Open, Permitted, Ended
<1> QED
  BY <1>6, <1>8 DEF x

\* Moving on without an event, an answer or a body keeps a handler sound, as
\* long as it enters no state that asks for more.
LEMMA MoveSound ==
    ASSUME NEW h, NEW x, NEW up, NEW down, Sound(h, up, down),
           x.events = h.events, x.answer = h.answer, x.shadows = h.shadows,
           x.decision = h.decision,
           \/ h.pc \in Open /\ x.pc \in Open
           \/ h.pc \in Permitted /\ x.pc \in Permitted
           \/ h.pc \in Ended /\ x.pc \in Ended
    PROVE  Sound(x, up, down)
<1>1. Answered(h, down) => Answered(x, down)
  BY DEF Answered
<1>2. InputPermitted(h) => InputPermitted(x)
  BY DEF InputPermitted
<1> QED
  BY <1>1, <1>2 DEF Sound, ShadowBound, Open, Permitted, Ended

-----------------------------------------------------------------------------
(* Steps.                                                                  *)

\* A step of one handler past admission that leaves it sound.
LEMMA OneHandler ==
    ASSUME ExchangeInv, NEW r \in Requests, NEW h \in Handler, NEW up \in Passed,
           NEW down \in Passed, req' = [req EXCEPT ![r] = h],
           upstreamBody' = [upstreamBody EXCEPT ![r] = up],
           clientBody' = [clientBody EXCEPT ![r] = down], UNCHANGED shared,
           req[r].pc \notin {"idle", "server"},
           h.pc = req[r].pc \/ h.pc \notin Unreserved \cup {"done"},
           SameRequest(h, req[r]), Sound(h, up, down)
    PROVE  ExchangeInv'
<1>1. /\ Inv /\ req \in [Requests -> Handler]
      /\ upstreamBody \in [Requests -> Passed] /\ clientBody \in [Requests -> Passed]
  BY DEF ExchangeInv, Inv, AdmissionTypeOK
<1>2. UNCHANGED <<configVars, limitVars, audit, now>>
  BY DEF shared
<1>3. Inv'
  <2>1. /\ h.srv <= Len(built) /\ h.srv # 0 /\ h.pc \notin {"idle", "server"}
        /\ h.route \in Routes /\ h.cfg \in Revisions
        /\ h.pc \in {"rate", "reserve"} => h.key \in Clients
        /\ h.pc \in Unreserved \cup {"done"} => holds[r] = {}
    BY <1>1 DEF Inv, AdmissionTypeOK, HandlersInv, Unreserved, SameRequest
  <2>2. rates' \in [Servers -> [Keys -> [start : Nat, count : Nat]]]
    BY <1>1, <1>2 DEF Inv, AdmissionTypeOK, limitVars
  <2>3. UNCHANGED <<configVars, concurrency, holds>> /\ audit' = audit /\ now' = now
    BY <1>2 DEF limitVars
  <2> QED
    BY <1>1, <2>1, <2>2, <2>3, LocalStep DEF SameRequest
<1>4. /\ upstreamBody' \in [Requests -> Passed] /\ clientBody' \in [Requests -> Passed]
      /\ req'[r] = h /\ upstreamBody'[r] = up /\ clientBody'[r] = down
      /\ \A q \in Requests \ {r} : /\ req'[q] = req[q]
                                  /\ upstreamBody'[q] = upstreamBody[q]
                                  /\ clientBody'[q] = clientBody[q]
  BY <1>1
<1>5. \A q \in Requests : Sound(req'[q], upstreamBody'[q], clientBody'[q])
  BY <1>4 DEF ExchangeInv
<1>6. RateInv'
  <2>1. UNCHANGED <<rates, built>> /\ Len(built) \in Nat
    BY <1>1, <1>2 DEF configVars, limitVars, Inv, AdmissionTypeOK
  <2>2. /\ h.pc \in Unlimited => ~ h.granted
        /\ h.pc = "rate" => ValidPolicy(PolicyOf(r)) /\ req[r].pc = "rate"
    <3>1. /\ req[r].pc \in Unlimited => ~ req[r].granted
          /\ req[r].pc = "rate" => ValidPolicy(PolicyOf(r))
      BY DEF ExchangeInv, RateInv
    <3> QED
      BY <3>1 DEF Unlimited, Unreserved, SameRequest
  <2>3. h.pc = "rate" =>
           ValidPolicy(effectivePolicy(Config[built'[h.srv]], <<h.key, h.route>>))
    BY <2>1, <2>2 DEF SameRequest, PolicyOf, ConfigOf, KeyOf
  <2>4. /\ Len(built') \in Nat /\ Len(built') >= Len(built)
        /\ \A i \in 1..Len(built) : built'[i] = built[i]
    BY <2>1
  <2>5. /\ h.granted = req[r].granted
        /\ h.granted => /\ h.srv = req[r].srv /\ h.key = req[r].key
                        /\ h.route = req[r].route /\ h.at = req[r].at
    BY DEF SameRequest
  <2>6. Inv /\ RateInv /\ UNCHANGED rates
    BY <2>1 DEF ExchangeInv
  <2> QED
    BY <2>2, <2>3, <2>4, <2>5, <2>6, RateKept
<1> QED
  BY <1>3, <1>4, <1>5, <1>6 DEF ExchangeInv

\* What is known of a handler past admission, at any of its steps.
LEMMA HandlerFacts ==
    ASSUME ExchangeInv, NEW r \in Requests
    PROVE  /\ Inv /\ req \in [Requests -> Handler] /\ req[r] \in Handler
           /\ req[r].events \in Seq(TrafficEvent) /\ req[r].shadows \in Nat
           /\ req[r].status \in Nat /\ req[r].decision \in Decision
           /\ req[r].pc \in Open \cup Permitted \cup {"response", "stream"} \cup Ended
           /\ upstreamBody[r] \in Passed /\ clientBody[r] \in Passed
           /\ Sound(req[r], upstreamBody[r], clientBody[r])
           /\ upstreamBody = [upstreamBody EXCEPT ![r] = upstreamBody[r]]
           /\ clientBody = [clientBody EXCEPT ![r] = clientBody[r]]
<1>1. /\ Inv /\ req \in [Requests -> Handler] /\ req[r] \in Handler
      /\ upstreamBody \in [Requests -> Passed] /\ clientBody \in [Requests -> Passed]
      /\ Sound(req[r], upstreamBody[r], clientBody[r])
  BY DEF ExchangeInv, Inv, AdmissionTypeOK
<1>2. /\ req[r].events \in Seq(TrafficEvent) /\ req[r].shadows \in Nat
      /\ req[r].status \in Nat /\ req[r].decision \in Decision
      /\ req[r].pc \in Open \cup Permitted \cup {"response", "stream"} \cup Ended
  BY <1>1 DEF Handler, Open, Permitted, Ended
<1> QED
  BY <1>1, <1>2

\* The handler ends with an error response.
LEMMA RefuseStep ==
    ASSUME ExchangeInv, NEW r \in Requests, NEW direction \in {"input", "output"},
           NEW decision, NEW termination, NEW reason,
           Refuses(direction, decision, termination, reason),
           NEW h \in Handler, NEW up \in Passed,
           req[r].pc \notin Unreserved \cup Ended,
           SameRequest(h, req[r]), h.shadows <= 2,
           up # "nothing" => Recorded(h.events, "input", up),
           req' = [req EXCEPT ![r] = Refuse(h, direction, decision, termination, reason)],
           upstreamBody' = [upstreamBody EXCEPT ![r] = up],
           UNCHANGED <<shared, clientBody>>
    PROVE  ExchangeInv'
<1> DEFINE x == Refuse(h, direction, decision, termination, reason)
<1>1. /\ x \in Handler /\ x.pc = "return" /\ Sound(x, up, "nothing")
      /\ SameRequest(x, req[r])
  BY RefuseSound DEF SameRequest
<1>2. clientBody' = [clientBody EXCEPT ![r] = "nothing"]
  BY HandlerFacts DEF Sound
<1>3. "nothing" \in Passed
  BY DEF Passed
<1> HIDE DEF x
<1>4. req' = [req EXCEPT ![r] = x]
  BY DEF x
<1> QED
  BY <1>1, <1>2, <1>3, <1>4, OneHandler DEF Unreserved, Ended

\* EndInput and EndOutput.
LEMMA EndStep ==
    ASSUME ExchangeInv, NEW r \in Requests, NEW reason \in SameStatus,
           req[r].pc \notin Unreserved \cup Ended,
           EndInput(r, reason) \/ EndOutput(r, reason)
    PROVE  ExchangeInv'
<1>1. PICK direction \in {"input", "output"} :
          /\ req' = [req EXCEPT ![r] = Refuse(req[r], direction, BlockedDecision, reason, reason)]
          /\ UNCHANGED <<shared, bodies>>
  BY HandlerFacts DEF EndInput, EndOutput, End
<1>2. Refuses(direction, BlockedDecision, reason, reason) /\ SameRequest(req[r], req[r])
  BY DEF Refuses, SameRequest
<1>3. /\ req[r] \in Handler /\ upstreamBody[r] \in Passed /\ req[r].shadows <= 2
      /\ upstreamBody[r] # "nothing" => Recorded(req[r].events, "input", upstreamBody[r])
      /\ upstreamBody = [upstreamBody EXCEPT ![r] = upstreamBody[r]]
  BY HandlerFacts DEF Sound, ShadowBound
<1>4. upstreamBody' = [upstreamBody EXCEPT ![r] = upstreamBody[r]] /\ clientBody' = clientBody
  BY <1>1, <1>3 DEF bodies
<1> QED
  BY <1>1, <1>2, <1>3, <1>4, RefuseStep

\* The handler moves on without event, answer or body.
LEMMA MoveStep ==
    ASSUME ExchangeInv, NEW r \in Requests, NEW pc,
           \/ req[r].pc \in Open \ Unreserved /\ pc \in Open \ Unreserved
           \/ req[r].pc \in Permitted /\ pc \in Permitted,
           Goto(r, pc), UNCHANGED <<shared, bodies>>
    PROVE  ExchangeInv'
<1> DEFINE x == [req[r] EXCEPT !.pc = pc]
<1>1. req' = [req EXCEPT ![r] = x]
  BY HandlerFacts DEF Goto
<1>2. /\ x \in Handler /\ x.pc = pc /\ x.events = req[r].events
      /\ x.answer = req[r].answer /\ x.shadows = req[r].shadows
      /\ x.decision = req[r].decision /\ SameRequest(x, req[r])
  BY HandlerFacts DEF Handler, Open, Permitted, Unreserved, SameRequest
<1>3. /\ upstreamBody' = [upstreamBody EXCEPT ![r] = upstreamBody[r]]
      /\ clientBody' = [clientBody EXCEPT ![r] = clientBody[r]]
      /\ UNCHANGED shared /\ upstreamBody[r] \in Passed /\ clientBody[r] \in Passed
      /\ Sound(req[r], upstreamBody[r], clientBody[r])
  BY HandlerFacts DEF bodies
<1> HIDE DEF x
<1>4. Sound(x, upstreamBody[r], clientBody[r])
  BY <1>2, <1>3, MoveSound
<1>5. req[r].pc \notin {"idle", "server"} /\ x.pc \notin Unreserved \cup {"done"}
  BY <1>2 DEF Unreserved, Open, Permitted
<1> QED
  BY <1>1, <1>2, <1>3, <1>4, <1>5, OneHandler

\* Reading, infrastructure, decoding and projection end the exchange or move on.
LEMMA PlanStep ==
    ASSUME ExchangeInv, NEW r \in Requests,
           \/ readOpenAIRequestBody(r) \/ PlanInfrastructure(r) \/ PlanDecodedRequest(r)
           \/ projectOpenAIUpstreamRequest(r)
    PROVE  ExchangeInv'
<1>1. /\ {"read_request_error", "request_too_large", "missing_provider", "invalid_json",
          "audit_sink_unhealthy", "missing_model_mapping", "invalid_request"} \subseteq SameStatus
      /\ {"body", "infra", "decode", "input"} \subseteq Open \ Unreserved
      /\ \A pc \in {"body", "infra", "decode", "project"} : pc \notin Unreserved \cup Ended
      /\ {"project", "forward"} \subseteq Permitted
  BY DEF SameStatus, Reasons, StreamReasons, AuthReasons, LimitReasons, Open, Unreserved,
         Ended, Permitted
<1>2. ASSUME readOpenAIRequestBody(r) PROVE ExchangeInv'
  <2>1. ASSUME NEW pc \in {"infra", "decode"}, Goto(r, pc), UNCHANGED <<shared, bodies>>
        PROVE  ExchangeInv'
    BY <1>1, <1>2, <2>1, MoveStep DEF readOpenAIRequestBody
  <2>2. ASSUME NEW reason \in {"read_request_error", "request_too_large"}, EndInput(r, reason)
        PROVE  ExchangeInv'
    BY <1>1, <1>2, <2>2, EndStep DEF readOpenAIRequestBody
  <2> QED
    BY <1>2, <2>1, <2>2 DEF readOpenAIRequestBody
<1>3. ASSUME PlanInfrastructure(r) PROVE ExchangeInv'
  <2>1. ASSUME NEW pc \in {"body", "decode"}, Goto(r, pc), UNCHANGED <<shared, bodies>>
        PROVE  ExchangeInv'
    BY <1>1, <1>3, <2>1, MoveStep DEF PlanInfrastructure
  <2>2. ASSUME NEW reason \in {"missing_provider", "audit_sink_unhealthy"}, EndInput(r, reason)
        PROVE  ExchangeInv'
    BY <1>1, <1>3, <2>2, EndStep DEF PlanInfrastructure
  <2>3. \/ \E reason \in {"missing_provider", "audit_sink_unhealthy"} : EndInput(r, reason)
        \/ \E pc \in {"body", "decode"} : Goto(r, pc) /\ UNCHANGED <<shared, bodies>>
    BY <1>3 DEF PlanInfrastructure
  <2> QED
    BY <2>1, <2>2, <2>3
<1>4. ASSUME PlanDecodedRequest(r) PROVE ExchangeInv'
  <2>1. ASSUME Goto(r, "input"), UNCHANGED <<shared, bodies>> PROVE ExchangeInv'
    BY <1>1, <1>4, <2>1, MoveStep DEF PlanDecodedRequest
  <2>2. ASSUME NEW reason \in {"invalid_json", "missing_model_mapping"}, EndInput(r, reason)
        PROVE  ExchangeInv'
    BY <1>1, <1>4, <2>2, EndStep DEF PlanDecodedRequest
  <2> QED
    BY <1>4, <2>1, <2>2 DEF PlanDecodedRequest
<1>5. ASSUME projectOpenAIUpstreamRequest(r) PROVE ExchangeInv'
  <2>1. ASSUME Goto(r, "forward"), UNCHANGED <<shared, bodies>> PROVE ExchangeInv'
    BY <1>1, <1>5, <2>1, MoveStep DEF projectOpenAIUpstreamRequest
  <2>2. ASSUME EndInput(r, "invalid_request") PROVE ExchangeInv'
    BY <1>1, <1>5, <2>2, EndStep DEF projectOpenAIUpstreamRequest
  <2> QED
    BY <1>5, <2>1, <2>2 DEF projectOpenAIUpstreamRequest
<1> QED
  BY <1>2, <1>3, <1>4, <1>5

\* A decision that does not block is recorded with status 200.
LEMMA PassingRecorded ==
    ASSUME NEW direction \in {"input", "output"}, NEW d \in Decision, d.action # "block"
    PROVE  LET e == Event(0, direction, d, "")
           IN  /\ e \in TrafficEvent /\ Live(e) /\ e.direction = direction
               /\ e.action = d.action /\ e.status = 200
<1> DEFINE e == Event(0, direction, d, "")
<1>1. d.action \in PolicyActions
  BY DEF Decision
<1>2. TerminationStatus("", d.action) = 200
  BY DEF TerminationStatus
<1>3. trafficBlockReason(direction, d.action, "") = ""
  BY DEF trafficBlockReason, AuthReasons, LimitReasons
<1>4. trafficErrorType(direction, d.action, "", d.failed) \in {"", "verdict_error"}
  BY <1>3 DEF trafficErrorType
<1>5. e = [direction |-> direction, status |-> 200, action |-> d.action,
           error |-> trafficErrorType(direction, d.action, "", d.failed)]
  BY <1>2 DEF Event, trafficEventGatewayStatus
<1> HIDE DEF e
<1>6. e \in TrafficEvent /\ Live(e)
  BY <1>1, <1>4, <1>5 DEF TrafficEvent, Live
<1>7. /\ e \in TrafficEvent /\ Live(e) /\ e.direction = direction
      /\ e.action = d.action /\ e.status = 200
  BY <1>5, <1>6
<1> QED
  BY <1>7 DEF e

\* The event of a stream has the status the client was sent, and the reason the
\* stream was told to end for.
LEMMA StreamRecorded ==
    ASSUME NEW status \in Nat \ {0}, NEW termination \in StreamReasons \cup {""},
           NEW d \in Decision
    PROVE  LET e == Event(status, "output", d, termination)
           IN  /\ e \in TrafficEvent /\ Live(e) /\ e.status = status
               /\ termination # "" => e.error = termination
<1> DEFINE e == Event(status, "output", d, termination)
           error == trafficErrorType("output", d.action, termination, d.failed)
<1>1. d.action \in PolicyActions
  BY DEF Decision
<1>2. e = [direction |-> "output", status |-> status, error |-> error, action |-> d.action]
  BY DEF Event, trafficEventGatewayStatus
<1>3. termination # "" => error = termination
  <2>1. termination # "" => termination \notin {"", "async_shadow_verdict", "read_request_error",
                                                "missing_provider"}
    BY DEF StreamReasons
  <2> QED
    BY <2>1 DEF trafficErrorType
<1>4. termination = "" => error \in {"", "blocked_output", "verdict_error"}
  <2>1. trafficBlockReason("output", d.action, "") \in {"", "blocked_output"}
    BY DEF trafficBlockReason, AuthReasons, LimitReasons
  <2> QED
    BY <2>1 DEF trafficErrorType
<1>5. error \in {"", "verdict_error"} \cup Reasons
  BY <1>3, <1>4 DEF Reasons
<1> HIDE DEF error, e
<1>6. e \in TrafficEvent /\ Live(e)
  BY <1>1, <1>2, <1>5 DEF TrafficEvent, Live
<1>7. /\ e \in TrafficEvent /\ Live(e) /\ e.status = status
      /\ termination # "" => e.error = termination
  BY <1>2, <1>3, <1>6
<1> QED
  BY <1>7 DEF e

\* The event of a background verdict is no event of the handler.
LEMMA ShadowRecorded ==
    ASSUME NEW d \in Decision
    PROVE  LET e == Event(0, "shadow", d, "async_shadow_verdict")
           IN  e \in TrafficEvent /\ ~ Live(e)
<1> DEFINE e == Event(0, "shadow", d, "async_shadow_verdict")
           status == TerminationStatus("async_shadow_verdict", d.action)
           error == trafficErrorType("shadow", d.action, "async_shadow_verdict", d.failed)
<1>1. d.action \in PolicyActions
  BY DEF Decision
<1>2. e = [direction |-> "shadow", status |-> status, error |-> error, action |-> d.action]
  BY DEF Event, trafficEventGatewayStatus
<1>3. status \in {200, 403}
  BY DEF TerminationStatus
<1>4. error \in {"", "verdict_error"}
  <2>1. trafficBlockReason("shadow", d.action, "async_shadow_verdict") = ""
    BY DEF trafficBlockReason, AuthReasons, LimitReasons
  <2> QED
    BY <2>1 DEF trafficErrorType
<1> HIDE DEF e, status, error
<1>5. e \in TrafficEvent /\ ~ Live(e)
  <2>1. status \in Nat
    BY <1>3
  <2>2. error \in {"", "missing_route", "verdict_error"} \cup Reasons
    BY <1>4
  <2> QED
    BY <1>1, <1>2, <2>1, <2>2 DEF TrafficEvent, Live
<1> QED
  BY <1>5 DEF e

\* An evaluation decides, and may leave a verdict running in the background.
LEMMA EvaluationFacts ==
    ASSUME ExchangeInv, NEW r \in Requests, NEW d \in DecisionsFor(r)
    PROVE  LET x == Evaluated(req[r], d, InShadow(r))
           IN  /\ d \in Decision /\ x \in Handler /\ x.decision = d
               /\ x.shadows \in Nat /\ x.shadows <= req[r].shadows + 1
               /\ x.events = req[r].events /\ x.answer = req[r].answer
               /\ x.pc = req[r].pc /\ x.status = req[r].status
               /\ SameRequest(x, req[r])
<1> DEFINE n == IF InShadow(r) THEN req[r].shadows + 1 ELSE req[r].shadows
           x == Evaluated(req[r], d, InShadow(r))
<1>1. d \in Decision
  BY ExchangeAssumption DEF DecisionsFor
<1>2. x = [req[r] EXCEPT !.decision = d, !.shadows = n]
  BY DEF Evaluated
<1>3. n \in Nat /\ n <= req[r].shadows + 1 /\ req[r] \in Handler
  BY HandlerFacts
<1> HIDE DEF n, x
<1>4. /\ x \in Handler /\ x.decision = d /\ x.shadows = n
      /\ x.events = req[r].events /\ x.answer = req[r].answer
      /\ x.pc = req[r].pc /\ x.status = req[r].status
      /\ SameRequest(x, req[r])
  BY <1>1, <1>2, <1>3 DEF Handler, SameRequest
<1>5. /\ d \in Decision /\ x \in Handler /\ x.decision = d
      /\ x.shadows \in Nat /\ x.shadows <= req[r].shadows + 1
      /\ x.events = req[r].events /\ x.answer = req[r].answer
      /\ x.pc = req[r].pc /\ x.status = req[r].status
      /\ SameRequest(x, req[r])
  BY <1>1, <1>3, <1>4
<1> QED
  BY <1>5 DEF x

\* applyOpenAIInputPolicy.
LEMMA InputPolicyStep ==
    ASSUME ExchangeInv, NEW r \in Requests, applyOpenAIInputPolicy(r)
    PROVE  ExchangeInv'
<1>1. PICK d \in DecisionsFor(r) :
        LET x == Evaluated(req[r], d, InShadow(r)) IN
        \/ /\ d.action = "block"
           /\ req' = [req EXCEPT ![r] = Refuse(x, "input", d, "", "blocked_input")]
           /\ UNCHANGED <<shared, bodies>>
        \/ /\ d.action = "redact" /\ "redaction_failed" \in Outcomes
           /\ req' = [req EXCEPT ![r] =
                  Refuse(x, "input", d, RedactionTermination, "redaction_failed")]
           /\ UNCHANGED <<shared, bodies>>
        \/ /\ d.action # "block"
           /\ req' = [req EXCEPT ![r] = [x EXCEPT !.pc = "project",
                  !.events = Append(@, Event(0, "input", d, ""))]]
           /\ UNCHANGED <<shared, bodies>>
  BY DEF applyOpenAIInputPolicy
<1> DEFINE x == Evaluated(req[r], d, InShadow(r))
<1>2. /\ d \in Decision /\ x \in Handler /\ x.decision = d
      /\ x.shadows \in Nat /\ x.shadows <= req[r].shadows + 1
      /\ x.events = req[r].events /\ x.answer = req[r].answer
      /\ SameRequest(x, req[r])
  BY EvaluationFacts
<1>3. /\ req[r].pc = "input" /\ req[r].pc \in Open /\ req[r].pc \notin Unreserved \cup Ended
      /\ "project" \in Permitted /\ "project" \notin Open \cup Unreserved \cup Ended
  BY DEF applyOpenAIInputPolicy, Open, Unreserved, Ended, Permitted
<1>4. /\ req[r].shadows = 0 /\ upstreamBody[r] = "nothing" /\ clientBody[r] = "nothing"
      /\ req[r].answer = Unanswered /\ req[r].events \in Seq(TrafficEvent)
      /\ upstreamBody = [upstreamBody EXCEPT ![r] = "nothing"]
      /\ clientBody = [clientBody EXCEPT ![r] = "nothing"] /\ "nothing" \in Passed
  BY <1>3, HandlerFacts DEF Sound, ShadowBound, Passed
<1> HIDE DEF x
<1>5. ASSUME NEW termination, NEW reason, Refuses("input", d, termination, reason),
             req' = [req EXCEPT ![r] = Refuse(x, "input", d, termination, reason)],
             UNCHANGED <<shared, bodies>>
      PROVE  ExchangeInv'
  <2>1. /\ upstreamBody' = [upstreamBody EXCEPT ![r] = "nothing"]
        /\ UNCHANGED <<shared, clientBody>> /\ x.shadows <= 2 /\ "input" \in {"input", "output"}
    BY <1>2, <1>4, <1>5 DEF bodies
  <2>2. "nothing" # "nothing" => Recorded(x.events, "input", "nothing")
    OBVIOUS
  <2> QED
    BY <1>2, <1>3, <1>4, <1>5, <2>1, <2>2, RefuseStep
<1>6. ASSUME d.action # "block", UNCHANGED <<shared, bodies>>,
             req' = [req EXCEPT ![r] = [x EXCEPT !.pc = "project",
                        !.events = Append(@, Event(0, "input", d, ""))]]
      PROVE  ExchangeInv'
  <2> DEFINE e == Event(0, "input", d, "")
             s == Append(x.events, e)
             h == [x EXCEPT !.pc = "project", !.events = s]
  <2>1. /\ e \in TrafficEvent /\ e.direction = "input" /\ e.action = d.action
    BY <1>2, <1>6, PassingRecorded
  <2>2. req' = [req EXCEPT ![r] = h]
    BY <1>6
  <2> HIDE DEF e
  <2>3. /\ s \in Seq(TrafficEvent) /\ Len(x.events) + 1 \in DOMAIN s
        /\ s[Len(x.events) + 1] = e
    BY <1>2, <1>4, <2>1, Appended
  <2> HIDE DEF s
  <2>a. x.shadows <= 1 /\ x.answer = Unanswered
    BY <1>2, <1>4
  <2>b. /\ h \in Handler /\ h.pc = "project" /\ h.events = s /\ h.decision = x.decision
        /\ h.answer = x.answer /\ h.shadows = x.shadows /\ SameRequest(h, x)
    BY <1>2, <2>3 DEF Handler, SameRequest
  <2> HIDE DEF h
  <2>4. /\ h \in Handler /\ h.pc = "project" /\ h.events = s /\ h.decision = d
        /\ h.answer = Unanswered /\ h.shadows <= 1 /\ SameRequest(h, req[r])
    BY <1>2, <2>a, <2>b DEF SameRequest
  <2>5. InputPermitted(h)
    BY <1>6, <2>1, <2>3, <2>4 DEF InputPermitted
  <2>6. Sound(h, "nothing", "nothing")
    BY <1>3, <2>4, <2>5 DEF Sound, ShadowBound
  <2>7. /\ upstreamBody' = [upstreamBody EXCEPT ![r] = "nothing"]
        /\ clientBody' = [clientBody EXCEPT ![r] = "nothing"] /\ UNCHANGED shared
    BY <1>4, <1>6 DEF bodies
  <2>8. req[r].pc \notin {"idle", "server"} /\ h.pc \notin Unreserved \cup {"done"}
    BY <1>3, <2>4 DEF Unreserved
  <2> QED
    BY <1>4, <2>2, <2>4, <2>6, <2>7, <2>8, OneHandler
<1>7. d.action = "block" => Refuses("input", d, "", "blocked_input")
  BY <1>2 DEF Refuses
<1>8. d.action = "redact" => Refuses("input", d, RedactionTermination, "redaction_failed")
  BY <1>2 DEF Refuses, RedactionTermination
<1> QED
  BY <1>1, <1>5, <1>6, <1>7, <1>8 DEF x

\* forwardOpenAIExchange: what crosses is what the recorded decision permits.
LEMMA ForwardStep ==
    ASSUME ExchangeInv, NEW r \in Requests, forwardOpenAIExchange(r)
    PROVE  ExchangeInv'
<1> DEFINE up == Crossing(req[r].decision)
           failed == Refuse(req[r], "output", BlockedDecision, "upstream_error",
                            "upstream_error")
           answers(status, pc) == [req[r] EXCEPT !.pc = pc, !.status = status]
<1>1. /\ req[r].pc = "forward" /\ req[r].pc \in Permitted
      /\ req[r].pc \notin Unreserved \cup Ended \cup Open
      /\ upstreamBody' = [upstreamBody EXCEPT ![r] = up]
      /\ UNCHANGED <<shared, clientBody>>
  BY DEF forwardOpenAIExchange, Permitted, Unreserved, Ended, Open
<1>2. \/ req' = [req EXCEPT ![r] = failed]
      \/ \E status \in UpstreamStatuses, pc \in {"response", "stream"} :
            req' = [req EXCEPT ![r] = answers(status, pc)]
  <2>1. ASSUME NEW status \in UpstreamStatuses,
               req' = [req EXCEPT ![r].pc = "response", ![r].status = status]
        PROVE  req' = [req EXCEPT ![r] = answers(status, "response")]
    BY <2>1, HandlerFacts
  <2>2. ASSUME NEW status \in UpstreamStatuses,
               req' = [req EXCEPT ![r] = IF status >= 400 THEN failed
                                         ELSE [req[r] EXCEPT !.pc = "stream", !.status = status]]
        PROVE  \/ req' = [req EXCEPT ![r] = failed]
               \/ req' = [req EXCEPT ![r] = answers(status, "stream")]
    BY <2>2
  <2> QED
    BY <2>1, <2>2 DEF forwardOpenAIExchange
<1>3. /\ req[r] \in Handler /\ req[r].shadows <= 1 /\ clientBody[r] = "nothing"
      /\ req[r].answer = Unanswered /\ InputPermitted(req[r])
      /\ clientBody = [clientBody EXCEPT ![r] = "nothing"] /\ "nothing" \in Passed
  BY <1>1, HandlerFacts DEF Sound, ShadowBound, Passed
<1>4. up \in Passed /\ Recorded(req[r].events, "input", up)
  BY <1>3 DEF Crossing, Passed, InputPermitted, Recorded, Permits
<1>5. ASSUME req' = [req EXCEPT ![r] = failed] PROVE ExchangeInv'
  <2>1. /\ Refuses("output", BlockedDecision, "upstream_error", "upstream_error")
        /\ SameRequest(req[r], req[r]) /\ req[r].shadows <= 2
        /\ "output" \in {"input", "output"}
    BY <1>3, HandlerFacts DEF Refuses, SameStatus, Reasons, StreamReasons, SameRequest
  <2> HIDE DEF up
  <2>2. req' = [req EXCEPT ![r] = Refuse(req[r], "output", BlockedDecision, "upstream_error",
                                         "upstream_error")]
    BY <1>5
  <2> HIDE DEF failed
  <2> QED
    BY <1>1, <1>3, <1>4, <2>1, <2>2, RefuseStep
<1>6. ASSUME NEW status \in UpstreamStatuses, NEW pc \in {"response", "stream"},
             req' = [req EXCEPT ![r] = answers(status, pc)]
      PROVE  ExchangeInv'
  <2> DEFINE h == answers(status, pc)
  <2>1. status \in Nat /\ status # 0
    BY ExchangeAssumption
  <2>2. /\ h \in Handler /\ h.pc = pc /\ h.status = status /\ h.shadows <= 1
        /\ h.answer = Unanswered /\ h.events = req[r].events
        /\ SameRequest(h, req[r])
    BY <1>3, <2>1 DEF Handler, SameRequest
  <2>3. pc \notin Open \cup Permitted \cup Ended \cup Unreserved \cup {"done"}
    BY DEF Open, Permitted, Ended, Unreserved
  <2> HIDE DEF h, up
  <2>4. Sound(h, up, "nothing")
    BY <1>4, <2>1, <2>2, <2>3 DEF Sound, ShadowBound
  <2>5. req' = [req EXCEPT ![r] = h] /\ clientBody' = [clientBody EXCEPT ![r] = "nothing"]
        /\ UNCHANGED shared /\ req[r].pc \notin {"idle", "server"}
    BY <1>1, <1>3, <1>6 DEF h
  <2> QED
    BY <1>1, <1>3, <1>4, <2>2, <2>3, <2>4, <2>5, OneHandler
<1> QED
  BY <1>2, <1>5, <1>6

\* ResponseRefused.
LEMMA ResponseRefusedStep ==
    ASSUME ExchangeInv, NEW r \in Requests, ResponseRefused(r)
    PROVE  ExchangeInv'
<1>1. /\ {"upstream_error", "upstream_response_too_large"} \subseteq SameStatus
      /\ req[r].pc \notin Unreserved \cup Ended
  BY DEF ResponseRefused, SameStatus, Reasons, StreamReasons, Unreserved, Ended
<1>2. PICK reason \in {"upstream_error", "upstream_response_too_large"} : EndOutput(r, reason)
  BY DEF ResponseRefused
<1> QED
  BY <1>1, <1>2, EndStep

\* handleOpenAIResponse: what crosses is what the recorded decision permits.
LEMMA ResponseStep ==
    ASSUME ExchangeInv, NEW r \in Requests, handleOpenAIResponse(r)
    PROVE  ExchangeInv'
<1>1. PICK d \in DecisionsFor(r) :
        LET x == Evaluated(req[r], d, InShadow(r)) IN
        \/ /\ d.action = "block"
           /\ req' = [req EXCEPT ![r] = Refuse(x, "output", d, "", "blocked_output")]
           /\ UNCHANGED <<shared, bodies>>
        \/ /\ d.action = "redact" /\ "redaction_failed" \in Outcomes
           /\ req' = [req EXCEPT ![r] =
                  Refuse(x, "output", d, RedactionTermination, "redaction_failed")]
           /\ UNCHANGED <<shared, bodies>>
        \/ /\ d.action # "block"
           /\ req' = [req EXCEPT ![r] = [x EXCEPT !.pc = "return",
                  !.answer = [status |-> req[r].status, code |-> ""],
                  !.events = Append(@, Event(0, "output", d, ""))]]
           /\ clientBody' = [clientBody EXCEPT ![r] = Crossing(d)]
           /\ UNCHANGED <<shared, upstreamBody>>
  BY DEF handleOpenAIResponse
<1> DEFINE x == Evaluated(req[r], d, InShadow(r))
<1>2. /\ d \in Decision /\ x \in Handler /\ x.decision = d
      /\ x.shadows \in Nat /\ x.shadows <= req[r].shadows + 1
      /\ x.events = req[r].events /\ SameRequest(x, req[r])
  BY EvaluationFacts
<1>3. /\ req[r].pc = "response" /\ req[r].pc \notin Unreserved \cup Ended \cup Open
      /\ req[r].pc \notin {"idle", "server"}
      /\ "return" \in Ended /\ "return" \notin Open \cup Permitted \cup Unreserved \cup {"done"}
  BY DEF handleOpenAIResponse, Open, Unreserved, Ended, Permitted
<1> DEFINE up == upstreamBody[r]
<1>4. /\ req[r].shadows \in Nat /\ req[r].shadows <= 1
      /\ up \in Passed /\ clientBody[r] = "nothing"
      /\ up # "nothing" => Recorded(req[r].events, "input", up)
      /\ req[r].events \in Seq(TrafficEvent) /\ req[r].status \in Nat
      /\ upstreamBody = [upstreamBody EXCEPT ![r] = up]
  BY <1>3, HandlerFacts DEF Sound, ShadowBound
<1> HIDE DEF x, up
<1>a. x.shadows <= 2
  BY <1>2, <1>4
<1>5. ASSUME NEW termination, NEW reason, Refuses("output", d, termination, reason),
             req' = [req EXCEPT ![r] = Refuse(x, "output", d, termination, reason)],
             UNCHANGED <<shared, bodies>>
      PROVE  ExchangeInv'
  <2>1. /\ upstreamBody' = [upstreamBody EXCEPT ![r] = up]
        /\ UNCHANGED <<shared, clientBody>> /\ "output" \in {"input", "output"}
    BY <1>4, <1>5 DEF bodies
  <2>2. up # "nothing" => Recorded(x.events, "input", up)
    BY <1>2, <1>4
  <2> QED
    BY <1>2, <1>3, <1>4, <1>a, <1>5, <2>1, <2>2, RefuseStep
<1>6. ASSUME d.action # "block", UNCHANGED <<shared, upstreamBody>>,
             req' = [req EXCEPT ![r] = [x EXCEPT !.pc = "return",
                        !.answer = [status |-> req[r].status, code |-> ""],
                        !.events = Append(@, Event(0, "output", d, ""))]],
             clientBody' = [clientBody EXCEPT ![r] = Crossing(d)]
      PROVE  ExchangeInv'
  <2> DEFINE e == Event(0, "output", d, "")
             s == Append(x.events, e)
             a == [status |-> req[r].status, code |-> ""]
             down == Crossing(d)
             h == [x EXCEPT !.pc = "return", !.answer = a, !.events = s]
  <2>1. /\ e \in TrafficEvent /\ Live(e) /\ e.direction = "output"
        /\ e.action = d.action /\ e.status = 200
    BY <1>2, <1>6, PassingRecorded
  <2>2. req' = [req EXCEPT ![r] = h] /\ clientBody' = [clientBody EXCEPT ![r] = down]
    BY <1>6
  <2>3. a \in Answer /\ a.code = ""
    BY <1>4 DEF Answer
  <2>4. /\ down \in {"raw", "redacted"} /\ down \in Passed /\ down # "nothing"
        /\ down = "raw" => d.action # "redact"
    BY DEF Crossing, Passed
  <2> HIDE DEF e, a, down
  <2>5. /\ s \in Seq(TrafficEvent) /\ Len(x.events) + 1 \in DOMAIN s
        /\ s[Len(x.events) + 1] = e /\ IsLastLive(s, Len(x.events) + 1)
    BY <1>2, <1>4, <2>1, Appended
  <2>6. up # "nothing" => Recorded(s, "input", up)
    BY <1>2, <1>4, <2>1, StaysRecorded
  <2>7. Recorded(s, "output", down)
    BY <1>6, <2>1, <2>4, <2>5 DEF Recorded, Permits
  <2> HIDE DEF s
  <2>8. /\ h \in Handler /\ h.pc = "return" /\ h.events = s /\ h.answer = a
        /\ h.shadows = x.shadows /\ SameRequest(h, x)
    BY <1>2, <2>3, <2>5 DEF Handler, SameRequest
  <2> HIDE DEF h
  <2>9. Answered(h, down)
    BY <2>1, <2>3, <2>4, <2>5, <2>8 DEF Answered, RecordedStatus
  <2>10. Sound(h, up, down)
    BY <1>3, <1>a, <2>6, <2>7, <2>8, <2>9 DEF Sound, ShadowBound
  <2>11. SameRequest(h, req[r])
    BY <1>2, <2>8 DEF SameRequest
  <2>12. upstreamBody' = [upstreamBody EXCEPT ![r] = up] /\ UNCHANGED shared
    BY <1>4, <1>6
  <2>13. h.pc = req[r].pc \/ h.pc \notin Unreserved \cup {"done"}
    BY <1>3, <2>8
  <2> QED
    BY <1>3, <1>4, <2>2, <2>4, <2>8, <2>10, <2>11, <2>12, <2>13, OneHandler
<1>7. d.action = "block" => Refuses("output", d, "", "blocked_output")
  BY <1>2 DEF Refuses
<1>8. d.action = "redact" => Refuses("output", d, RedactionTermination, "redaction_failed")
  BY <1>2 DEF Refuses, RedactionTermination
<1> QED
  BY <1>1, <1>5, <1>6, <1>7, <1>8 DEF x

\* However a stream ends, its event has the status the client was sent.
LEMMA StreamEndsSound ==
    ASSUME ExchangeInv, NEW r \in Requests, req[r].pc = "stream",
           NEW termination \in StreamReasons \cup {""}, NEW d \in Decision,
           NEW x \in Handler, x.shadows <= 2, x.events = req[r].events,
           SameRequest(x, req[r]),
           NEW code, code = IF termination = "client_write_error" THEN "" ELSE termination,
           req' = [req EXCEPT ![r] = [x EXCEPT !.pc = "return",
                      !.answer = [status |-> req[r].status, code |-> code],
                      !.events = Append(@, Event(req[r].status, "output", d, termination))]],
           clientBody' = [clientBody EXCEPT ![r] = "streamed"],
           UNCHANGED <<shared, upstreamBody>>
    PROVE  ExchangeInv'
<1>1. /\ req[r].pc \notin Ended \cup Open
      /\ req[r].pc \notin {"idle", "server"} /\ "streamed" \in Passed
      /\ "streamed" \notin {"nothing", "raw", "redacted"}
      /\ "return" \in Ended /\ "return" \notin Open \cup Permitted \cup Unreserved \cup {"done"}
  BY DEF Open, Unreserved, Ended, Permitted, Passed
<1>2. PICK up, status : up = upstreamBody[r] /\ status = req[r].status
  OBVIOUS
<1>3. /\ up \in Passed
      /\ up # "nothing" => Recorded(x.events, "input", up)
      /\ x.events \in Seq(TrafficEvent) /\ status \in Nat \ {0}
      /\ upstreamBody' = [upstreamBody EXCEPT ![r] = up]
  BY <1>1, <1>2, HandlerFacts DEF Sound
<1> DEFINE e == Event(status, "output", d, termination)
           a == [status |-> status, code |-> code]
           s == Append(x.events, e)
           h == [x EXCEPT !.pc = "return", !.answer = a, !.events = s]
<1>4. req' = [req EXCEPT ![r] = h]
  BY <1>2
<1>5. /\ e \in TrafficEvent /\ Live(e) /\ e.status = status
      /\ termination # "" => e.error = termination
  BY <1>3, StreamRecorded
<1> HIDE DEF e, s, h
<1>6. /\ code \in Reasons \cup {""} /\ code # "redaction_failed"
      /\ code # "" => e.error = code
  BY <1>5 DEF Reasons, StreamReasons
<1>7. a \in Answer /\ a.code = code /\ a.status = status
  BY <1>3, <1>6 DEF Answer
<1> HIDE DEF a
<1>8. /\ s \in Seq(TrafficEvent) /\ Len(x.events) + 1 \in DOMAIN s
      /\ s[Len(x.events) + 1] = e /\ IsLastLive(s, Len(x.events) + 1)
      /\ Recorded(x.events, "input", up) => Recorded(s, "input", up)
  BY <1>3, <1>5, Appended, StaysRecorded DEF s
<1>9. /\ h \in Handler /\ h.pc = "return" /\ h.events = s /\ h.answer = a
      /\ h.shadows = x.shadows /\ SameRequest(h, x)
  BY <1>7, <1>8 DEF Handler, SameRequest, h
<1>10. Answered(h, "streamed")
  <2>1. RecordedStatus(h.answer, "streamed") = status
    BY <1>1, <1>6, <1>7, <1>9 DEF RecordedStatus
  <2> QED
    BY <1>5, <1>6, <1>7, <1>8, <1>9, <2>1 DEF Answered
<1>11. Sound(h, up, "streamed")
  BY <1>1, <1>3, <1>8, <1>9, <1>10 DEF Sound, ShadowBound
<1>12. /\ SameRequest(h, req[r])
       /\ h.pc = req[r].pc \/ h.pc \notin Unreserved \cup {"done"}
  BY <1>1, <1>9 DEF SameRequest
<1> QED
  BY <1>1, <1>3, <1>4, <1>9, <1>11, <1>12, OneHandler

\* handleStreaming.
LEMMA StreamStep ==
    ASSUME ExchangeInv, NEW r \in Requests, handleStreaming(r)
    PROVE  ExchangeInv'
<1>1. PICK end \in StreamEnds(r) :
          LET x == IF end[1] \in {"", "client_write_error"}
                   THEN Evaluated(req[r], end[2], InShadow(r)) ELSE req[r]
          IN  req' = [req EXCEPT ![r] = [x EXCEPT !.pc = "return",
                  !.answer = [status |-> req[r].status,
                              code |-> IF end[1] = "client_write_error" THEN "" ELSE end[1]],
                  !.events = Append(@, Event(req[r].status, "output", end[2], end[1]))]]
  BY DEF handleStreaming
<1>2. PICK termination, d : termination = end[1] /\ d = end[2]
  OBVIOUS
<1>3. /\ termination \in StreamReasons \cup {""} /\ d \in Decision
      /\ termination \in {"", "client_write_error"} => d \in DecisionsFor(r)
  <2>1. DecisionsFor(r) \subseteq Decision
    BY ExchangeAssumption DEF DecisionsFor
  <2>2. /\ BlockedDecision \in Decision /\ [action |-> "redact", failed |-> FALSE] \in Decision
        /\ {"client_write_error", "unsupported_redaction"} \subseteq StreamReasons
        /\ "" \notin StreamReasons
    BY DEF BlockedDecision, Decision, PolicyActions, StreamReasons
  <2>3. CASE end \in {"", "client_write_error"} \X DecisionsFor(r)
    BY <1>2, <2>1, <2>2, <2>3
  <2>4. CASE end = <<"unsupported_redaction", [action |-> "redact", failed |-> FALSE]>>
    BY <1>2, <2>2, <2>4
  <2>5. CASE end \in (StreamReasons \ {"client_write_error"}) \X {BlockedDecision}
    BY <1>2, <2>2, <2>5
  <2> QED
    BY <2>3, <2>4, <2>5 DEF StreamEnds
<1>4. PICK x : /\ x = IF termination \in {"", "client_write_error"}
                      THEN Evaluated(req[r], d, InShadow(r)) ELSE req[r]
               /\ req' = [req EXCEPT ![r] = [x EXCEPT !.pc = "return",
                     !.answer = [status |-> req[r].status,
                                 code |-> IF termination = "client_write_error" THEN ""
                                          ELSE termination],
                     !.events = Append(@, Event(req[r].status, "output", d, termination))]]
  BY <1>1, <1>2
<1>5. /\ req[r].pc = "stream" /\ clientBody' = [clientBody EXCEPT ![r] = "streamed"]
      /\ UNCHANGED <<shared, upstreamBody>>
  BY DEF handleStreaming
<1>6. x \in Handler /\ x.shadows <= 2 /\ x.events = req[r].events /\ SameRequest(x, req[r])
  <2>1. req[r] \in Handler /\ req[r].shadows \in Nat /\ req[r].shadows <= 1
    BY <1>5, HandlerFacts DEF Sound, ShadowBound, Open, Ended
  <2>2. CASE termination \in {"", "client_write_error"}
    <3>1. x = Evaluated(req[r], d, InShadow(r)) /\ d \in DecisionsFor(r)
      BY <1>3, <1>4, <2>2
    <3> DEFINE y == Evaluated(req[r], d, InShadow(r))
    <3>2. /\ y \in Handler /\ y.shadows \in Nat /\ y.shadows <= req[r].shadows + 1
          /\ y.events = req[r].events /\ SameRequest(y, req[r])
      BY <3>1, EvaluationFacts
    <3> HIDE DEF y
    <3>3. y.shadows <= 2
      BY <2>1, <3>2
    <3>4. x = y
      BY <3>1 DEF y
    <3> QED
      BY <3>2, <3>3, <3>4
  <2>3. CASE termination \notin {"", "client_write_error"}
    <3>1. x = req[r]
      BY <1>4, <2>3
    <3>2. req[r].shadows <= 2
      BY <2>1
    <3> QED
      BY <2>1, <3>1, <3>2 DEF SameRequest
  <2> QED
    BY <2>2, <2>3
<1> QED
  BY <1>3, <1>4, <1>5, <1>6, StreamEndsSound

\* ObserveShadowEvaluation: a verdict that comes late changes nothing the
\* handler has recorded.
LEMMA ShadowStep ==
    ASSUME ExchangeInv, NEW r \in Requests, ObserveShadowEvaluation(r)
    PROVE  ExchangeInv'
<1>1. PICK d \in Decisions :
          req' = [req EXCEPT ![r].shadows = @ - 1,
                             ![r].events = Append(@, Event(0, "shadow", d, "async_shadow_verdict"))]
  BY DEF ObserveShadowEvaluation
<1> DEFINE e == Event(0, "shadow", d, "async_shadow_verdict")
           s == Append(req[r].events, e)
           n == req[r].shadows - 1
           h == [req[r] EXCEPT !.shadows = n, !.events = s]
           up == upstreamBody[r]
           down == clientBody[r]
<1>2. d \in Decision
  BY ExchangeAssumption
<1>3. e \in TrafficEvent /\ ~ Live(e)
  BY <1>2, ShadowRecorded
<1>4. /\ req \in [Requests -> Handler] /\ req[r] \in Handler
      /\ req[r].events \in Seq(TrafficEvent) /\ up \in Passed /\ down \in Passed
      /\ req[r].shadows \in Nat /\ req[r].shadows > 0 /\ Sound(req[r], up, down)
      /\ upstreamBody' = [upstreamBody EXCEPT ![r] = up]
      /\ clientBody' = [clientBody EXCEPT ![r] = down]
      /\ UNCHANGED shared
  BY HandlerFacts DEF ObserveShadowEvaluation, bodies
<1>5. req' = [req EXCEPT ![r] = h]
  BY <1>1, <1>4
<1>6. n \in Nat /\ n <= req[r].shadows
  BY <1>4
<1>7. req[r].pc \notin Open
  BY <1>4 DEF Sound, ShadowBound
<1> HIDE DEF e, n, up, down
<1>8. /\ s \in Seq(TrafficEvent)
      /\ \A i \in DOMAIN req[r].events : i \in DOMAIN s /\ s[i] = req[r].events[i]
      /\ \A i \in DOMAIN req[r].events : IsLastLive(req[r].events, i) => IsLastLive(s, i)
  BY <1>3, <1>4, Appended
<1>9. \A direction, body : Recorded(req[r].events, direction, body) => Recorded(s, direction, body)
  BY <1>8 DEF Recorded
<1> HIDE DEF s
<1>10. /\ h \in Handler /\ h.pc = req[r].pc /\ h.events = s /\ h.shadows = n
       /\ h.answer = req[r].answer /\ h.status = req[r].status
       /\ h.decision = req[r].decision /\ SameRequest(h, req[r])
  BY <1>4, <1>6, <1>8 DEF Handler, SameRequest
<1> HIDE DEF h
<1>11. Answered(req[r], down) => Answered(h, down)
  BY <1>8, <1>10 DEF Answered
<1>12. InputPermitted(req[r]) => InputPermitted(h)
  BY <1>8, <1>10 DEF InputPermitted
<1>13. h.shadows <= ShadowBound(h.pc)
  <2>1. req[r].shadows <= ShadowBound(req[r].pc)
    BY <1>4 DEF Sound
  <2>2. ShadowBound(req[r].pc) \in Nat
    BY DEF ShadowBound
  <2> QED
    BY <1>4, <1>6, <1>10, <2>1, <2>2
<1>14. Sound(h, up, down)
  BY <1>4, <1>9, <1>10, <1>11, <1>12, <1>13 DEF Sound
<1>15. req[r].pc \notin {"idle", "server"}
  BY <1>7 DEF Open
<1> QED
  BY <1>4, <1>5, <1>10, <1>14, <1>15, OneHandler

\* The steps of admission: what they refuse is recorded, and nothing crosses.
LEMMA AdmissionSound ==
    ASSUME ExchangeInv, NEW r \in Requests, AdmissionStep(r), UNCHANGED bodies
    PROVE  ExchangeInv'
<1>1. /\ Inv /\ RateInv /\ AdmissionNext /\ req \in [Requests -> Handler]
      /\ upstreamBody' = upstreamBody /\ clientBody' = clientBody
  BY DEF ExchangeInv, Inv, AdmissionTypeOK, AdmissionNext, bodies
<1>2. Inv' /\ RateInv'
  BY <1>1, NextInv, NextRate
<1>3. \E h : req' = [req EXCEPT ![r] = h] /\ Sound(h, upstreamBody[r], clientBody[r])
  <2>. PICK up, down : up = upstreamBody[r] /\ down = clientBody[r]
    OBVIOUS
  <2>0. /\ req[r] \in Handler /\ Sound(req[r], up, down) /\ req[r].shadows \in Nat
        /\ req[r].events \in Seq(TrafficEvent)
    BY HandlerFacts
  <2>1. ASSUME NEW reason \in SameStatus, req[r].pc \in Open,
               req' = [req EXCEPT ![r] = RefuseInput(req[r], reason)]
        PROVE  \E h : req' = [req EXCEPT ![r] = h] /\ Sound(h, up, down)
    <3> DEFINE h == Refuse(req[r], "input", BlockedDecision, reason, reason)
    <3>1. Refuses("input", BlockedDecision, reason, reason) /\ "input" \in {"input", "output"}
      BY DEF Refuses
    <3>2. up = "nothing" /\ down = "nothing" /\ req[r].shadows <= 2
      BY <2>0, <2>1 DEF Sound, ShadowBound, Open, Ended
    <3>3. Sound(h, up, "nothing")
      BY <2>0, <3>1, <3>2, RefuseSound
    <3>4. req' = [req EXCEPT ![r] = h]
      BY <2>1 DEF RefuseInput
    <3> HIDE DEF h
    <3> QED
      BY <3>2, <3>3, <3>4
  <2>2. ASSUME NEW h, req' = [req EXCEPT ![r] = h],
               h.events = req[r].events, h.answer = req[r].answer,
               h.shadows = req[r].shadows, h.decision = req[r].decision,
               \/ req[r].pc \in Open /\ h.pc \in Open
               \/ req[r].pc \in Ended /\ h.pc \in Ended
        PROVE  \E x : req' = [req EXCEPT ![r] = x] /\ Sound(x, up, down)
    <3>1. Sound(h, up, down)
      BY <2>0, <2>2, MoveSound
    <3> QED
      BY <2>2, <3>1
  <2>3. /\ {"idle", "server", "admit", "rate", "reserve", "body", "infra"} \subseteq Open
        /\ {"return", "done"} \subseteq Ended
    BY DEF Open, Ended
  <2>4. ASSUME NEW key \in Clients \cup {NoKey, BadKey}, NEW route \in Routes,
               Arrive(r, key, route)
        PROVE  \E h : req' = [req EXCEPT ![r] = h] /\ Sound(h, up, down)
    <3> DEFINE h == [req[r] EXCEPT !.pc = "server", !.cfg = active, !.key = key, !.route = route]
    <3>1. req' = [req EXCEPT ![r] = h] /\ req[r].pc = "idle"
      BY <1>1, <2>4 DEF Arrive
    <3>2. /\ h.pc = "server" /\ h.events = req[r].events /\ h.answer = req[r].answer
          /\ h.shadows = req[r].shadows /\ h.decision = req[r].decision
      BY <2>0 DEF Handler
    <3> HIDE DEF h
    <3> QED
      BY <2>2, <2>3, <3>1, <3>2
  <2>5. CASE ReuseServer(r) \/ BuildServer(r)
    <3>1. PICK srv : req' = [req EXCEPT ![r].pc = "admit", ![r].srv = srv]
      BY <2>5 DEF ReuseServer, BuildServer
    <3> DEFINE h == [req[r] EXCEPT !.pc = "admit", !.srv = srv]
    <3>2. req' = [req EXCEPT ![r] = h] /\ req[r].pc = "server"
      BY <1>1, <2>5, <3>1 DEF ReuseServer, BuildServer
    <3>3. /\ h.pc = "admit" /\ h.events = req[r].events /\ h.answer = req[r].answer
          /\ h.shadows = req[r].shadows /\ h.decision = req[r].decision
      BY <2>0 DEF Handler
    <3> HIDE DEF h
    <3> QED
      BY <2>2, <2>3, <3>2, <3>3
  <2>6. CASE Admit(r)
    <3> DEFINE reason == AdmissionReason(ConfigOf(r), req[r].key, req[r].route)
               protected == routeProtected(ConfigOf(r), req[r].route)
               limited == [req[r] EXCEPT !.pc = "rate", !.at = now]
               open == [req[r] EXCEPT !.pc = "infra"]
    <3>1. /\ req[r].pc = "admit"
          /\ req' = [req EXCEPT ![r] = IF reason # "" THEN RefuseInput(req[r], reason)
                                       ELSE IF protected THEN limited ELSE open]
      BY <2>6 DEF Admit
    <3>2. reason # "" => reason \in SameStatus
      BY DEF AdmissionReason, authenticate, SameStatus, Reasons, AuthReasons, LimitReasons,
             StreamReasons
    <3>3. /\ limited.pc = "rate" /\ limited.events = req[r].events
          /\ limited.answer = req[r].answer /\ limited.shadows = req[r].shadows
          /\ limited.decision = req[r].decision
          /\ open.pc = "infra" /\ open.events = req[r].events /\ open.answer = req[r].answer
          /\ open.shadows = req[r].shadows /\ open.decision = req[r].decision
      BY <2>0 DEF Handler
    <3> HIDE DEF reason, protected, limited, open
    <3>4. CASE reason # ""
      BY <2>1, <2>3, <3>1, <3>2, <3>4
    <3>5. CASE reason = "" /\ protected
      <4>1. req' = [req EXCEPT ![r] = limited]
        BY <3>1, <3>5
      <4> QED
        BY <2>2, <2>3, <3>1, <3>3, <4>1
    <3>6. CASE reason = "" /\ ~ protected
      <4>1. req' = [req EXCEPT ![r] = open]
        BY <3>1, <3>6
      <4> QED
        BY <2>2, <2>3, <3>1, <3>3, <4>1
    <3> QED
      BY <3>4, <3>5, <3>6
  <2>7. CASE RateRefused(r) \/ ConcurrencyRefused(r)
    <3>1. PICK reason \in {"rate_limit_exceeded", "concurrency_limit_exceeded"} :
             req' = [req EXCEPT ![r] = RefuseInput(req[r], reason)]
      BY <1>1, <2>7 DEF RateRefused, ConcurrencyRefused
    <3>2. reason \in SameStatus /\ req[r].pc \in Open
      BY <2>7 DEF SameStatus, Reasons, LimitReasons, StreamReasons, RateRefused,
                  ConcurrencyRefused, Open
    <3> QED
      BY <2>1, <3>1, <3>2
  <2>8. CASE allowRate(r)
    <3> DEFINE h == [req[r] EXCEPT !.pc = "reserve", !.granted = TRUE]
    <3>1. req' = [req EXCEPT ![r] = h] /\ req[r].pc = "rate"
      BY <1>1, <2>8 DEF allowRate
    <3>2. /\ h.pc = "reserve" /\ h.events = req[r].events /\ h.answer = req[r].answer
          /\ h.shadows = req[r].shadows /\ h.decision = req[r].decision
      BY <2>0 DEF Handler
    <3> HIDE DEF h
    <3> QED
      BY <2>2, <2>3, <3>1, <3>2
  <2>9. CASE acquireConcurrency(r) \/ Return(r)
    <3> DEFINE pc == IF req[r].pc = "return" THEN "done" ELSE "body"
               h == [req[r] EXCEPT !.pc = pc]
    <3>1. req' = [req EXCEPT ![r] = h] /\ req[r].pc \in {"reserve", "return"}
      BY <1>1, <2>9 DEF acquireConcurrency, Return
    <3>2. /\ h.pc = pc /\ h.events = req[r].events /\ h.answer = req[r].answer
          /\ h.shadows = req[r].shadows /\ h.decision = req[r].decision
      BY <2>0 DEF Handler
    <3>3. \/ req[r].pc = "return" /\ pc = "done"
          \/ req[r].pc = "reserve" /\ pc = "body"
      BY <3>1
    <3> HIDE DEF h, pc
    <3> QED
      BY <2>2, <2>3, <3>1, <3>2, <3>3
  <2> QED
    BY <2>4, <2>5, <2>6, <2>7, <2>8, <2>9 DEF AdmissionStep
<1>4. PICK h : req' = [req EXCEPT ![r] = h] /\ Sound(h, upstreamBody[r], clientBody[r])
  BY <1>3
<1>5. req'[r] = h /\ \A q \in Requests \ {r} : req'[q] = req[q]
  BY <1>1, <1>4
<1> QED
  BY <1>1, <1>2, <1>4, <1>5 DEF ExchangeInv

\* Every step of the exchange keeps the invariant.
LEMMA NextExchange == ExchangeInv /\ [Next]_vars => ExchangeInv'
<1> SUFFICES ASSUME ExchangeInv, [Next]_vars PROVE ExchangeInv'
  OBVIOUS
<1>1. CASE UNCHANGED vars \/ (Environment /\ UNCHANGED bodies)
  <2>1. Inv /\ RateInv /\ (AdmissionNext \/ UNCHANGED admissionVars)
    BY <1>1 DEF ExchangeInv, AdmissionNext, vars
  <2>2. Inv' /\ RateInv'
    BY <2>1, NextInv, NextRate
  <2>3. req' = req /\ upstreamBody' = upstreamBody /\ clientBody' = clientBody
    BY <1>1 DEF vars, admissionVars, bodies, Environment, Tick, AuditChanges, Reload
  <2> QED
    BY <2>2, <2>3 DEF ExchangeInv
<1>2. ASSUME NEW r \in Requests, HandlerStep(r) \/ ObserveShadowEvaluation(r)
      PROVE  ExchangeInv'
  <2>1. CASE AdmissionStep(r) /\ UNCHANGED bodies
    BY <2>1, AdmissionSound
  <2>2. CASE ExchangeStep(r)
    BY <2>2, PlanStep, InputPolicyStep, ForwardStep, ResponseRefusedStep, ResponseStep,
       StreamStep DEF ExchangeStep
  <2> QED
    BY <1>2, <2>1, <2>2, ShadowStep DEF HandlerStep
<1> QED
  BY <1>1, <1>2 DEF Next

\* Before the first request no handler has done anything.
LEMMA InitExchange == Init => ExchangeInv
<1> SUFFICES ASSUME Init PROVE ExchangeInv
  OBVIOUS
<1>1. Inv /\ RateInv
  BY InitInv, InitRate DEF Init
<1>2. \A r \in Requests :
         req[r] = Idle /\ upstreamBody[r] = "nothing" /\ clientBody[r] = "nothing"
  BY DEF Init, AdmissionInit
<1>3. /\ upstreamBody \in [Requests -> Passed] /\ clientBody \in [Requests -> Passed]
  BY DEF Init, Passed
<1>4. Sound(Idle, "nothing", "nothing")
  BY DEF Sound, ShadowBound, Idle, Open, Permitted, Ended
<1> QED
  BY <1>1, <1>2, <1>3, <1>4 DEF ExchangeInv

\* ExchangeInv is an invariant.
LEMMA InvExchange == Spec => []ExchangeInv
BY InitExchange, NextExchange, PTL DEF Spec

-----------------------------------------------------------------------------
(* Theorems.                                                               *)

\* Type correctness of the exchange; in particular at most two background
\* verdicts of one request run at a time (openai_policy.go:13 and 65).
THEOREM ExchangeTypeCorrect == Spec => []TypeOK
<1>1. ExchangeInv => TypeOK
  <2> SUFFICES ASSUME ExchangeInv PROVE TypeOK
    OBVIOUS
  <2>1. \A r \in Requests : req[r].shadows <= 2
    <3> SUFFICES ASSUME NEW r \in Requests PROVE req[r].shadows <= 2
      OBVIOUS
    <3> QED
      BY HandlerFacts DEF Sound, ShadowBound
  <2> QED
    BY <2>1 DEF ExchangeInv, TypeOK, Inv
<1> QED
  BY <1>1, InvExchange, PTL

\* On every path the handler's last event and the client's answer agree, as
\* far as RecordedStatus says, although a background verdict may append its own
\* event at any time (event_emission.go, traffic_event.go, lifecycle_errors.go).
THEOREM AnswersRecorded == Spec => []AnswerRecorded
<1>1. ExchangeInv => AnswerRecorded
  <2> SUFFICES ASSUME ExchangeInv, NEW r \in Requests,
                      req[r].answer.code # "" \/ req[r].pc = "done"
               PROVE  Answered(req[r], clientBody[r])
    BY DEF AnswerRecorded, Answered
  <2>1. Sound(req[r], upstreamBody[r], clientBody[r]) /\ Unanswered.code = ""
    BY DEF ExchangeInv, Unanswered
  <2>2. req[r].pc \in Ended
    BY <2>1 DEF Sound, Ended
  <2> QED
    BY <2>1, <2>2 DEF Sound
<1> QED
  BY <1>1, InvExchange, PTL

\* No buffered body crosses in either direction unless an event with a decision
\* that lets it cross has been emitted (openai_policy.go:13 and 65).
THEOREM CrossingsRecorded == Spec => []CrossingIsRecorded
<1>1. ExchangeInv => CrossingIsRecorded
  <2> SUFFICES ASSUME ExchangeInv, NEW r \in Requests
               PROVE  /\ upstreamBody[r] # "nothing" =>
                            Recorded(req[r].events, "input", upstreamBody[r])
                      /\ clientBody[r] \in {"raw", "redacted"} =>
                            Recorded(req[r].events, "output", clientBody[r])
    <3>1. \A r \in Requests : DOMAIN req[r].events = 1..Len(req[r].events)
      BY HandlerFacts
    <3> QED
      BY <3>1 DEF CrossingIsRecorded, Recorded
  <2> QED
    BY DEF ExchangeInv, Sound
<1> QED
  BY <1>1, InvExchange, PTL

\* The limits of admission hold for the whole exchange: every path after
\* admission releases what it reserved, and no more (limits.go:103 and 136).
THEOREM ExchangeLimits == Spec => [](ReservationsWithinLimit /\ RateWithinWindow)
<1>1. ExchangeInv => ReservationsWithinLimit /\ RateWithinWindow
  BY InvWithinLimits, InvWithinWindows DEF ExchangeInv
<1> QED
  BY <1>1, InvExchange, PTL
=============================================================================
