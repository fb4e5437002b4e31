-------------------------- MODULE GatewayAdmission --------------------------
(***************************************************************************)
(* Admission of requests to the gateway (adapters/http/openai: server_     *)
(* builder.go, limits.go, client_auth.go, request_admission.go;            *)
(* application/usecases.go).                                               *)
(*                                                                         *)
(* Requests are served concurrently, one goroutine each.  A request reads  *)
(* the active configuration, obtains the server built for its revision     *)
(* from providerServer, which keeps the last one built, and, on a          *)
(* protected route, is authenticated, checked against the audit gate and   *)
(* counted against the rate window and the concurrency reservations of     *)
(* its (client, route) in that server's limitState.  What follows          *)
(* admission is one step here, Serve, and is spelt out in GatewayExchange. *)
(***************************************************************************)
EXTENDS GatewayReasons, FiniteSets, Sequences

CONSTANTS
    Requests, Clients, Routes,
    Revisions,      \* revision numbers; 0 stands for no compiled configuration
    Config,         \* the compiled configuration of each revision
    NoKey, BadKey,  \* a request without a client key, with one that does not verify
    MaxServers,     \* bound: servers built
    MaxNow          \* bound: clock

Keys == Clients \X Routes
Policy == [enabled : BOOLEAN, requests : Nat, window : Nat, concurrent : Nat]

\* shadow: routes whose verdict provider runs asynchronously;
\* upstream: routes whose provider is configured.
Configuration ==
    [routes : SUBSET Routes, auth : SUBSET Routes, upstream : SUBSET Routes,
     shadow : SUBSET Routes,
     status : [Clients -> {"enabled", "disabled", "revoked", "unknown"}],
     default : [Routes -> Policy], override : [Keys -> Policy]]

ASSUME AdmissionAssumption ==
    /\ IsFiniteSet(Requests)
    /\ Revisions \subseteq Nat
    /\ Config \in [Revisions -> Configuration]
    /\ NoKey \notin Clients /\ BadKey \notin Clients /\ NoKey # BadKey
    /\ MaxServers \in Nat /\ MaxNow \in Nat

VARIABLES
    active,         \* the revision the runtime state serves
    built,          \* the revisions of the servers built so far, in order
    current,        \* providerServer.server, an index of built; 0 for nil
    rates,          \* limitState.rates of each server
    concurrency,    \* limitState.concurrency of each server
    holds,          \* the reservations a request has still to release
    audit,          \* the audit gate is healthy
    now,
    req             \* the handler of each request

limitVars == <<rates, concurrency, holds>>
configVars == <<active, built, current>>
admissionVars == <<configVars, limitVars, audit, now, req>>

Servers == 1..MaxServers
Answer == [status : Nat, code : {"", "missing_route"} \cup Reasons]
Unanswered == [status |-> 0, code |-> ""]

\* at: the instant the handler passes to the limiter; granted: allowRate
\* admitted it; decision and status: the last policy decision and the status
\* of the upstream; shadows: verdicts that run in the background.
Handler ==
    [pc : {"idle", "server", "admit", "rate", "reserve", "body", "infra",
           "decode", "input", "project", "forward", "response", "stream",
           "return", "done"},
     key : Clients \cup {NoKey, BadKey}, route : Routes \cup {""},
     cfg : Revisions \cup {0}, srv : 0..MaxServers, at : Nat, granted : BOOLEAN,
     decision : Decision, status : Nat, shadows : Nat,
     answer : Answer, events : Seq(TrafficEvent)]

Idle == [pc |-> "idle", key |-> NoKey, route |-> "", cfg |-> 0, srv |-> 0,
         at |-> 0, granted |-> FALSE, decision |-> BlockedDecision,
         status |-> 0, shadows |-> 0, answer |-> Unanswered, events |-> <<>>]

AdmissionInit ==
    /\ active \in Revisions
    /\ built = <<>>
    /\ current = 0
    /\ rates = [s \in Servers |-> [k \in Keys |-> [start |-> 0, count |-> 0]]]
    /\ concurrency = [s \in Servers |-> [k \in Keys |-> 0]]
    /\ holds = [r \in Requests |-> {}]
    /\ audit = TRUE
    /\ now = 0
    /\ req = [r \in Requests |-> Idle]

-----------------------------------------------------------------------------
(* Static parts of a server: limitResolver and clientRegistry.             *)

ValidPolicy(p) == p.enabled /\ p.requests > 0 /\ p.window > 0 /\ p.concurrent > 0

routeProtected(cfg, route) ==
    route \in cfg.auth \/ ValidPolicy(cfg.default[route])

\* A client's override applies only where the route has a default.
hasPolicy(cfg, route) == ValidPolicy(cfg.default[route])
effectivePolicy(cfg, k) ==
    IF ValidPolicy(cfg.override[k]) THEN cfg.override[k] ELSE cfg.default[k[2]]

authenticate(cfg, key) ==
    CASE key = NoKey -> "missing_client_key"
      [] key = BadKey -> "invalid_client_key"
      [] OTHER -> CASE cfg.status[key] = "enabled"  -> ""
                    [] cfg.status[key] = "unknown"  -> "invalid_client_key"
                    [] cfg.status[key] = "revoked"  -> "revoked_client_key"
                    [] OTHER                        -> "disabled_client_key"

ConfigOf(r) == Config[built[req[r].srv]]
KeyOf(r) == <<req[r].key, req[r].route>>
PolicyOf(r) == effectivePolicy(ConfigOf(r), KeyOf(r))

\* The handler emits the event, writes the error and returns; its deferred
\* calls run last.

\* Mutant: a refused request returns without its cleanup.
RefuseWithoutCleanup(x, direction, decision, termination, reason) ==
    [x EXCEPT !.pc = "done",
              !.answer = [status |-> ErrorStatus(reason), code |-> ErrorCode(reason)],
              !.events = Append(@, Event(0, direction, decision, termination))]

Refuse(x, direction, decision, termination, reason) ==
    [x EXCEPT !.pc = "return",
              !.answer = [status |-> ErrorStatus(reason), code |-> ErrorCode(reason)],
              !.events = Append(@, Event(0, direction, decision, termination))]
RefuseInput(x, reason) == Refuse(x, "input", BlockedDecision, reason, reason)

-----------------------------------------------------------------------------
(* The environment.                                                        *)

\* The runtime watcher publishes a newer configuration.
Reload(rev) ==
    /\ rev > active
    /\ active' = rev
    /\ UNCHANGED <<built, current, limitVars, audit, now, req>>

\* The event pipeline marks the gate.
AuditChanges ==
    /\ audit' = ~audit
    /\ UNCHANGED <<configVars, limitVars, now, req>>

Tick ==
    /\ now < MaxNow
    /\ now' = now + 1
    /\ UNCHANGED <<configVars, limitVars, audit, req>>

-----------------------------------------------------------------------------
(* The handler of request r.                                               *)

\* ServeHTTP reads the configuration before it takes the mutex.
Arrive(r, key, route) ==
    /\ req[r].pc = "idle"
    /\ req' = [req EXCEPT ![r].pc = "server", ![r].cfg = active,
                          ![r].key = key, ![r].route = route]
    /\ UNCHANGED <<configVars, limitVars, audit, now>>

\* currentServer, under the mutex.  Without a compiled configuration each
\* request gets a server of its own.
Reusable(r) == req[r].cfg # 0 /\ current # 0 /\ built[current] = req[r].cfg

ReuseServer(r) ==
    /\ req[r].pc = "server"
    /\ Reusable(r)
    /\ req' = [req EXCEPT ![r].pc = "admit", ![r].srv = current]
    /\ UNCHANGED <<configVars, limitVars, audit, now>>

BuildServer(r) ==
    /\ req[r].pc = "server"
    /\ ~Reusable(r)
    /\ Len(built) < MaxServers
    /\ built' = Append(built, req[r].cfg)
    /\ current' = IF req[r].cfg = 0 THEN current ELSE Len(built) + 1
    /\ req' = [req EXCEPT ![r].pc = "admit", ![r].srv = Len(built) + 1]
    /\ UNCHANGED <<active, limitVars, audit, now>>

\* Route lookup and the part of AdmitProtectedRoute before the limiter: a
\* reason to refuse, or "".
AdmissionReason(cfg, key, route) ==
    IF route \notin cfg.routes THEN "unsupported_path"
    ELSE IF ~routeProtected(cfg, route) THEN ""
    ELSE IF authenticate(cfg, key) # "" THEN authenticate(cfg, key)
    ELSE IF ~hasPolicy(cfg, route) THEN "missing_limit_policy"
    ELSE IF ~audit THEN "audit_sink_unhealthy"
    ELSE ""

Admit(r) ==
    /\ req[r].pc = "admit"
    /\ LET reason == AdmissionReason(ConfigOf(r), req[r].key, req[r].route)
       IN  req' = [req EXCEPT ![r] =
               IF reason # "" THEN RefuseInput(@, reason)
               ELSE IF routeProtected(ConfigOf(r), @.route)
                    THEN [@ EXCEPT !.pc = "rate", !.at = now]
                    ELSE [@ EXCEPT !.pc = "infra"]]
    /\ UNCHANGED <<configVars, limitVars, audit, now>>

\* allowRate, under the limiter's mutex; the window opens at the caller's instant.
RateWindow(r) == rates[req[r].srv][KeyOf(r)]

\* Mutant: the window ends one unit early.
WindowOverEarly(r) ==
    \/ RateWindow(r).count = 0
    \/ req[r].at + 1 >= RateWindow(r).start + PolicyOf(r).window

WindowOver(r) ==
    \/ RateWindow(r).count = 0
    \/ req[r].at >= RateWindow(r).start + PolicyOf(r).window

allowRate(r) ==
    /\ req[r].pc = "rate"
    /\ WindowOver(r) \/ RateWindow(r).count < PolicyOf(r).requests
    /\ rates' = [rates EXCEPT ![req[r].srv][KeyOf(r)] =
           IF WindowOver(r) THEN [start |-> req[r].at, count |-> 1]
           ELSE [start |-> @.start, count |-> @.count + 1]]
    /\ req' = [req EXCEPT ![r].pc = "reserve", ![r].granted = TRUE]
    /\ UNCHANGED <<configVars, concurrency, holds, audit, now>>

RateRefused(r) ==
    /\ req[r].pc = "rate"
    /\ ~WindowOver(r) /\ RateWindow(r).count >= PolicyOf(r).requests
    /\ req' = [req EXCEPT ![r] = RefuseInput(@, "rate_limit_exceeded")]
    /\ UNCHANGED <<configVars, limitVars, audit, now>>

\* acquireConcurrency, under the limiter's mutex.

\* Mutant: refuses only above the limit.
CapacityLeftOneMore(r) ==
    concurrency[req[r].srv][KeyOf(r)] <= PolicyOf(r).concurrent

CapacityLeft(r) ==
    concurrency[req[r].srv][KeyOf(r)] < PolicyOf(r).concurrent

acquireConcurrency(r) ==
    /\ req[r].pc = "reserve"
    /\ CapacityLeft(r)
    /\ concurrency' = [concurrency EXCEPT ![req[r].srv][KeyOf(r)] = @ + 1]
    /\ holds' = [holds EXCEPT ![r] = {<<req[r].srv, KeyOf(r)>>}]
    /\ req' = [req EXCEPT ![r].pc = "body"]
    /\ UNCHANGED <<configVars, rates, audit, now>>

ConcurrencyRefused(r) ==
    /\ req[r].pc = "reserve"
    /\ ~CapacityLeft(r)
    /\ req' = [req EXCEPT ![r] = RefuseInput(@, "concurrency_limit_exceeded")]
    /\ UNCHANGED <<configVars, limitVars, audit, now>>

\* The deferred calls: release, which sync.Once makes idempotent.

\* Mutant: release without its sync.Once and floor, deferred twice.
ReleasedTwice(s, k, r) ==
    IF <<s, k>> \in holds[r] THEN concurrency[s][k] - 2 ELSE concurrency[s][k]

Released(s, k, r) ==
    IF <<s, k>> \notin holds[r] THEN concurrency[s][k]
    ELSE IF concurrency[s][k] <= 1 THEN 0 ELSE concurrency[s][k] - 1

Return(r) ==
    /\ req[r].pc = "return"
    /\ concurrency' = [s \in Servers |-> [k \in Keys |-> Released(s, k, r)]]
    /\ holds' = [holds EXCEPT ![r] = {}]
    /\ req' = [req EXCEPT ![r].pc = "done"]
    /\ UNCHANGED <<configVars, rates, audit, now>>

\* Everything between admission and the return, for this module's own runs.
Serve(r) ==
    /\ req[r].pc \in {"body", "infra"}
    /\ req' = [req EXCEPT ![r].pc = "return", ![r].answer.status = 200]
    /\ UNCHANGED <<configVars, limitVars, audit, now>>

Environment == Tick \/ AuditChanges \/ \E rev \in Revisions : Reload(rev)

AdmissionStep(r) ==
    \/ \E key \in Clients \cup {NoKey, BadKey}, route \in Routes : Arrive(r, key, route)
    \/ ReuseServer(r) \/ BuildServer(r) \/ Admit(r)
    \/ allowRate(r) \/ RateRefused(r)
    \/ acquireConcurrency(r) \/ ConcurrencyRefused(r)
    \/ Return(r)

AdmissionNext == Environment \/ \E r \in Requests : AdmissionStep(r) \/ Serve(r)
AdmissionSpec == AdmissionInit /\ [][AdmissionNext]_admissionVars

-----------------------------------------------------------------------------
(* Properties.                                                             *)

\* Type invariant of the admission state.
AdmissionTypeOK ==
    /\ active \in Revisions
    /\ built \in Seq(Revisions) /\ Len(built) <= MaxServers
    /\ current \in 0..Len(built)
    /\ rates \in [Servers -> [Keys -> [start : Nat, count : Nat]]]
    /\ concurrency \in [Servers -> [Keys -> Nat]]
    /\ holds \in [Requests -> SUBSET (Servers \X Keys)]
    /\ audit \in BOOLEAN
    /\ now \in 0..MaxNow
    /\ req \in [Requests -> Handler]
    /\ \A r \in Requests :
          /\ req[r].srv <= Len(built)
          /\ req[r].pc \notin {"idle", "server"} => req[r].srv # 0

Holders(s, k) == {r \in Requests : <<s, k>> \in holds[r]}

\* limitState.concurrency counts exactly the requests between their
\* acquireConcurrency and their release, on whatever path they leave, and
\* these never exceed the limit the server was built with (limits.go:136).
ReservationsWithinLimit ==
    \A s \in 1..Len(built), k \in Keys :
        /\ concurrency[s][k] = Cardinality(Holders(s, k))
        /\ Holders(s, k) # {} =>
              Cardinality(Holders(s, k)) <=
                  effectivePolicy(Config[built[s]], k).concurrent

\* Of the requests a server admitted, at most RequestsPerWindow carry an
\* instant inside the window that is open, although allowRate gets instants
\* read before its mutex and hence out of order (limits.go:103).
RateWithinWindow ==
    \A s \in 1..Len(built), k \in Keys :
        LET inWindow == {r \in Requests :
                /\ req[r].granted /\ req[r].srv = s /\ KeyOf(r) = k
                /\ req[r].at >= rates[s][k].start}
        IN  inWindow # {} =>
              Cardinality(inWindow) <= effectivePolicy(Config[built[s]], k).requests
=============================================================================
