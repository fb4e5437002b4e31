-------------------------- MODULE PolicyEvaluation --------------------------
(***************************************************************************)
(* The compiled policy snapshot and the evaluation of traffic against it   *)
(* (policy/domain/snapshot.go, gateway/application/traffic_evaluation.go,  *)
(* the evaluator of gateway/application/usecases.go).                      *)
(*                                                                         *)
(* What the detectors find in a text is an input, match: for each          *)
(* <<bundle, detector>> that finds something, the set of byte ranges       *)
(* <<start, end>>.  An action that routing does not know becomes "".       *)
(***************************************************************************)
EXTENDS Integers, Sequences, FiniteSets

ActionPriorities == [allow |-> 0, shadow_log |-> 1, redact |-> 2, block |-> 3]
Actions == DOMAIN ActionPriorities
ValidAction(a) == a \in Actions
ActionPriority(a) == IF ValidAction(a) THEN ActionPriorities[a] ELSE 0

\* Folding higherPriority over the actions, in any order.
Strictest(S) == CHOOSE a \in S : \A b \in S : ActionPriority(b) <= ActionPriority(a)

-----------------------------------------------------------------------------
(* Compiling.                                                              *)

ActiveRules(bundle) == {r \in bundle.rules : r.enabled}

Compilable(bundle) ==
    /\ bundle.key # "" /\ ValidAction(bundle.action)
    /\ \A r \in ActiveRules(bundle) :
          r.key # "" /\ ValidAction(r.action) /\ r.detectors \subseteq bundle.detectors

\* The key a detector's findings are cached under in one evaluation.
CacheKey(bundle, detector) == bundle \o "/" \o detector

CompiledRules(bundle) ==
    {[bundle |-> bundle.key, action |-> r.action, scope |-> r.scope,
      detectors |-> {<<bundle.key, d>> : d \in r.detectors}] : r \in ActiveRules(bundle)}

CompileSnapshot(bundles) ==
    [default |-> Strictest({"allow"} \union {b.action : b \in bundles}),
     rules   |-> UNION {CompiledRules(b) : b \in bundles}]

-----------------------------------------------------------------------------
(* Evaluating.                                                             *)

ScopeValues(value) == {value, ""}

\* forEachCandidateRule: the index is asked for every combination of the
\* request's value and the wildcard.
CandidateRules(s, req) ==
    {r \in s.rules :
        /\ r.scope.route \in ScopeValues(req.route)
        /\ r.scope.provider \in ScopeValues(req.provider)
        /\ r.scope.model \in ScopeValues(req.model)
        /\ r.scope.direction \in ScopeValues(req.direction)}

MatchesScope(scope, req) ==
    \A field \in {"route", "provider", "model", "direction"} :
        scope[field] # "" => scope[field] = req[field]

FoundIn(match, d) == IF d \in DOMAIN match THEN match[d] ELSE {}

\* Detectors that share a cache key share the findings of the first one asked.
Cached(s, d, match) ==
    LET sharing == {e \in UNION {r.detectors : r \in s.rules} :
                        CacheKey(e[1], e[2]) = CacheKey(d[1], d[2])}
    IN  FoundIn(match, CHOOSE e \in sharing : TRUE)

\* (Mutant: every detector of the rule has to find something.)
MatchAllDetectors(s, rule, match) ==
    IF \A d \in rule.detectors : Cached(s, d, match) # {}
    THEN UNION {Cached(s, d, match) : d \in rule.detectors} ELSE {}
MatchRule(s, rule, match) == UNION {Cached(s, d, match) : d \in rule.detectors}

RuleHits(s, req, match) ==
    {r \in CandidateRules(s, req) : MatchesScope(r.scope, req) /\ MatchRule(s, r, match) # {}}

\* Snapshot.Evaluate.
Evaluate(s, req, match, signal) ==
    LET hits    == RuleHits(s, req, match)
        local   == Strictest({s.default} \union {r.action : r \in hits})
        model   == IF signal.fallbackUsed THEN signal.fallback ELSE signal.action
        applied == ValidAction(model) /\ ActionPriority(model) > ActionPriority(local)
    IN  [action |-> IF applied THEN model ELSE local,
         findings |-> UNION {MatchRule(s, r, match) : r \in hits}]

-----------------------------------------------------------------------------
(* The verdict of a model, and both together.                              *)

NoSignal == [action |-> "", fallbackUsed |-> FALSE, fallback |-> ""]
PolicyAction(a) == IF a \in Actions THEN a ELSE ""

\* ModelSignalFromVerdict: an error of the provider, a timeout included,
\* selects the route's fallback, and without one the request is blocked.
ModelSignalFromVerdict(verdict, fallback) ==
    [action       |-> PolicyAction(verdict.action),
     fallbackUsed |-> verdict.failed \/ verdict.fallbackUsed,
     fallback     |-> IF verdict.failed /\ PolicyAction(fallback) = ""
                      THEN "block" ELSE PolicyAction(fallback)]

\* PolicyEvaluator.Evaluate fills in the fallback of the route.
EvaluatePolicy(s, req, match, signal, fallback) ==
    Evaluate(s, req, match,
             IF signal.fallback = ""
             THEN [signal EXCEPT !.fallback = PolicyAction(fallback)] ELSE signal)

\* TrafficEvaluationUseCase.Evaluate: an inline route asks its verdict provider
\* first; on an async_shadow route policy alone decides.
EvaluateTraffic(s, req, match, route, hasProvider, verdict) ==
    LET signal == IF route.execution # "async_shadow" /\ hasProvider
                  THEN ModelSignalFromVerdict(verdict, route.fallback) ELSE NoSignal
    IN  EvaluatePolicy(s, req, match, signal, route.fallback)

\* startAsyncShadow: what the shadow evaluation reports and never enforces.
EvaluateShadow(s, req, match, route, verdict) ==
    EvaluatePolicy(s, req, match, ModelSignalFromVerdict(verdict, route.fallback), route.fallback)

\* The byte ranges a redaction removes besides the findings.
MatchedSpans(route, hasProvider, verdict) ==
    IF route.execution # "async_shadow" /\ hasProvider /\ ~ verdict.failed
    THEN verdict.spans ELSE {}
=============================================================================
