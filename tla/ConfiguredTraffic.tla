-------------------------- MODULE ConfiguredTraffic --------------------------
(***************************************************************************)
(* What operators configure and what happens to traffic: control requests  *)
(* change a draft, an activation makes it the active revision, a reload    *)
(* compiles it, and exchanges are evaluated and redacted by it.            *)
(*                                                                         *)
(* Requests come one at a time here (RevisionStore has them overlap), and  *)
(* a reload is one step (RuntimeReload has it race).  An edit's            *)
(* transaction, clone included, commits or leaves everything as it was.    *)
(***************************************************************************)
EXTENDS GatewayConfig, TextRedaction

CONSTANTS
    Seed,           \* the content of revision 1
    Clients,        \* external IDs in gateway_clients
    Bundles, Mappings, VerdictProviders, Limits, Overrides,
                    \* what the control requests submit
    ActivationKeys, \* the sets of bundle keys they activate
    Models,         \* the models requests name
    Matches,        \* what the detectors may find in a text
    Verdicts,       \* what a verdict provider may answer
    TextLengths,    \* the lengths of the texts in a body
    Runes,          \* the bytes of the joined text that start a rune
    MaxEdits        \* bound: edits

\* Revision 1 is the first, so its references are to its own rows; the requests
\* are what the JSON of a request can hold.
ASSUME TrafficAssumption ==
    /\ Seed \in Contents(1) /\ ForeignKeys(Seed) /\ UniqueNames(Seed)
    /\ MaxEdits \in Nat
    /\ Bundles \subseteq
         [key : STRING, action : STRING, detectors : SUBSET STRING,
          rules : SUBSET [key : STRING, enabled : BOOLEAN, action : STRING,
                          detectors : SUBSET STRING,
                          scope : [route : STRING, provider : STRING, model : STRING,
                                   direction : STRING]]]
    /\ Mappings \subseteq [key : STRING, model : STRING, routeKey : STRING, provider : STRING,
                           enabled : BOOLEAN]
    /\ VerdictProviders \subseteq [id : STRING, name : STRING, endpoint : BOOLEAN,
                                   enabled : BOOLEAN, credential : BOOLEAN]
    /\ Limits \subseteq [route : STRING, enabled : BOOLEAN]
    /\ Overrides \subseteq [client : STRING, route : STRING, enabled : BOOLEAN]

\* Detectors and verdict providers may answer any byte ranges.
ASSUME TextAssumption ==
    /\ \A m \in Matches : \A d \in DOMAIN m : m[d] \in SUBSET (Int \X Int)
    /\ \A v \in Verdicts : v.spans \in SUBSET (Int \X Int)
    /\ TextLengths \in Seq(Nat)

VARIABLES
    active,     \* the active revision: its number and its rows
    draft,      \* the draft, as a set of at most one revision
    edits,      \* edits made
    served,     \* the configuration the gateway serves and the rows it is from,
                \* as a set that is empty before the first reload
    exchange    \* the exchange last evaluated, as a set of at most one

vars == <<active, draft, edits, served, exchange>>

TypeOK ==
    /\ Whole(active.rows) /\ active.rev \in 1..(MaxEdits + 1)
    /\ Cardinality(draft) <= 1 /\ \A d \in draft : d.rev = active.rev + 1 /\ Whole(d.rows)
    /\ edits \in 0..MaxEdits
    /\ Cardinality(served) <= 1 /\ Cardinality(exchange) <= 1
    /\ \A x \in exchange : ValidAction(x.action)

Init ==
    /\ active = [rev |-> 1, rows |-> Seed]
    /\ draft = {}
    /\ edits = 0
    /\ served = {}
    /\ exchange = {}

-----------------------------------------------------------------------------
(* Control requests.                                                       *)

CurrentRows == IF draft = {} THEN active.rows ELSE (CHOOSE d \in draft : TRUE).rows

\* ensureDraftRevision: the draft there is, or a clone of the active revision
\* unless the clone fails.
\* (Mutant: the errors of the clone are ignored.)
DraftsWhatever ==
    IF draft # {} THEN draft
    ELSE {[rev |-> active.rev + 1, rows |-> CloneActive(active.rows, active.rev + 1)]}
Drafts ==
    IF draft # {} THEN draft
    ELSE {d \in {[rev |-> active.rev + 1, rows |-> CloneActive(active.rows, active.rev + 1)]} :
            Whole(d.rows)}

\* The edit leaves one of the contents in the draft.
WithDraftRevision(d, contents) ==
    /\ edits < MaxEdits /\ edits' = edits + 1
    /\ \E rows \in contents : draft' = {[rev |-> d.rev, rows |-> rows]}
    /\ exchange' = {}
    /\ UNCHANGED <<active, served>>

\* optionalIDByName.
OptionalIDs(table, name) == IF name = "" THEN {NoID} ELSE IDsOf(Named(table, name))

\* policyBundleToPostgres: every scope's names are looked up in the given rows.
ScopeIDs(rows, scope) ==
    {[route |-> x[1], provider |-> x[2], model |-> scope.model, direction |-> scope.direction] :
        x \in OptionalIDs(rows.routes, scope.route) \X OptionalIDs(rows.providers, scope.provider)}
PolicyBundleToPostgres(rows, b) ==
    [b EXCEPT !.rules =
        {[key |-> r.key, enabled |-> r.enabled, action |-> r.action, detectors |-> r.detectors,
          scopes |-> IF r.scope = NoScope THEN {} ELSE ScopeIDs(rows, r.scope)] : r \in @}]

\* PolicyBundle.Validate: of the disabled rules too.
Validate(b) ==
    /\ ValidAction(b.action)
    /\ \A r \in b.rules : ValidAction(r.action) /\ r.scope.direction \in {"", "input", "output"}

\* CreatePolicyBundle: the bundle must be valid and compile by itself, and the
\* names in its scopes are resolved in the current revision before there is a
\* draft.
CreatePolicyBundle(b) ==
    /\ Validate(b) /\ Compilable(b)
    /\ \A r \in b.rules : r.scope = NoScope \/ ScopeIDs(CurrentRows, r.scope) # {}
    /\ \E d \in Drafts :
          WithDraftRevision(d, UpsertBundle(d.rows, d.rev, PolicyBundleToPostgres(CurrentRows, b)))

PutModelMapping(m) ==
    \E d \in Drafts : WithDraftRevision(d, UpsertModelMapping(d.rows, d.rev, m))

\* A verdict provider is filed under the name in the request, which need not be
\* the ID of the path, and read back with that name as its ID.
Filed(v) == LET name == FirstNonEmpty(v.name, v.id) IN [v EXCEPT !.id = name, !.name = name]
PutVerdictProvider(v) ==
    \E d \in Drafts : WithDraftRevision(d, {UpsertVerdictProvider(d.rows, d.rev, Filed(v))})

\* requiredIDByName in the current revision; the draft looks the route up again.
PutRouteLimit(l) ==
    \E route \in IDsOf(Named(CurrentRows.routes, l.route)), d \in Drafts :
        WithDraftRevision(d, UpsertRoutePolicy(d.rows, route, l.enabled))

PutClientRouteLimit(o) ==
    /\ o.client \in Clients
    /\ \E route \in IDsOf(Named(CurrentRows.routes, o.route)), d \in Drafts :
          WithDraftRevision(d, UpsertClientRouteOverride(d.rows, o.client, route, o.enabled))

DeleteClientRouteLimit(o) ==
    /\ o.client \in Clients
    /\ \E route \in IDsOf(Named(CurrentRows.routes, o.route)), d \in Drafts :
          WithDraftRevision(d, DeleteClientRouteOverride(d.rows, o.client, route))

\* ActivatePolicyBundles: the requested bundles must exist, and exactly they are
\* enabled.
ActivatePolicyBundles(keys) ==
    /\ \E d \in draft :
          /\ {b.key : b \in LoadBundlesByKeys(d.rows, keys)} = keys
          /\ active' = [rev |-> d.rev, rows |-> UpdateDraftBundleActivation(d.rows, keys)]
    /\ draft' = {} /\ exchange' = {}
    /\ UNCHANGED <<edits, served>>

-----------------------------------------------------------------------------
(* The gateway.                                                            *)

\* Reload: a configuration that does not compile leaves the one that is served.
Reload ==
    /\ \E config \in CompileGatewayRuntime(active.rows, Clients) :
          served' = {[rows |-> active.rows, config |-> config]}
    /\ exchange' = {}
    /\ UNCHANGED <<active, draft, edits>>

Texts == Segments(TextLengths)
Originals == [i \in DOMAIN Texts |-> Texts[i].text]

\* What becomes of a text for which policy decided so: blocked, redacted or
\* refused because it cannot be redacted, or passed on as it is.
Enforce(action, spans) ==
    LET redaction == RedactSegments(Texts, spans, Runes)
    IN  CASE action = "block" -> [result |-> "blocked", texts |-> <<>>]
          [] action = "redact" -> IF RedactionAllowed(redaction, Texts)
                                  THEN [result |-> "redacted", texts |-> redaction.texts]
                                  ELSE [result |-> "refused", texts |-> <<>>]
          [] OTHER -> [result |-> "passed", texts |-> Originals]

\* One direction of an exchange on a served route whose provider exists.
EvaluateExchange(route, model, direction, match, verdict) ==
    \E s \in served :
        LET req == [route |-> route.key, provider |-> route.provider, model |-> model,
                    direction |-> direction]
            hasProvider == VerdictProviderFor(s.config, route) # ""
            decision == EvaluateTraffic(s.config.snapshot, req, match, route, hasProvider, verdict)
            enforced == Enforce(decision.action,
                                decision.findings \union MatchedSpans(route, hasProvider, verdict))
        IN  /\ exchange = {}
            /\ route.provider \in s.config.providers
            /\ exchange' = {[req |-> req, match |-> match, verdict |-> verdict,
                             action |-> decision.action, result |-> enforced.result,
                             texts |-> enforced.texts,
                             shadow |-> IF route.execution = "async_shadow" /\ hasProvider
                                        THEN EvaluateShadow(s.config.snapshot, req, match, route,
                                                            verdict).action
                                        ELSE ""]}
            /\ UNCHANGED <<active, draft, edits, served>>

EvaluateSome ==
    \E s \in served : \E route \in s.config.routes, requested \in Models :
        \E model \in ResolveModel(route.models, requested),
           direction \in {"input", "output"}, match \in Matches, verdict \in Verdicts :
            EvaluateExchange(route, model, direction, match, verdict)

ExchangeEnds == exchange # {} /\ exchange' = {} /\ UNCHANGED <<active, draft, edits, served>>

Next ==
    \/ \E b \in Bundles : CreatePolicyBundle(b)
    \/ \E m \in Mappings : PutModelMapping(m)
    \/ \E v \in VerdictProviders : PutVerdictProvider(v)
    \/ \E l \in Limits : PutRouteLimit(l)
    \/ \E o \in Overrides : PutClientRouteLimit(o) \/ DeleteClientRouteLimit(o)
    \/ \E keys \in ActivationKeys : ActivatePolicyBundles(keys)
    \/ Reload
    \/ EvaluateSome
    \/ ExchangeEnds

Spec == Init /\ [][Next]_vars

-----------------------------------------------------------------------------
(* Properties.                                                             *)

\* Every reference of a row names a row of the same revision.
Intact(rows) ==
    \A s \in rows.ruleScopes : /\ s.route \in IDsOf(rows.routes) \union {NoID}
                               /\ s.provider \in IDsOf(rows.providers) \union {NoID}

\* A draft starts as an exact copy: if it were activated at once, the gateway
\* would serve what it served before, and nothing but a reference into another
\* revision keeps it from being made (revision_clone_orchestration.go).
CloneServesTheSame ==
    LET clone == CloneActive(active.rows, active.rev + 1)
    IN  /\ Intact(active.rows) => Whole(clone)
        /\ Whole(clone) =>
            /\ CompileGatewayRuntime(clone, Clients) = CompileGatewayRuntime(active.rows, Clients)
            /\ ConvertSinks(clone) = ConvertSinks(active.rows)
            /\ ConvertRetentionPolicies(clone) = ConvertRetentionPolicies(active.rows)

\* What ControlMemory keeps, told from the rows of the revision that requests
\* work on; activeBundleKeys are those of the active one.  The references of a
\* scope are looked up in that revision, and one of another revision is told "".
StoredBundles(rows) ==
    {[key |-> b.key, action |-> b.action, detectors |-> {d.key : d \in b.detectors},
      rules |-> {[r EXCEPT !.scopes = {ConvertScope(rows, s) : s \in @}] : r \in b.rules}] :
        b \in LoadBundles(rows)}
Submitted(b) ==
    [b EXCEPT !.rules =
        {[key |-> r.key, enabled |-> r.enabled, action |-> r.action, detectors |-> r.detectors,
          scopes |-> {r.scope} \ {NoScope}] : r \in b.rules}]
Forgotten(b) ==
    LET kept == Submitted(b)
    IN  [kept EXCEPT !.rules =
            {[r EXCEPT !.scopes = {[s EXCEPT !.route = "", !.provider = ""] : s \in @}] : r \in @}]

Memory == INSTANCE ControlMemory WITH
    BundleRequests <- {Submitted(b) : b \in Bundles}, MappingRequests <- Mappings,
    VerdictProviderRequests <- VerdictProviders, ClientRequests <- {},
    LimitRequests <- Limits, OverrideRequests <- Overrides, ActivationRequests <- ActivationKeys,
    bundles <- StoredBundles(CurrentRows),
    activeBundleKeys <- {Name(b.id) : b \in {a \in active.rows.bundles : a.enabled}},
    modelMappings <- {[key |-> Name(m.id), model |-> m.model, routeKey |-> m.routeKey,
                       provider |-> m.provider, enabled |-> m.enabled] : m \in CurrentRows.mappings},
    verdictProviders <- {[id |-> Name(v.id), name |-> Name(v.id), endpoint |-> v.endpoint,
                          enabled |-> v.enabled, credential |-> v.credential] :
                            v \in CurrentRows.verdictProviders},
    gatewayClients <- {[id |-> c] : c \in Clients},
    routeLimits <- {[route |-> Name(l.route), enabled |-> l.enabled] : l \in CurrentRows.limits},
    clientRouteLimits <- {[client |-> o.client, route |-> Name(o.route), enabled |-> o.enabled] :
                            o \in CurrentRows.overrides}

\* Where the database differs from memory.go: a bundle that makes the draft keeps
\* no route or provider of its scopes (postgres_policy_adapter.go), and a verdict
\* provider is kept under its name, not its ID (postgres_verdict_adapter.go).
ScopeForgotten ==
    /\ draft = {}
    /\ \E b \in Bundles : /\ \E r \in b.rules : r.scope.route # "" \/ r.scope.provider # ""
                          /\ Memory!CreatePolicyBundle(Forgotten(b))
FiledByName ==
    \E v \in VerdictProviders : Filed(v) # v /\ Memory!PutVerdictProvider(Filed(v))

\* The database with its drafts, clones and activations does what the in-memory
\* repository does but in these two cases: a request changes no other record than
\* the one it names (or, for a verdict provider, the one of its name), and no
\* clone loses or alters one (memory.go, revision_clone_orchestration.go).
ImplementsMemory ==
    [][Memory!MemoryNext \/ ScopeForgotten \/ FiledByName]_(Memory!memoryVars)

\* The rules an operator would expect to apply, told from the rows alone.
ScopeCovers(rows, s, req) ==
    /\ s.route = NoID \/ Name(s.route) = req.route
    /\ s.provider = NoID \/ Name(s.provider) = req.provider
    /\ s.model \in {"", req.model}
    /\ s.direction = "both" \/ s.direction = StorageDirection(req.direction)
FoundBy(rows, rule, match) ==
    UNION {FoundIn(match, <<x.detector[2], x.detector[3]>>) :
              x \in {y \in rows.ruleDetectors : y.rule = rule.id}}
RulesThatApply(rows, x) ==
    {r \in rows.rules :
        /\ r.enabled
        /\ \E b \in rows.bundles : b.id = r.bundle /\ b.enabled
        /\ FoundBy(rows, r, x.match) # {}
        /\ \/ \A s \in rows.ruleScopes : s.rule # r.id
           \/ \E s \in rows.ruleScopes : s.rule = r.id /\ ScopeCovers(rows, s, x.req)}

\* What the verdict adds: nothing on a shadowed route or without a provider, and
\* the route's fallback when the provider failed.
VerdictAsks(s, x) ==
    LET route == CHOOSE r \in s.config.routes : r.key = x.req.route
    IN  IF route.execution = "async_shadow" \/ VerdictProviderFor(s.config, route) = "" THEN {}
        ELSE IF ~ (x.verdict.failed \/ x.verdict.fallbackUsed)
             THEN {x.verdict.action} \intersect Actions
             ELSE IF route.fallback \in Actions THEN {route.fallback}
                  ELSE IF x.verdict.failed THEN {"block"} ELSE {}

ExpectedAction(s, x) ==
    Strictest({"allow"} \union {b.action : b \in {a \in s.rows.bundles : a.enabled}}
                \union {r.action : r \in RulesThatApply(s.rows, x)} \union VerdictAsks(s, x))

\* No two detectors are cached under one key, and no route or provider is named
\* "", which a rule's scope could not tell from any.
ToldApart(rows) ==
    /\ \A x, y \in rows.ruleDetectors :
          CacheKey(x.detector[2], x.detector[3]) = CacheKey(y.detector[2], y.detector[3])
              => x.detector = y.detector
    /\ \A x \in rows.routes \union rows.providers : Name(x.id) # ""

\* End to end: the action of an exchange is the strictest that the active
\* bundles' defaults, their matching rules and the verdict ask for, whatever
\* clones, activations and failed verdicts came before (snapshot.go).
DecisionIsStrictest ==
    \A s \in served, x \in exchange :
        Intact(s.rows) /\ ToldApart(s.rows) => x.action = ExpectedAction(s, x)

\* A text without these bytes.
Without(text, bytes) ==
    LET upTo[i \in 0..Len(text)] ==
            IF i = 0 THEN <<>>
            ELSE IF text[i] \in bytes THEN upTo[i - 1] ELSE Append(upTo[i - 1], text[i])
    IN  upTo[Len(text)]

\* Exactly the bytes that a matching rule or the verdict points at are gone from
\* a redacted body, in whichever of its texts they lie (redaction.go).
RedactsExactly ==
    \A s \in served, x \in exchange :
        LET route == CHOOSE r \in s.config.routes : r.key = x.req.route
            spans == (UNION {FoundBy(s.rows, r, x.match) : r \in RulesThatApply(s.rows, x)})
                        \union MatchedSpans(route, VerdictProviderFor(s.config, route) # "", x.verdict)
            unsafe == UNION {p[1] .. (p[2] - 1) : p \in spans}
        IN  Intact(s.rows) /\ ToldApart(s.rows) /\ x.result = "redacted" =>
                \A i \in DOMAIN Texts :
                    Without(x.texts[i], {Token}) = Without(Originals[i], unsafe)

\* An enabled limit of the served revision is in force on a route that demands a
\* client; it is never left out for want of its route (gateway_config.go).
LimitsAreServed ==
    \A s \in served :
        /\ \A l \in s.rows.limits : l.enabled =>
              \E r \in s.config.routes : r.key = Name(l.route) /\ r.auth /\ r.key \in s.config.limits
        /\ \A o \in s.rows.overrides : o.enabled =>
              <<o.client, Name(o.route)>> \in s.config.overrides

\* A rule stored for one route is served for that route, not for all of them.
ScopeKept ==
    \A s \in served : \A scope \in s.rows.ruleScopes :
        scope.route # NoID => ConvertScope(s.rows, scope).route = Name(scope.route)
=============================================================================
