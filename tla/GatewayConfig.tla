---------------------------- MODULE GatewayConfig ----------------------------
(***************************************************************************)
(* From the rows of the active revision to the configuration a gateway     *)
(* serves: the conversion of runtime/adapters/postgres, the compiler       *)
(* (gateway/adapters/runtimecompiler) and BuildConfig of                   *)
(* adapters/http/openai/gateway_config.go.                                 *)
(*                                                                         *)
(* c is the content of a revision (RevisionContents) and clients the       *)
(* external IDs in gateway_clients.  References become names here; one     *)
(* that does not resolve becomes "".                                       *)
(***************************************************************************)
EXTENDS RevisionContents, PolicyEvaluation

NameIn(table, id) == IF id \in IDsOf(table) THEN Name(id) ELSE ""
FirstNonEmpty(a, b) == IF a # "" THEN a ELSE b

-----------------------------------------------------------------------------
(* Conversion.                                                             *)

ConvertScope(c, s) ==
    [route |-> NameIn(c.routes, s.route), provider |-> NameIn(c.providers, s.provider),
     model |-> s.model, direction |-> s.direction]
NoScope == [route |-> "", provider |-> "", model |-> "", direction |-> ""]

\* A rule with several scopes becomes one rule per scope.
ConvertRule(c, rule) ==
    {[key |-> rule.key, enabled |-> rule.enabled, action |-> rule.action,
      detectors |-> rule.detectors, scope |-> s] :
        s \in IF rule.scopes = {} THEN {NoScope} ELSE {ConvertScope(c, t) : t \in rule.scopes}}

ConvertPolicyBundle(c, b) ==
    [key |-> b.key, action |-> FirstNonEmpty(b.action, "allow"),
     detectors |-> {d.key : d \in {e \in b.detectors : e.enabled}},
     rules |-> UNION {ConvertRule(c, r) : r \in {s \in b.rules : s.enabled}}]

ConvertPolicyBundles(c) ==
    {ConvertPolicyBundle(c, b) : b \in {a \in LoadBundles(c) : a.enabled}}

\* The mapping a route names itself; its source and target models are one here.
RouteModel(c, r) == UNION {{m.model} : m \in {n \in c.mappings : n.id = r.mapping}}
ConvertRoutes(c) ==
    {[key |-> Name(r.id), provider |-> r.provider, execution |-> r.execution,
      fallback |-> r.fallback, disabled |-> ~ r.enabled,
      models |-> IF RouteModel(c, r) = {}
                 THEN [requested |-> "", mapped |-> "", upstream |-> r.upstream]
                 ELSE LET m == CHOOSE m \in RouteModel(c, r) : TRUE
                      IN  [requested |-> m, mapped |-> m,
                           upstream |-> FirstNonEmpty(m, r.upstream)]] : r \in c.routes}

ConvertModelMappings(c) ==
    {[key |-> Name(m.id), route |-> m.routeKey, disabled |-> ~ m.enabled,
      provider |-> FirstNonEmpty(m.provider, NameIn(c.providers, m.target)),
      models |-> [requested |-> m.model, mapped |-> m.model, upstream |-> m.model]] :
        m \in c.mappings}

ConvertRouteLimits(c) ==
    {[route |-> NameIn(c.routes, l.route), disabled |-> ~ l.enabled] : l \in c.limits}

\* The client is a foreign key of gateway_clients, which are never deleted.
ConvertClientRouteLimitOverrides(c) ==
    {[client |-> o.client, route |-> NameIn(c.routes, o.route), disabled |-> ~ o.enabled] :
        o \in c.overrides}

ConvertRouteVerdictProviderBindings(c) ==
    {[route |-> NameIn(c.routes, b.route), provider |-> NameIn(c.verdictProviders, b.provider),
      disabled |-> ~ b.enabled, execution |-> b.execution, priority |-> b.priority] :
        b \in c.verdictBindings}

ConvertSinks(c) == {Name(s.id) : s \in {t \in c.sinks : t.enabled}}

\* All sinks are looked up, the disabled ones too.
ConvertRetentionPolicies(c) ==
    {[key |-> p.name, sink |-> NameIn(c.sinks, p.sink)] : p \in c.retention}

ConvertRawCapturePolicies(c) ==
    {[route |-> NameIn(c.routes, p.route), direction |-> p.direction, enabled |-> p.enabled] :
        p \in c.rawCapture}

-----------------------------------------------------------------------------
(* BuildConfig.                                                            *)

EnabledRouteKeys(c) == {r.key : r \in {s \in ConvertRoutes(c) : ~ s.disabled /\ s.key # ""}}

\* credential says whether the credential reference of a row, if any, resolves.
GatewayVerdictProviders(c) == {v \in c.verdictProviders : v.enabled /\ v.endpoint}
VerdictProviderKeys(c) == {Name(v.id) : v \in GatewayVerdictProviders(c)}

\* Sorted by priority, the first enabled binding of a route is taken; among
\* equal priorities the order is that of random row IDs.
FirstBindings(c, route) ==
    LET enabled == {b \in ConvertRouteVerdictProviderBindings(c) :
                        ~ b.disabled /\ b.route = route /\ route # ""}
    IN  {b \in enabled : \A d \in enabled : b.priority <= d.priority}
BoundRoutes(c) == {r \in {Name(x.id) : x \in c.routes} : FirstBindings(c, r) # {}}
BindingChoices(c) ==
    {f \in [BoundRoutes(c) -> ConvertRouteVerdictProviderBindings(c)] :
        \A r \in BoundRoutes(c) : f[r] \in FirstBindings(c, r)}

\* Without bindings the one enabled provider serves every route.
GlobalVerdictProvider(c, bindings) ==
    IF DOMAIN bindings = {} /\ VerdictProviderKeys(c) # {}
    THEN CHOOSE v \in VerdictProviderKeys(c) : TRUE ELSE ""

\* (Mutant: a limit whose route is unknown or disabled is skipped like a
\* disabled limit.)
SkipUnknownRouteLimits(c) ==
    {l.route : l \in {k \in ConvertRouteLimits(c) :
                        ~ k.disabled /\ k.route \in EnabledRouteKeys(c)}}
RouteLimitKeys(c) == {l.route : l \in {k \in ConvertRouteLimits(c) : ~ k.disabled}}

ClientOverrides(c) == {o \in ConvertClientRouteLimitOverrides(c) : ~ o.disabled}

ProtectedRouteKeys(c, clients) ==
    RouteLimitKeys(c) \union (IF clients # {} THEN EnabledRouteKeys(c) ELSE {})

ActiveMappings(c, route) ==
    {m \in ConvertModelMappings(c) : ~ m.disabled /\ m.route # "" /\ m.route = route}

GatewayRoute(c, clients, bindings, r) ==
    LET mapped == ActiveMappings(c, r.key)
        bound  == r.key \in DOMAIN bindings
    IN  [key       |-> r.key,
         models    |-> IF mapped = {} THEN r.models ELSE (CHOOSE m \in mapped : TRUE).models,
         provider  |-> IF mapped = {} THEN r.provider
                       ELSE FirstNonEmpty((CHOOSE m \in mapped : TRUE).provider, r.provider),
         verdict   |-> IF bound THEN bindings[r.key].provider ELSE "",
         execution |-> IF bound THEN FirstNonEmpty(bindings[r.key].execution, r.execution)
                       ELSE r.execution,
         fallback  |-> r.fallback,
         auth      |-> r.key \in ProtectedRouteKeys(c, clients)]

\* The errors of BuildConfig, each of which leaves the gateway with the
\* configuration it has.
Buildable(c, clients, bindings) ==
    /\ \A v \in GatewayVerdictProviders(c) : v.credential
    /\ \A r \in DOMAIN bindings : bindings[r].provider \in VerdictProviderKeys(c)
    /\ DOMAIN bindings = {} => Cardinality(VerdictProviderKeys(c)) <= 1
    /\ RouteLimitKeys(c) \subseteq EnabledRouteKeys(c)
    /\ \A o \in ClientOverrides(c) :
          o.client \in clients /\ o.route \in EnabledRouteKeys(c) \intersect RouteLimitKeys(c)
    /\ \A p \in c.providers : p.credential
    /\ \A r \in {m.route : m \in ConvertModelMappings(c)} : Cardinality(ActiveMappings(c, r)) <= 1

BuildConfig(c, clients, bindings) ==
    [providers |-> {Name(p.id) : p \in c.providers},
     verdicts  |-> VerdictProviderKeys(c),
     global    |-> GlobalVerdictProvider(c, bindings),
     routes    |-> {GatewayRoute(c, clients, bindings, r) :
                        r \in {s \in ConvertRoutes(c) : ~ s.disabled}},
     limits    |-> RouteLimitKeys(c),
     overrides |-> {<<o.client, o.route>> : o \in ClientOverrides(c)},
     capture   |-> ConvertRawCapturePolicies(c),
     clients   |-> clients,
     snapshot  |-> CompileSnapshot(ConvertPolicyBundles(c))]

\* CompileGatewayRuntime: the configurations a compilation may yield, none when
\* it fails; more than one only when bindings of a route have equal priorities.
CompileGatewayRuntime(c, clients) ==
    IF \A b \in ConvertPolicyBundles(c) : Compilable(b)
    THEN {BuildConfig(c, clients, f) : f \in {g \in BindingChoices(c) : Buildable(c, clients, g)}}
    ELSE {}

-----------------------------------------------------------------------------
(* Lookups in the configuration while it is served.                        *)

VerdictProviderFor(config, route) ==
    IF route.verdict # "" THEN route.verdict ELSE config.global

\* ModelMapping.Resolve: the model policy sees, none for another requested model.
ResolveModel(models, requested) ==
    IF models.requested # "" /\ models.requested # requested THEN {}
    ELSE {FirstNonEmpty(models.mapped, requested)}
=============================================================================
