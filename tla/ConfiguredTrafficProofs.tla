----------------------- MODULE ConfiguredTrafficProofs -----------------------
(***************************************************************************)
(* Proofs about ConfiguredTraffic: every enabled limit of the served       *)
(* revision is in force (LimitsServed), the control requests keep the      *)
(* schema, the foreign keys and the unique names of every revision         *)
(* (RowsConsistent), a draft starts as an exact copy of the active         *)
(* revision (CloneServes), the action of an exchange is the strictest that *)
(* the rows and the verdict ask for (DecisionStrictest), a redacted body   *)
(* has lost exactly the bytes they point at (RedactionExact), and the      *)
(* revisions implement the in-memory repository but in two named cases     *)
(***************************************************************************)
EXTENDS ConfiguredTraffic, FiniteSetTheorems, SequenceTheorems, WellFoundedInduction, TLAPS

-----------------------------------------------------------------------------
(* The served configuration is a compilation of its rows.                  *)

\* Reload serves a compilation of the rows it keeps beside it.
ServedIsCompiled ==
    \A s \in served : s.config \in CompileGatewayRuntime(s.rows, Clients)

\* An edit of the draft leaves the active revision and what is served.
LEMMA EditServes ==
    ASSUME NEW d, NEW contents, WithDraftRevision(d, contents)
    PROVE  UNCHANGED <<active, served>>
BY DEF WithDraftRevision

\* An evaluation changes nothing but the exchange.
LEMMA EvaluationServes ==
    ASSUME EvaluateSome
    PROVE  UNCHANGED <<active, draft, edits, served>>
<1>1. ASSUME NEW route, NEW model, NEW direction, NEW match, NEW verdict,
             EvaluateExchange(route, model, direction, match, verdict)
      PROVE  UNCHANGED <<active, draft, edits, served>>
  BY <1>1, Zenon DEF EvaluateExchange
<1> QED
  BY <1>1, Zenon DEF EvaluateSome

\* What is served changes only in Reload, to a compilation of the active rows.
LEMMA NextServed ==
    ASSUME [Next]_vars
    PROVE  \/ served' = served
           \/ \E config \in CompileGatewayRuntime(active.rows, Clients) :
                 served' = {[rows |-> active.rows, config |-> config]}
<1>1. ASSUME NEW b \in Bundles, CreatePolicyBundle(b) PROVE served' = served
  BY <1>1, EditServes DEF CreatePolicyBundle
<1>2. ASSUME NEW m \in Mappings, PutModelMapping(m) PROVE served' = served
  BY <1>2, EditServes DEF PutModelMapping
<1>3. ASSUME NEW v \in VerdictProviders, PutVerdictProvider(v) PROVE served' = served
  BY <1>3, EditServes DEF PutVerdictProvider
<1>4. ASSUME NEW l \in Limits, PutRouteLimit(l) PROVE served' = served
  BY <1>4, EditServes DEF PutRouteLimit
<1>5. ASSUME NEW o \in Overrides, PutClientRouteLimit(o) \/ DeleteClientRouteLimit(o)
      PROVE  served' = served
  BY <1>5, EditServes DEF PutClientRouteLimit, DeleteClientRouteLimit
<1>6. ASSUME NEW keys \in ActivationKeys, ActivatePolicyBundles(keys) PROVE served' = served
  BY <1>6 DEF ActivatePolicyBundles
<1>7. CASE Reload
  BY <1>7 DEF Reload
<1>8. CASE EvaluateSome
  BY <1>8, EvaluationServes
<1>9. CASE ExchangeEnds
  BY <1>9 DEF ExchangeEnds
<1>10. CASE UNCHANGED vars
  BY <1>10 DEF vars
<1> QED
  BY <1>1, <1>2, <1>3, <1>4, <1>5, <1>6, <1>7, <1>8, <1>9, <1>10 DEF Next

\* ServedIsCompiled is an invariant.
LEMMA ServedCompiled == Spec => []ServedIsCompiled
<1>1. Init => ServedIsCompiled
  BY DEF Init, ServedIsCompiled
<1>2. ServedIsCompiled /\ [Next]_vars => ServedIsCompiled'
  <2> SUFFICES ASSUME ServedIsCompiled, [Next]_vars PROVE ServedIsCompiled'
    OBVIOUS
  <2>1. CASE served' = served
    BY <2>1 DEF ServedIsCompiled
  <2>2. ASSUME NEW config \in CompileGatewayRuntime(active.rows, Clients),
               served' = {[rows |-> active.rows, config |-> config]}
        PROVE  ServedIsCompiled'
    BY <2>2 DEF ServedIsCompiled
  <2> QED
    BY <2>1, <2>2, NextServed
<1> QED
  BY <1>1, <1>2, PTL DEF Spec

\* CompileGatewayRuntime yields BuildConfig of compilable bundles and a choice
\* of bindings that passes the checks of BuildConfig.
LEMMA CompiledFrom ==
    ASSUME NEW c, NEW clients, NEW config \in CompileGatewayRuntime(c, clients)
    PROVE  /\ \A b \in ConvertPolicyBundles(c) : Compilable(b)
           /\ \E f \in BindingChoices(c) :
                 Buildable(c, clients, f) /\ config = BuildConfig(c, clients, f)
BY DEF CompileGatewayRuntime

\* BuildConfig refuses an enabled limit or override whose route it does not serve,
\* so a configuration that compiled has them all (gateway_config.go).
LEMMA CompiledLimits ==
    ASSUME NEW c, NEW clients, NEW config \in CompileGatewayRuntime(c, clients)
    PROVE  /\ \A l \in c.limits : l.enabled =>
                  \E r \in config.routes :
                     r.key = Name(l.route) /\ r.auth /\ r.key \in config.limits
           /\ \A o \in c.overrides :
                  /\ o.enabled => <<o.client, Name(o.route)>> \in config.overrides
<1>1. PICK f \in BindingChoices(c) :
          Buildable(c, clients, f) /\ config = BuildConfig(c, clients, f)
  BY CompiledFrom
<1>2. /\ config.routes = {GatewayRoute(c, clients, f, r) :
                              r \in {s \in ConvertRoutes(c) : ~ s.disabled}}
      /\ config.limits = RouteLimitKeys(c)
      /\ config.overrides = {<<o.client, o.route>> : o \in ClientOverrides(c)}
  BY <1>1 DEF BuildConfig
<1>3. \A key \in EnabledRouteKeys(c) :
          key # "" /\ \E s \in ConvertRoutes(c) : ~ s.disabled /\ s.key = key
  BY DEF EnabledRouteKeys
<1>4. \A id : NameIn(c.routes, id) # "" => NameIn(c.routes, id) = Name(id)
  BY DEF NameIn
<1>5. ASSUME NEW l \in c.limits, l.enabled
      PROVE  \E r \in config.routes : r.key = Name(l.route) /\ r.auth /\ r.key \in config.limits
  <2>1. PICK key : key = NameIn(c.routes, l.route)
    OBVIOUS
  <2>2. key \in RouteLimitKeys(c)
    <3>1. PICK x : x = [route |-> NameIn(c.routes, l.route), disabled |-> ~ l.enabled]
      OBVIOUS
    <3>2. x \in ConvertRouteLimits(c)
      BY <3>1 DEF ConvertRouteLimits
    <3>3. x.route = key /\ ~ x.disabled
      BY <2>1, <3>1, <1>5
    <3> QED
      BY <3>2, <3>3 DEF RouteLimitKeys
  <2>3. key \in EnabledRouteKeys(c)
    BY <1>1, <2>2 DEF Buildable
  <2>4. PICK s \in ConvertRoutes(c) : ~ s.disabled /\ s.key = key
    BY <1>3, <2>3
  <2>5. GatewayRoute(c, clients, f, s) \in config.routes
    BY <1>2, <2>4
  <2>6. /\ GatewayRoute(c, clients, f, s).key = key
        /\ GatewayRoute(c, clients, f, s).auth = (key \in ProtectedRouteKeys(c, clients))
    BY <2>4 DEF GatewayRoute
  <2>7. key \in ProtectedRouteKeys(c, clients)
    BY <2>2 DEF ProtectedRouteKeys
  <2> QED
    BY <1>2, <1>3, <1>4, <2>1, <2>2, <2>3, <2>5, <2>6, <2>7
<1>6. ASSUME NEW o \in c.overrides, o.enabled
      PROVE  <<o.client, Name(o.route)>> \in config.overrides
  <2>1. PICK x : x = [client |-> o.client, route |-> NameIn(c.routes, o.route),
                      disabled |-> ~ o.enabled]
    OBVIOUS
  <2>2. x \in ClientOverrides(c)
    BY <1>6, <2>1 DEF ClientOverrides, ConvertClientRouteLimitOverrides
  <2>3. x.route \in EnabledRouteKeys(c)
    BY <1>1, <2>2 DEF Buildable
  <2>4. x.route = Name(o.route) /\ x.client = o.client
    BY <1>3, <1>4, <2>1, <2>3
  <2> QED
    BY <1>2, <2>2, <2>4
<1> QED
  BY <1>5, <1>6

\* An enabled limit of the served revision is in force on a route that demands a
\* client, and so is an enabled override, for every content, every sequence of
\* control requests and every reload (gateway_config.go).
THEOREM LimitsServed == Spec => []LimitsAreServed
<1>1. ServedIsCompiled => LimitsAreServed
  BY CompiledLimits DEF ServedIsCompiled, LimitsAreServed
<1> QED
  BY <1>1, ServedCompiled, PTL

-----------------------------------------------------------------------------
(* The IDs of copied rows.                                                *)

\* The ID of the copy of a row, and of a reference to one.
Moved(id, rev) == [id EXCEPT ![1] = rev]
MovedRef(id, rev) == IF id = NoID THEN NoID ELSE Moved(id, rev)

\* The ID of a row and of its copy: same name, other revision.
LEMMA RowID ==
    ASSUME NEW rev, NEW id \in Rows(rev), NEW d
    PROVE  /\ id = <<rev, id[2]>> /\ id[2] \in STRING /\ Name(id) = id[2]
           /\ Moved(id, d) = <<d, id[2]>>
           /\ Moved(id, d) \in Rows(d)
           /\ Name(Moved(id, d)) = Name(id)
           /\ id # Missing /\ id # NoID
<1>1. id = <<rev, id[2]>> /\ id[2] \in STRING
  BY DEF Rows
<1>2. PICK n : n = id[2]
  OBVIOUS
<1>3. id = <<rev, n>> /\ n \in STRING
  BY <1>1, <1>2
<1>4. [<<rev, n>> EXCEPT ![1] = d] = <<d, n>>
  OBVIOUS
<1>5. Name(<<rev, n>>) = n /\ Name(<<d, n>>) = n
  BY DEF Name
<1>6. <<rev, n>> # Missing /\ <<rev, n>> # NoID
  BY DEF Missing, NoID
<1>7. <<d, n>> \in Rows(d)
  BY <1>3 DEF Rows
<1> QED
  BY <1>2, <1>3, <1>4, <1>5, <1>6, <1>7 DEF Moved

\* The same for the rows that belong to a bundle.
LEMMA ItemID ==
    ASSUME NEW rev, NEW id \in Items(rev), NEW d
    PROVE  /\ id = <<rev, id[2], id[3]>> /\ id[2] \in STRING /\ id[3] \in STRING
           /\ Name(id) = id[3]
           /\ Moved(id, d) = <<d, id[2], id[3]>>
           /\ Moved(id, d) \in Items(d)
           /\ Name(Moved(id, d)) = Name(id)
           /\ id # Missing /\ id # NoID
<1>1. id = <<rev, id[2], id[3]>> /\ id[2] \in STRING /\ id[3] \in STRING
  BY DEF Items
<1>2. PICK m, n : m = id[2] /\ n = id[3]
  OBVIOUS
<1>3. id = <<rev, m, n>> /\ m \in STRING /\ n \in STRING
  BY <1>1, <1>2
<1>4. [<<rev, m, n>> EXCEPT ![1] = d] = <<d, m, n>>
  OBVIOUS
<1>5. Name(<<rev, m, n>>) = n /\ Name(<<d, m, n>>) = n
  BY DEF Name
<1>6. <<rev, m, n>> # Missing /\ <<rev, m, n>> # NoID
  BY DEF Missing, NoID
<1>7. <<d, m, n>> \in Items(d)
  BY <1>3 DEF Items
<1> QED
  BY <1>2, <1>3, <1>4, <1>5, <1>6, <1>7 DEF Moved

\* Rows of one revision have different copies.
LEMMA MovedApart ==
    ASSUME NEW rev, NEW d
    PROVE  /\ \A x, y \in Rows(rev) : Moved(x, d) = Moved(y, d) => x = y
           /\ \A x, y \in Items(rev) : Moved(x, d) = Moved(y, d) => x = y
<1>1. ASSUME NEW x \in Rows(rev), NEW y \in Rows(rev), Moved(x, d) = Moved(y, d)
      PROVE  x = y
  <2>1. x = <<rev, x[2]>> /\ y = <<rev, y[2]>> /\ <<d, x[2]>> = <<d, y[2]>>
    BY <1>1, RowID
  <2> QED
    BY <2>1
<1>2. ASSUME NEW x \in Items(rev), NEW y \in Items(rev), Moved(x, d) = Moved(y, d)
      PROVE  x = y
  <2>1. x = <<rev, x[2], x[3]>> /\ y = <<rev, y[2], y[3]>>
        /\ <<d, x[2], x[3]>> = <<d, y[2], y[3]>>
    BY <1>2, ItemID
  <2> QED
    BY <2>1
<1> QED
  BY <1>1, <1>2

\* What the remaps of a clone yield for a row of the table, and for another ID.
LEMMA Remapped ==
    ASSUME NEW table, NEW d, NEW id
    PROVE  /\ id \in IDsOf(table) => /\ Copies(table, d)[id] = Moved(id, d)
                                     /\ RemapRequired(id, Copies(table, d)) = Moved(id, d)
           /\ id \notin IDsOf(table) => RemapRequired(id, Copies(table, d)) = Missing
           /\ RemapOptional(id, Copies(table, d)) =
                 IF id = NoID THEN NoID ELSE RemapRequired(id, Copies(table, d))
<1>1. DOMAIN Copies(table, d) = IDsOf(table)
  BY DEF Copies
<1>2. id \in IDsOf(table) => Copies(table, d)[id] = Moved(id, d)
  BY DEF Copies, Moved
<1> QED
  BY <1>1, <1>2 DEF RemapRequired, RemapOptional

\* The IDs that a clone gives out.
LEMMA CloneGraph ==
    ASSUME NEW c, NEW d
    PROVE  \E ids :
              /\ ids.providers = Copies(c.providers, d)
              /\ ids.mappings = Copies(c.mappings, d)
              /\ ids.routes = Copies(c.routes, d)
              /\ ids.verdictProviders = Copies(c.verdictProviders, d)
              /\ ids.bundles = Copies(c.bundles, d)
              /\ ids.detectors = Copies(c.detectors, d)
              /\ ids.rules = Copies(c.rules, d)
              /\ ids.sinks = Copies(c.sinks, d)
              /\ CloneActive(c, d) =
                    [providers        |-> CloneProviders(c, ids),
                     mappings         |-> CloneModelMappings(c, ids),
                     routes           |-> CloneRoutes(c, ids),
                     limits           |-> CloneRoutePolicies(c, ids),
                     overrides        |-> CloneClientRouteOverrides(c, ids),
                     verdictProviders |-> CloneVerdictProviders(c, ids),
                     bundles          |-> ClonePolicyBundles(c, ids),
                     detectors        |-> ClonePolicyDetectors(c, ids),
                     rules            |-> ClonePolicyRules(c, ids),
                     ruleDetectors    |-> ClonePolicyRuleDetectors(c, ids),
                     ruleScopes       |-> ClonePolicyRuleScopes(c, ids),
                     routeBindings    |-> CloneRoutePolicyBindings(c, ids),
                     verdictBindings  |-> CloneRouteVerdictProviderBindings(c, ids),
                     sinks            |-> CloneSinks(c, ids),
                     retention        |-> CloneRetentionPolicies(c, ids),
                     rawCapture       |-> CloneRawCapturePolicies(c, ids)]
<1>1. PICK ids : ids = [t \in {"providers", "mappings", "routes", "verdictProviders",
                               "bundles", "detectors", "rules", "sinks"} |-> Copies(c[t], d)]
  OBVIOUS
<1>2. /\ ids.providers = Copies(c.providers, d)
      /\ ids.mappings = Copies(c.mappings, d)
      /\ ids.routes = Copies(c.routes, d)
      /\ ids.verdictProviders = Copies(c.verdictProviders, d)
      /\ ids.bundles = Copies(c.bundles, d)
      /\ ids.detectors = Copies(c.detectors, d)
      /\ ids.rules = Copies(c.rules, d)
      /\ ids.sinks = Copies(c.sinks, d)
  BY <1>1
<1>3. CloneActive(c, d) =
          [providers        |-> CloneProviders(c, ids),
           mappings         |-> CloneModelMappings(c, ids),
           routes           |-> CloneRoutes(c, ids),
           limits           |-> CloneRoutePolicies(c, ids),
           overrides        |-> CloneClientRouteOverrides(c, ids),
           verdictProviders |-> CloneVerdictProviders(c, ids),
           bundles          |-> ClonePolicyBundles(c, ids),
           detectors        |-> ClonePolicyDetectors(c, ids),
           rules            |-> ClonePolicyRules(c, ids),
           ruleDetectors    |-> ClonePolicyRuleDetectors(c, ids),
           ruleScopes       |-> ClonePolicyRuleScopes(c, ids),
           routeBindings    |-> CloneRoutePolicyBindings(c, ids),
           verdictBindings  |-> CloneRouteVerdictProviderBindings(c, ids),
           sinks            |-> CloneSinks(c, ids),
           retention        |-> CloneRetentionPolicies(c, ids),
           rawCapture       |-> CloneRawCapturePolicies(c, ids)]
  BY <1>1, Zenon DEF CloneActive
<1> QED
  BY <1>2, <1>3, Zenon

-----------------------------------------------------------------------------
(* Cloning, table by table.                                               *)

\* The copy of a row of each table in revision d.
CopyProvider(x, d) == [x EXCEPT !.id = Moved(x.id, d)]
CopyMapping(x, d) == [x EXCEPT !.id = Moved(x.id, d), !.target = MovedRef(x.target, d)]
CopyRoute(x, d) == [x EXCEPT !.id = Moved(x.id, d), !.mapping = MovedRef(x.mapping, d)]
CopyLimit(x, d) == [x EXCEPT !.route = Moved(x.route, d)]
CopyOverride(x, d) == [x EXCEPT !.route = Moved(x.route, d)]
CopyVerdictProvider(x, d) == [x EXCEPT !.id = Moved(x.id, d)]
CopyVerdictBinding(x, d) == [x EXCEPT !.route = Moved(x.route, d),
                                      !.provider = Moved(x.provider, d)]
CopyBundle(x, d) == [x EXCEPT !.id = Moved(x.id, d)]
CopyDetector(x, d) == [x EXCEPT !.id = Moved(x.id, d), !.bundle = Moved(x.bundle, d)]
CopyRule(x, d) == [x EXCEPT !.id = Moved(x.id, d), !.bundle = Moved(x.bundle, d)]
CopyRuleDetector(x, d) == [rule |-> Moved(x.rule, d), detector |-> Moved(x.detector, d)]
CopyRuleScope(x, d) == [x EXCEPT !.rule = Moved(x.rule, d),
                                 !.route = MovedRef(x.route, d),
                                 !.provider = MovedRef(x.provider, d)]
CopyRouteBinding(x, d) == [route |-> Moved(x.route, d), bundle |-> Moved(x.bundle, d)]
CopySink(x, d) == [x EXCEPT !.id = Moved(x.id, d)]
CopyRetention(x, d) == [x EXCEPT !.sink = MovedRef(x.sink, d)]
CopyRawCapture(x, d) == [x EXCEPT !.route = MovedRef(x.route, d)]

\* The tables of a revision hold rows of their types.
LEMMA Columns ==
    ASSUME NEW rev, NEW c \in Contents(rev)
    PROVE  /\ c.providers \subseteq ProviderRows(rev)
           /\ c.mappings \subseteq MappingRows(rev)
           /\ c.routes \subseteq RouteRows(rev)
           /\ c.limits \subseteq LimitRows(rev)
           /\ c.overrides \subseteq OverrideRows(rev)
           /\ c.verdictProviders \subseteq VerdictProviderRows(rev)
           /\ c.verdictBindings \subseteq VerdictBindingRows(rev)
           /\ c.bundles \subseteq BundleRows(rev)
           /\ c.detectors \subseteq DetectorRows(rev)
           /\ c.rules \subseteq RuleRows(rev)
           /\ c.ruleDetectors \subseteq RuleDetectorRows(rev)
           /\ c.ruleScopes \subseteq RuleScopeRows(rev)
           /\ c.routeBindings \subseteq RouteBindingRows(rev)
           /\ c.sinks \subseteq SinkRows(rev)
           /\ c.retention \subseteq RetentionRows(rev)
           /\ c.rawCapture \subseteq RawCaptureRows(rev)
BY DEF Contents

\* Every reference of a row, those of the scopes included, names a row of the
\* same revision.
Resolves(c) ==
    /\ \A x \in c.mappings : x.target \in Optional(IDsOf(c.providers))
    /\ \A x \in c.routes : x.mapping \in Optional(IDsOf(c.mappings))
    /\ \A x \in c.limits : x.route \in IDsOf(c.routes)
    /\ \A x \in c.overrides : x.route \in IDsOf(c.routes)
    /\ \A x \in c.verdictBindings :
           /\ x.route \in IDsOf(c.routes)
           /\ x.provider \in IDsOf(c.verdictProviders)
    /\ \A x \in c.detectors : x.bundle \in IDsOf(c.bundles)
    /\ \A x \in c.rules : x.bundle \in IDsOf(c.bundles)
    /\ \A x \in c.ruleDetectors : x.rule \in IDsOf(c.rules) /\ x.detector \in IDsOf(c.detectors)
    /\ \A x \in c.ruleScopes :
           /\ x.rule \in IDsOf(c.rules)
           /\ x.route \in Optional(IDsOf(c.routes))
           /\ x.provider \in Optional(IDsOf(c.providers))
    /\ \A x \in c.routeBindings : x.route \in IDsOf(c.routes) /\ x.bundle \in IDsOf(c.bundles)
    /\ \A x \in c.retention : x.sink \in Optional(IDsOf(c.sinks))
    /\ \A x \in c.rawCapture : x.route \in Optional(IDsOf(c.routes))

\* The clone of each table, when nothing is missing from the clone or nothing
\* can be: every row is copied with its references moved along.
LEMMA Cloned ==
    ASSUME NEW rev, NEW c \in Contents(rev), NEW d, NEW k, k = CloneActive(c, d),
           Whole(k) \/ Resolves(c)
    PROVE  /\ k.providers = {CopyProvider(x, d) : x \in c.providers}
           /\ k.mappings = {CopyMapping(x, d) : x \in c.mappings}
           /\ k.routes = {CopyRoute(x, d) : x \in c.routes}
           /\ k.limits = {CopyLimit(x, d) : x \in c.limits}
           /\ k.overrides = {CopyOverride(x, d) : x \in c.overrides}
           /\ k.verdictProviders = {CopyVerdictProvider(x, d) : x \in c.verdictProviders}
           /\ k.verdictBindings = {CopyVerdictBinding(x, d) : x \in c.verdictBindings}
           /\ k.bundles = {CopyBundle(x, d) : x \in c.bundles}
           /\ k.detectors = {CopyDetector(x, d) : x \in c.detectors}
           /\ k.rules = {CopyRule(x, d) : x \in c.rules}
           /\ k.ruleDetectors = {CopyRuleDetector(x, d) : x \in c.ruleDetectors}
           /\ k.ruleScopes = {CopyRuleScope(x, d) : x \in c.ruleScopes}
           /\ k.routeBindings = {CopyRouteBinding(x, d) : x \in c.routeBindings}
           /\ k.sinks = {CopySink(x, d) : x \in c.sinks}
           /\ k.retention = {CopyRetention(x, d) : x \in c.retention}
           /\ k.rawCapture = {CopyRawCapture(x, d) : x \in c.rawCapture}
           /\ Resolves(c)
<1>1. PICK ids :
              /\ ids.providers = Copies(c.providers, d)
              /\ ids.mappings = Copies(c.mappings, d)
              /\ ids.routes = Copies(c.routes, d)
              /\ ids.verdictProviders = Copies(c.verdictProviders, d)
              /\ ids.bundles = Copies(c.bundles, d)
              /\ ids.detectors = Copies(c.detectors, d)
              /\ ids.rules = Copies(c.rules, d)
              /\ ids.sinks = Copies(c.sinks, d)
              /\ k =
                    [providers        |-> CloneProviders(c, ids),
                     mappings         |-> CloneModelMappings(c, ids),
                     routes           |-> CloneRoutes(c, ids),
                     limits           |-> CloneRoutePolicies(c, ids),
                     overrides        |-> CloneClientRouteOverrides(c, ids),
                     verdictProviders |-> CloneVerdictProviders(c, ids),
                     verdictBindings  |-> CloneRouteVerdictProviderBindings(c, ids),
                     bundles          |-> ClonePolicyBundles(c, ids),
                     detectors        |-> ClonePolicyDetectors(c, ids),
                     rules            |-> ClonePolicyRules(c, ids),
                     ruleDetectors    |-> ClonePolicyRuleDetectors(c, ids),
                     ruleScopes       |-> ClonePolicyRuleScopes(c, ids),
                     routeBindings    |-> CloneRoutePolicyBindings(c, ids),
                     sinks            |-> CloneSinks(c, ids),
                     retention        |-> CloneRetentionPolicies(c, ids),
                     rawCapture       |-> CloneRawCapturePolicies(c, ids)]
  BY CloneGraph
<1>2. k.providers = {CopyProvider(x, d) : x \in c.providers}
  <2>1. k.providers = {[x EXCEPT !.id = ids.providers[x.id]] :
                x \in c.providers}
    <3>1. k.providers = CloneProviders(c, ids)
      BY <1>1
    <3> QED
      BY <3>1, Zenon DEF CloneProviders
  <2>2. ASSUME NEW x \in c.providers
        PROVE  [x EXCEPT !.id = ids.providers[x.id]] = CopyProvider(x, d)
    <3>1. x \in ProviderRows(rev)
      BY Columns
    <3>2. ids.providers[x.id] = Moved(x.id, d)
      BY <1>1, Remapped DEF IDsOf
    <3> QED
      BY <3>1, <3>2 DEF CopyProvider
  <2> QED
    BY <2>1, <2>2
<1>3. /\ k.mappings = {CopyMapping(x, d) : x \in c.mappings}
      /\ \A x \in c.mappings : x.target \in Optional(IDsOf(c.providers))
  <2>1. k.mappings =
            {[x EXCEPT !.id = ids.mappings[x.id],
                       !.target = RemapOptional(x.target, ids.providers)] :
                x \in c.mappings}
    <3>1. k.mappings = CloneModelMappings(c, ids)
      BY <1>1
    <3> QED
      BY <3>1, Zenon DEF CloneModelMappings
  <2>2. ASSUME NEW x \in c.mappings
        PROVE  /\ [x EXCEPT !.id = ids.mappings[x.id],
                            !.target = RemapOptional(x.target, ids.providers)]
                    = CopyMapping(x, d)
               /\ x.target \in Optional(IDsOf(c.providers))
    <3>1. x \in MappingRows(rev)
      BY Columns
    <3>2. PICK y \in k.mappings :
            y = [x EXCEPT !.id = ids.mappings[x.id],
                          !.target = RemapOptional(x.target, ids.providers)]
      BY <2>1
    <3>3. y.target = RemapOptional(x.target, ids.providers)
      BY <3>1, <3>2 DEF MappingRows
    <3>4. RemapOptional(x.target, ids.providers) \in References(k)
      BY <3>2, <3>3 DEF References
    <3>5. x.target \in Optional(IDsOf(c.providers))
      <4>1. CASE Whole(k)
        BY <1>1, <3>4, <4>1, Remapped DEF Whole, Optional
      <4>2. CASE Resolves(c)
        BY <4>2 DEF Resolves
      <4> QED
        BY <4>1, <4>2
    <3>6. ids.mappings[x.id] = Moved(x.id, d)
      BY <1>1, Remapped DEF IDsOf
    <3>7. RemapOptional(x.target, ids.providers) = MovedRef(x.target, d)
      BY <1>1, <3>5, Remapped DEF Optional, MovedRef
    <3> QED
      BY <3>1, <3>6, <3>5, <3>7 DEF CopyMapping
  <2> QED
    BY <2>1, <2>2
<1>4. /\ k.routes = {CopyRoute(x, d) : x \in c.routes}
      /\ \A x \in c.routes : x.mapping \in Optional(IDsOf(c.mappings))
  <2>1. k.routes =
            {[x EXCEPT !.id = ids.routes[x.id],
                       !.mapping = RemapOptional(x.mapping, ids.mappings)] :
                x \in c.routes}
    <3>1. k.routes = CloneRoutes(c, ids)
      BY <1>1
    <3> QED
      BY <3>1, Zenon DEF CloneRoutes
  <2>2. ASSUME NEW x \in c.routes
        PROVE  /\ [x EXCEPT !.id = ids.routes[x.id],
                            !.mapping = RemapOptional(x.mapping, ids.mappings)]
                    = CopyRoute(x, d)
               /\ x.mapping \in Optional(IDsOf(c.mappings))
    <3>1. x \in RouteRows(rev)
      BY Columns
    <3>2. PICK y \in k.routes :
            y = [x EXCEPT !.id = ids.routes[x.id],
                          !.mapping = RemapOptional(x.mapping, ids.mappings)]
      BY <2>1
    <3>3. y.mapping = RemapOptional(x.mapping, ids.mappings)
      BY <3>1, <3>2 DEF RouteRows
    <3>4. RemapOptional(x.mapping, ids.mappings) \in References(k)
      BY <3>2, <3>3 DEF References
    <3>5. x.mapping \in Optional(IDsOf(c.mappings))
      <4>1. CASE Whole(k)
        BY <1>1, <3>4, <4>1, Remapped DEF Whole, Optional
      <4>2. CASE Resolves(c)
        BY <4>2 DEF Resolves
      <4> QED
        BY <4>1, <4>2
    <3>6. ids.routes[x.id] = Moved(x.id, d)
      BY <1>1, Remapped DEF IDsOf
    <3>7. RemapOptional(x.mapping, ids.mappings) = MovedRef(x.mapping, d)
      BY <1>1, <3>5, Remapped DEF Optional, MovedRef
    <3> QED
      BY <3>1, <3>6, <3>5, <3>7 DEF CopyRoute
  <2> QED
    BY <2>1, <2>2
<1>5. /\ k.limits = {CopyLimit(x, d) : x \in c.limits}
      /\ \A x \in c.limits : x.route \in IDsOf(c.routes)
  <2>1. k.limits = {[x EXCEPT !.route = RemapRequired(x.route, ids.routes)] :
                x \in c.limits}
    <3>1. k.limits = CloneRoutePolicies(c, ids)
      BY <1>1
    <3> QED
      BY <3>1, Zenon DEF CloneRoutePolicies
  <2>2. ASSUME NEW x \in c.limits
        PROVE  /\ [x EXCEPT !.route = RemapRequired(x.route, ids.routes)] = CopyLimit(x, d)
               /\ x.route \in IDsOf(c.routes)
    <3>1. x \in LimitRows(rev)
      BY Columns
    <3>2. PICK y \in k.limits : y = [x EXCEPT !.route = RemapRequired(x.route, ids.routes)]
      BY <2>1
    <3>3. y.route = RemapRequired(x.route, ids.routes)
      BY <3>1, <3>2 DEF LimitRows
    <3>4. RemapRequired(x.route, ids.routes) \in References(k)
      BY <3>2, <3>3 DEF References
    <3>5. x.route \in IDsOf(c.routes)
      <4>1. CASE Whole(k)
        BY <1>1, <3>4, <4>1, Remapped DEF Whole, Optional
      <4>2. CASE Resolves(c)
        BY <4>2 DEF Resolves
      <4> QED
        BY <4>1, <4>2
    <3>6. RemapRequired(x.route, ids.routes) = Moved(x.route, d)
      BY <1>1, <3>5, Remapped DEF Optional, MovedRef
    <3> QED
      BY <3>1, <3>5, <3>6 DEF CopyLimit
  <2> QED
    BY <2>1, <2>2
<1>6. /\ k.overrides = {CopyOverride(x, d) : x \in c.overrides}
      /\ \A x \in c.overrides : x.route \in IDsOf(c.routes)
  <2>1. k.overrides = {[x EXCEPT !.route = RemapRequired(x.route, ids.routes)] :
                x \in c.overrides}
    <3>1. k.overrides = CloneClientRouteOverrides(c, ids)
      BY <1>1
    <3> QED
      BY <3>1, Zenon DEF CloneClientRouteOverrides
  <2>2. ASSUME NEW x \in c.overrides
        PROVE  /\ [x EXCEPT !.route = RemapRequired(x.route, ids.routes)] = CopyOverride(x, d)
               /\ x.route \in IDsOf(c.routes)
    <3>1. x \in OverrideRows(rev)
      BY Columns
    <3>2. PICK y \in k.overrides : y = [x EXCEPT !.route = RemapRequired(x.route, ids.routes)]
      BY <2>1
    <3>3. y.route = RemapRequired(x.route, ids.routes)
      BY <3>1, <3>2 DEF OverrideRows
    <3>4. RemapRequired(x.route, ids.routes) \in References(k)
      BY <3>2, <3>3 DEF References
    <3>5. x.route \in IDsOf(c.routes)
      <4>1. CASE Whole(k)
        BY <1>1, <3>4, <4>1, Remapped DEF Whole, Optional
      <4>2. CASE Resolves(c)
        BY <4>2 DEF Resolves
      <4> QED
        BY <4>1, <4>2
    <3>6. RemapRequired(x.route, ids.routes) = Moved(x.route, d)
      BY <1>1, <3>5, Remapped DEF Optional, MovedRef
    <3> QED
      BY <3>1, <3>5, <3>6 DEF CopyOverride
  <2> QED
    BY <2>1, <2>2
<1>7. k.verdictProviders = {CopyVerdictProvider(x, d) : x \in c.verdictProviders}
  <2>1. k.verdictProviders = {[x EXCEPT !.id = ids.verdictProviders[x.id]] :
                x \in c.verdictProviders}
    <3>1. k.verdictProviders = CloneVerdictProviders(c, ids)
      BY <1>1
    <3> QED
      BY <3>1, Zenon DEF CloneVerdictProviders
  <2>2. ASSUME NEW x \in c.verdictProviders
        PROVE  [x EXCEPT !.id = ids.verdictProviders[x.id]] = CopyVerdictProvider(x, d)
    <3>1. x \in VerdictProviderRows(rev)
      BY Columns
    <3>2. ids.verdictProviders[x.id] = Moved(x.id, d)
      BY <1>1, Remapped DEF IDsOf
    <3> QED
      BY <3>1, <3>2 DEF CopyVerdictProvider
  <2> QED
    BY <2>1, <2>2
<1>8. /\ k.verdictBindings = {CopyVerdictBinding(x, d) : x \in c.verdictBindings}
      /\ \A x \in c.verdictBindings :
             /\ x.route \in IDsOf(c.routes)
             /\ x.provider \in IDsOf(c.verdictProviders)
  <2>1. k.verdictBindings =
            {[x EXCEPT !.route = RemapRequired(x.route, ids.routes),
                       !.provider = RemapRequired(x.provider, ids.verdictProviders)] :
                x \in c.verdictBindings}
    <3>1. k.verdictBindings = CloneRouteVerdictProviderBindings(c, ids)
      BY <1>1
    <3> QED
      BY <3>1, Zenon DEF CloneRouteVerdictProviderBindings
  <2>2. ASSUME NEW x \in c.verdictBindings
        PROVE  /\ [x EXCEPT !.route = RemapRequired(x.route, ids.routes),
                            !.provider = RemapRequired(x.provider, ids.verdictProviders)]
                    = CopyVerdictBinding(x, d)
               /\ x.route \in IDsOf(c.routes)
               /\ x.provider \in IDsOf(c.verdictProviders)
    <3>1. x \in VerdictBindingRows(rev)
      BY Columns
    <3>2. PICK y \in k.verdictBindings :
            y = [x EXCEPT !.route = RemapRequired(x.route, ids.routes),
                          !.provider = RemapRequired(x.provider, ids.verdictProviders)]
      BY <2>1
    <3>3. /\ y.route = RemapRequired(x.route, ids.routes)
          /\ y.provider = RemapRequired(x.provider, ids.verdictProviders)
      BY <3>1, <3>2 DEF VerdictBindingRows
    <3>4. /\ RemapRequired(x.route, ids.routes) \in References(k)
          /\ RemapRequired(x.provider, ids.verdictProviders) \in References(k)
      BY <3>2, <3>3 DEF References
    <3>5. /\ x.route \in IDsOf(c.routes)
          /\ x.provider \in IDsOf(c.verdictProviders)
      <4>1. CASE Whole(k)
        BY <1>1, <3>4, <4>1, Remapped DEF Whole, Optional
      <4>2. CASE Resolves(c)
        BY <4>2 DEF Resolves
      <4> QED
        BY <4>1, <4>2
    <3>6. /\ RemapRequired(x.route, ids.routes) = Moved(x.route, d)
          /\ RemapRequired(x.provider, ids.verdictProviders) = Moved(x.provider, d)
      BY <1>1, <3>5, Remapped DEF Optional, MovedRef
    <3> QED
      BY <3>1, <3>5, <3>6 DEF CopyVerdictBinding
  <2> QED
    BY <2>1, <2>2
<1>9. k.bundles = {CopyBundle(x, d) : x \in c.bundles}
  <2>1. k.bundles = {[x EXCEPT !.id = ids.bundles[x.id]] :
                x \in c.bundles}
    <3>1. k.bundles = ClonePolicyBundles(c, ids)
      BY <1>1
    <3> QED
      BY <3>1, Zenon DEF ClonePolicyBundles
  <2>2. ASSUME NEW x \in c.bundles
        PROVE  [x EXCEPT !.id = ids.bundles[x.id]] = CopyBundle(x, d)
    <3>1. x \in BundleRows(rev)
      BY Columns
    <3>2. ids.bundles[x.id] = Moved(x.id, d)
      BY <1>1, Remapped DEF IDsOf
    <3> QED
      BY <3>1, <3>2 DEF CopyBundle
  <2> QED
    BY <2>1, <2>2
<1>10. k.detectors = {CopyDetector(x, d) : x \in c.detectors}
      /\ \A x \in c.detectors : x.bundle \in IDsOf(c.bundles)
  <2>1. k.detectors =
            {[x EXCEPT !.id = ids.detectors[x.id],
                       !.bundle = RemapRequired(x.bundle, ids.bundles)] :
                x \in c.detectors}
    <3>1. k.detectors = ClonePolicyDetectors(c, ids)
      BY <1>1
    <3> QED
      BY <3>1, Zenon DEF ClonePolicyDetectors
  <2>2. ASSUME NEW x \in c.detectors
        PROVE  /\ [x EXCEPT !.id = ids.detectors[x.id],
                            !.bundle = RemapRequired(x.bundle, ids.bundles)]
                    = CopyDetector(x, d)
               /\ x.bundle \in IDsOf(c.bundles)
    <3>1. x \in DetectorRows(rev)
      BY Columns
    <3>2. PICK y \in k.detectors :
            y = [x EXCEPT !.id = ids.detectors[x.id],
                          !.bundle = RemapRequired(x.bundle, ids.bundles)]
      BY <2>1
    <3>3. y.bundle = RemapRequired(x.bundle, ids.bundles)
      BY <3>1, <3>2 DEF DetectorRows
    <3>4. RemapRequired(x.bundle, ids.bundles) \in References(k)
      BY <3>2, <3>3 DEF References
    <3>5. x.bundle \in IDsOf(c.bundles)
      <4>1. CASE Whole(k)
        BY <1>1, <3>4, <4>1, Remapped DEF Whole, Optional
      <4>2. CASE Resolves(c)
        BY <4>2 DEF Resolves
      <4> QED
        BY <4>1, <4>2
    <3>6. ids.detectors[x.id] = Moved(x.id, d)
      BY <1>1, Remapped DEF IDsOf
    <3>7. RemapRequired(x.bundle, ids.bundles) = Moved(x.bundle, d)
      BY <1>1, <3>5, Remapped DEF Optional, MovedRef
    <3> QED
      BY <3>1, <3>6, <3>5, <3>7 DEF CopyDetector
  <2> QED
    BY <2>1, <2>2
<1>11. k.rules = {CopyRule(x, d) : x \in c.rules}
      /\ \A x \in c.rules : x.bundle \in IDsOf(c.bundles)
  <2>1. k.rules =
            {[x EXCEPT !.id = ids.rules[x.id],
                       !.bundle = RemapRequired(x.bundle, ids.bundles)] :
                x \in c.rules}
    <3>1. k.rules = ClonePolicyRules(c, ids)
      BY <1>1
    <3> QED
      BY <3>1, Zenon DEF ClonePolicyRules
  <2>2. ASSUME NEW x \in c.rules
        PROVE  /\ [x EXCEPT !.id = ids.rules[x.id],
                            !.bundle = RemapRequired(x.bundle, ids.bundles)]
                    = CopyRule(x, d)
               /\ x.bundle \in IDsOf(c.bundles)
    <3>1. x \in RuleRows(rev)
      BY Columns
    <3>2. PICK y \in k.rules :
            y = [x EXCEPT !.id = ids.rules[x.id],
                          !.bundle = RemapRequired(x.bundle, ids.bundles)]
      BY <2>1
    <3>3. y.bundle = RemapRequired(x.bundle, ids.bundles)
      BY <3>1, <3>2 DEF RuleRows
    <3>4. RemapRequired(x.bundle, ids.bundles) \in References(k)
      BY <3>2, <3>3 DEF References
    <3>5. x.bundle \in IDsOf(c.bundles)
      <4>1. CASE Whole(k)
        BY <1>1, <3>4, <4>1, Remapped DEF Whole, Optional
      <4>2. CASE Resolves(c)
        BY <4>2 DEF Resolves
      <4> QED
        BY <4>1, <4>2
    <3>6. ids.rules[x.id] = Moved(x.id, d)
      BY <1>1, Remapped DEF IDsOf
    <3>7. RemapRequired(x.bundle, ids.bundles) = Moved(x.bundle, d)
      BY <1>1, <3>5, Remapped DEF Optional, MovedRef
    <3> QED
      BY <3>1, <3>6, <3>5, <3>7 DEF CopyRule
  <2> QED
    BY <2>1, <2>2
<1>12. k.ruleDetectors = {CopyRuleDetector(x, d) : x \in c.ruleDetectors}
      /\ \A x \in c.ruleDetectors :
             /\ x.rule \in IDsOf(c.rules)
             /\ x.detector \in IDsOf(c.detectors)
  <2>1. k.ruleDetectors =
            {[rule |-> RemapRequired(x.rule, ids.rules),
              detector |-> RemapRequired(x.detector, ids.detectors)] :
                x \in c.ruleDetectors}
    <3>1. k.ruleDetectors = ClonePolicyRuleDetectors(c, ids)
      BY <1>1
    <3> QED
      BY <3>1, Zenon DEF ClonePolicyRuleDetectors
  <2>2. ASSUME NEW x \in c.ruleDetectors
        PROVE  /\ [rule |-> RemapRequired(x.rule, ids.rules),
                   detector |-> RemapRequired(x.detector, ids.detectors)]
                    = CopyRuleDetector(x, d)
               /\ x.rule \in IDsOf(c.rules)
               /\ x.detector \in IDsOf(c.detectors)
    <3>1. x \in RuleDetectorRows(rev)
      BY Columns
    <3>2. PICK y \in k.ruleDetectors :
            y = [rule |-> RemapRequired(x.rule, ids.rules),
                 detector |-> RemapRequired(x.detector, ids.detectors)]
      BY <2>1
    <3>3. /\ y.rule = RemapRequired(x.rule, ids.rules)
          /\ y.detector = RemapRequired(x.detector, ids.detectors)
      BY <3>1, <3>2 DEF RuleDetectorRows
    <3>4. /\ RemapRequired(x.rule, ids.rules) \in References(k)
          /\ RemapRequired(x.detector, ids.detectors) \in References(k)
      BY <3>2, <3>3 DEF References
    <3>5. /\ x.rule \in IDsOf(c.rules)
          /\ x.detector \in IDsOf(c.detectors)
      <4>1. CASE Whole(k)
        BY <1>1, <3>4, <4>1, Remapped DEF Whole, Optional
      <4>2. CASE Resolves(c)
        BY <4>2 DEF Resolves
      <4> QED
        BY <4>1, <4>2
    <3>6. /\ RemapRequired(x.rule, ids.rules) = Moved(x.rule, d)
          /\ RemapRequired(x.detector, ids.detectors) = Moved(x.detector, d)
      BY <1>1, <3>5, Remapped DEF Optional, MovedRef
    <3> QED
      BY <3>1, <3>5, <3>6 DEF CopyRuleDetector
  <2> QED
    BY <2>1, <2>2
<1>13. k.ruleScopes = {CopyRuleScope(x, d) : x \in c.ruleScopes}
      /\ \A x \in c.ruleScopes :
             /\ x.rule \in IDsOf(c.rules)
             /\ x.route \in Optional(IDsOf(c.routes))
             /\ x.provider \in Optional(IDsOf(c.providers))
  <2>1. k.ruleScopes =
            {[x EXCEPT !.rule = RemapRequired(x.rule, ids.rules),
                       !.route = RemapOptional(x.route, ids.routes),
                       !.provider = RemapOptional(x.provider, ids.providers)] :
                x \in c.ruleScopes}
    <3>1. k.ruleScopes = ClonePolicyRuleScopes(c, ids)
      BY <1>1
    <3> QED
      BY <3>1, Zenon DEF ClonePolicyRuleScopes
  <2>2. ASSUME NEW x \in c.ruleScopes
        PROVE  /\ [x EXCEPT !.rule = RemapRequired(x.rule, ids.rules),
                            !.route = RemapOptional(x.route, ids.routes),
                            !.provider = RemapOptional(x.provider, ids.providers)]
                    = CopyRuleScope(x, d)
               /\ x.rule \in IDsOf(c.rules)
               /\ x.route \in Optional(IDsOf(c.routes))
               /\ x.provider \in Optional(IDsOf(c.providers))
    <3>1. x \in RuleScopeRows(rev)
      BY Columns
    <3>2. PICK y \in k.ruleScopes :
            y = [x EXCEPT !.rule = RemapRequired(x.rule, ids.rules),
                          !.route = RemapOptional(x.route, ids.routes),
                          !.provider = RemapOptional(x.provider, ids.providers)]
      BY <2>1
    <3>3. /\ y.rule = RemapRequired(x.rule, ids.rules)
          /\ y.route = RemapOptional(x.route, ids.routes)
          /\ y.provider = RemapOptional(x.provider, ids.providers)
      BY <3>1, <3>2 DEF RuleScopeRows
    <3>4. /\ RemapRequired(x.rule, ids.rules) \in References(k)
          /\ RemapOptional(x.route, ids.routes) \in References(k)
          /\ RemapOptional(x.provider, ids.providers) \in References(k)
      BY <3>2, <3>3 DEF References
    <3>5. /\ x.rule \in IDsOf(c.rules)
          /\ x.route \in Optional(IDsOf(c.routes))
          /\ x.provider \in Optional(IDsOf(c.providers))
      <4>1. CASE Whole(k)
        BY <1>1, <3>4, <4>1, Remapped DEF Whole, Optional
      <4>2. CASE Resolves(c)
        BY <4>2 DEF Resolves
      <4> QED
        BY <4>1, <4>2
    <3>6. /\ RemapRequired(x.rule, ids.rules) = Moved(x.rule, d)
          /\ RemapOptional(x.route, ids.routes) = MovedRef(x.route, d)
          /\ RemapOptional(x.provider, ids.providers) = MovedRef(x.provider, d)
      BY <1>1, <3>5, Remapped DEF Optional, MovedRef
    <3> QED
      BY <3>1, <3>5, <3>6 DEF CopyRuleScope
  <2> QED
    BY <2>1, <2>2
<1>14. k.routeBindings = {CopyRouteBinding(x, d) : x \in c.routeBindings}
      /\ \A x \in c.routeBindings : x.route \in IDsOf(c.routes) /\ x.bundle \in IDsOf(c.bundles)
  <2>1. k.routeBindings =
            {[route |-> RemapRequired(x.route, ids.routes),
              bundle |-> RemapRequired(x.bundle, ids.bundles)] :
                x \in c.routeBindings}
    <3>1. k.routeBindings = CloneRoutePolicyBindings(c, ids)
      BY <1>1
    <3> QED
      BY <3>1, Zenon DEF CloneRoutePolicyBindings
  <2>2. ASSUME NEW x \in c.routeBindings
        PROVE  /\ [route |-> RemapRequired(x.route, ids.routes),
                   bundle |-> RemapRequired(x.bundle, ids.bundles)]
                    = CopyRouteBinding(x, d)
               /\ x.route \in IDsOf(c.routes)
               /\ x.bundle \in IDsOf(c.bundles)
    <3>1. x \in RouteBindingRows(rev)
      BY Columns
    <3>2. PICK y \in k.routeBindings :
            y = [route |-> RemapRequired(x.route, ids.routes),
                 bundle |-> RemapRequired(x.bundle, ids.bundles)]
      BY <2>1
    <3>3. /\ y.route = RemapRequired(x.route, ids.routes)
          /\ y.bundle = RemapRequired(x.bundle, ids.bundles)
      BY <3>1, <3>2 DEF RouteBindingRows
    <3>4. /\ RemapRequired(x.route, ids.routes) \in References(k)
          /\ RemapRequired(x.bundle, ids.bundles) \in References(k)
      BY <3>2, <3>3 DEF References
    <3>5. /\ x.route \in IDsOf(c.routes)
          /\ x.bundle \in IDsOf(c.bundles)
      <4>1. CASE Whole(k)
        BY <1>1, <3>4, <4>1, Remapped DEF Whole, Optional
      <4>2. CASE Resolves(c)
        BY <4>2 DEF Resolves
      <4> QED
        BY <4>1, <4>2
    <3>6. /\ RemapRequired(x.route, ids.routes) = Moved(x.route, d)
          /\ RemapRequired(x.bundle, ids.bundles) = Moved(x.bundle, d)
      BY <1>1, <3>5, Remapped DEF Optional, MovedRef
    <3> QED
      BY <3>1, <3>5, <3>6 DEF CopyRouteBinding
  <2> QED
    BY <2>1, <2>2
<1>15. k.sinks = {CopySink(x, d) : x \in c.sinks}
  <2>1. k.sinks = {[x EXCEPT !.id = ids.sinks[x.id]] :
                x \in c.sinks}
    <3>1. k.sinks = CloneSinks(c, ids)
      BY <1>1
    <3> QED
      BY <3>1, Zenon DEF CloneSinks
  <2>2. ASSUME NEW x \in c.sinks
        PROVE  [x EXCEPT !.id = ids.sinks[x.id]] = CopySink(x, d)
    <3>1. x \in SinkRows(rev)
      BY Columns
    <3>2. ids.sinks[x.id] = Moved(x.id, d)
      BY <1>1, Remapped DEF IDsOf
    <3> QED
      BY <3>1, <3>2 DEF CopySink
  <2> QED
    BY <2>1, <2>2
<1>16. k.retention = {CopyRetention(x, d) : x \in c.retention}
      /\ \A x \in c.retention : x.sink \in Optional(IDsOf(c.sinks))
  <2>1. k.retention = {[x EXCEPT !.sink = RemapOptional(x.sink, ids.sinks)] :
                x \in c.retention}
    <3>1. k.retention = CloneRetentionPolicies(c, ids)
      BY <1>1
    <3> QED
      BY <3>1, Zenon DEF CloneRetentionPolicies
  <2>2. ASSUME NEW x \in c.retention
        PROVE  /\ [x EXCEPT !.sink = RemapOptional(x.sink, ids.sinks)] = CopyRetention(x, d)
               /\ x.sink \in Optional(IDsOf(c.sinks))
    <3>1. x \in RetentionRows(rev)
      BY Columns
    <3>2. PICK y \in k.retention : y = [x EXCEPT !.sink = RemapOptional(x.sink, ids.sinks)]
      BY <2>1
    <3>3. y.sink = RemapOptional(x.sink, ids.sinks)
      BY <3>1, <3>2 DEF RetentionRows
    <3>4. RemapOptional(x.sink, ids.sinks) \in References(k)
      BY <3>2, <3>3 DEF References
    <3>5. x.sink \in Optional(IDsOf(c.sinks))
      <4>1. CASE Whole(k)
        BY <1>1, <3>4, <4>1, Remapped DEF Whole, Optional
      <4>2. CASE Resolves(c)
        BY <4>2 DEF Resolves
      <4> QED
        BY <4>1, <4>2
    <3>6. RemapOptional(x.sink, ids.sinks) = MovedRef(x.sink, d)
      BY <1>1, <3>5, Remapped DEF Optional, MovedRef
    <3> QED
      BY <3>1, <3>5, <3>6 DEF CopyRetention
  <2> QED
    BY <2>1, <2>2
<1>17. k.rawCapture = {CopyRawCapture(x, d) : x \in c.rawCapture}
      /\ \A x \in c.rawCapture : x.route \in Optional(IDsOf(c.routes))
  <2>1. k.rawCapture = {[x EXCEPT !.route = RemapOptional(x.route, ids.routes)] :
                x \in c.rawCapture}
    <3>1. k.rawCapture = CloneRawCapturePolicies(c, ids)
      BY <1>1
    <3> QED
      BY <3>1, Zenon DEF CloneRawCapturePolicies
  <2>2. ASSUME NEW x \in c.rawCapture
        PROVE  /\ [x EXCEPT !.route = RemapOptional(x.route, ids.routes)] = CopyRawCapture(x, d)
               /\ x.route \in Optional(IDsOf(c.routes))
    <3>1. x \in RawCaptureRows(rev)
      BY Columns
    <3>2. PICK y \in k.rawCapture : y = [x EXCEPT !.route = RemapOptional(x.route, ids.routes)]
      BY <2>1
    <3>3. y.route = RemapOptional(x.route, ids.routes)
      BY <3>1, <3>2 DEF RawCaptureRows
    <3>4. RemapOptional(x.route, ids.routes) \in References(k)
      BY <3>2, <3>3 DEF References
    <3>5. x.route \in Optional(IDsOf(c.routes))
      <4>1. CASE Whole(k)
        BY <1>1, <3>4, <4>1, Remapped DEF Whole, Optional
      <4>2. CASE Resolves(c)
        BY <4>2 DEF Resolves
      <4> QED
        BY <4>1, <4>2
    <3>6. RemapOptional(x.route, ids.routes) = MovedRef(x.route, d)
      BY <1>1, <3>5, Remapped DEF Optional, MovedRef
    <3> QED
      BY <3>1, <3>5, <3>6 DEF CopyRawCapture
  <2> QED
    BY <2>1, <2>2
<1> QED
  BY <1>2, <1>3, <1>4, <1>5, <1>6, <1>7, <1>8, <1>9, <1>10, <1>11, <1>12, <1>13, <1>14, <1>15,
     <1>16, <1>17 DEF Resolves

-----------------------------------------------------------------------------
(* A clone compiles to what its original compiles to.                     *)

\* k is the clone of the content c of revision rev as revision d.
IsClone(c, k, rev, d) ==
    c \in Contents(rev) /\ k = CloneActive(c, d) /\ (Whole(k) \/ Resolves(c))

\* A moved reference resolves in the clone to the name it resolved to before.
LEMMA NameKept ==
    ASSUME NEW rev, NEW d, NEW table, NEW copy,
           \A x \in table : x.id \in Rows(rev),
           IDsOf(copy) = {Moved(x.id, d) : x \in table},
           NEW id \in Optional(IDsOf(table))
    PROVE  /\ NameIn(copy, MovedRef(id, d)) = NameIn(table, id)
           /\ id \in IDsOf(table) => NameIn(copy, Moved(id, d)) = NameIn(table, id)
<1>1. ASSUME id \in IDsOf(table)
      PROVE  /\ NameIn(copy, Moved(id, d)) = NameIn(table, id)
             /\ id # NoID
  <2>1. id \in Rows(rev) /\ Moved(id, d) \in IDsOf(copy)
    BY <1>1 DEF IDsOf
  <2> QED
    BY <1>1, <2>1, RowID DEF NameIn
<1>2. CASE id = NoID
  <2>1. NoID \notin IDsOf(table)
    BY RowID DEF IDsOf
  <2>2. NoID \notin IDsOf(copy)
    BY RowID DEF IDsOf
  <2> QED
    BY <1>1, <1>2, <2>1, <2>2 DEF NameIn, MovedRef
<1> QED
  BY <1>1, <1>2 DEF Optional, MovedRef

\* NameKept for the tables that are looked up by reference.
LEMMA ClonedNames ==
    ASSUME NEW rev, NEW c, NEW d, NEW k, IsClone(c, k, rev, d)
    PROVE  /\ \A id \in Optional(IDsOf(c.providers)) :
                 NameIn(k.providers, MovedRef(id, d)) = NameIn(c.providers, id)
           /\ \A id \in Optional(IDsOf(c.routes)) :
                 /\ NameIn(k.routes, MovedRef(id, d)) = NameIn(c.routes, id)
                 /\ id \in IDsOf(c.routes) => NameIn(k.routes, Moved(id, d)) = NameIn(c.routes, id)
           /\ \A id \in IDsOf(c.verdictProviders) :
                 NameIn(k.verdictProviders, Moved(id, d)) = NameIn(c.verdictProviders, id)
           /\ \A id \in Optional(IDsOf(c.sinks)) :
                 NameIn(k.sinks, MovedRef(id, d)) = NameIn(c.sinks, id)
<1>1. /\ c.providers \subseteq ProviderRows(rev) /\ c.routes \subseteq RouteRows(rev)
      /\ c.verdictProviders \subseteq VerdictProviderRows(rev) /\ c.sinks \subseteq SinkRows(rev)
  BY Columns DEF IsClone
<1>2. /\ k.providers = {CopyProvider(x, d) : x \in c.providers}
      /\ k.routes = {CopyRoute(x, d) : x \in c.routes}
      /\ k.verdictProviders = {CopyVerdictProvider(x, d) : x \in c.verdictProviders}
      /\ k.sinks = {CopySink(x, d) : x \in c.sinks}
  BY Cloned DEF IsClone
<1>3. /\ \A x \in ProviderRows(rev) : x.id \in Rows(rev) /\ CopyProvider(x, d).id = Moved(x.id, d)
      /\ \A x \in RouteRows(rev) : x.id \in Rows(rev) /\ CopyRoute(x, d).id = Moved(x.id, d)
      /\ \A x \in VerdictProviderRows(rev) :
            x.id \in Rows(rev) /\ CopyVerdictProvider(x, d).id = Moved(x.id, d)
      /\ \A x \in SinkRows(rev) : x.id \in Rows(rev) /\ CopySink(x, d).id = Moved(x.id, d)
  BY DEF ProviderRows, RouteRows, VerdictProviderRows, SinkRows,
         CopyProvider, CopyRoute, CopyVerdictProvider, CopySink
<1>4. /\ \A x \in c.providers : x.id \in Rows(rev)
      /\ IDsOf(k.providers) = {Moved(x.id, d) : x \in c.providers}
  BY <1>1, <1>2, <1>3 DEF IDsOf
<1>5. /\ \A x \in c.routes : x.id \in Rows(rev)
      /\ IDsOf(k.routes) = {Moved(x.id, d) : x \in c.routes}
  BY <1>1, <1>2, <1>3 DEF IDsOf
<1>6. /\ \A x \in c.verdictProviders : x.id \in Rows(rev)
      /\ IDsOf(k.verdictProviders) = {Moved(x.id, d) : x \in c.verdictProviders}
  BY <1>1, <1>2, <1>3 DEF IDsOf
<1>7. /\ \A x \in c.sinks : x.id \in Rows(rev)
      /\ IDsOf(k.sinks) = {Moved(x.id, d) : x \in c.sinks}
  BY <1>1, <1>2, <1>3 DEF IDsOf
<1>8. \A id \in Optional(IDsOf(c.providers)) :
          NameIn(k.providers, MovedRef(id, d)) = NameIn(c.providers, id)
  BY <1>4, NameKept
<1>9. \A id \in Optional(IDsOf(c.routes)) :
          /\ NameIn(k.routes, MovedRef(id, d)) = NameIn(c.routes, id)
          /\ id \in IDsOf(c.routes) => NameIn(k.routes, Moved(id, d)) = NameIn(c.routes, id)
  BY <1>5, NameKept
<1>10. \A id \in Optional(IDsOf(c.verdictProviders)) :
          /\ NameIn(k.verdictProviders, MovedRef(id, d)) = NameIn(c.verdictProviders, id)
          /\ id \in IDsOf(c.verdictProviders) =>
                NameIn(k.verdictProviders, Moved(id, d)) = NameIn(c.verdictProviders, id)
  BY <1>6, NameKept
<1>11. \A id \in Optional(IDsOf(c.sinks)) :
          NameIn(k.sinks, MovedRef(id, d)) = NameIn(c.sinks, id)
  BY <1>7, NameKept
<1> QED
  BY <1>8, <1>9, <1>10, <1>11 DEF Optional

\* The clone has the route limits and the overrides of its original.
LEMMA ClonedLimits ==
    ASSUME NEW rev, NEW c, NEW d, NEW k, IsClone(c, k, rev, d)
    PROVE  /\ ConvertRouteLimits(k) = ConvertRouteLimits(c)
           /\ ConvertClientRouteLimitOverrides(k) = ConvertClientRouteLimitOverrides(c)
<1>1. /\ c.limits \subseteq LimitRows(rev) /\ c.overrides \subseteq OverrideRows(rev)
      /\ k.limits = {CopyLimit(x, d) : x \in c.limits}
      /\ k.overrides = {CopyOverride(x, d) : x \in c.overrides}
      /\ \A x \in c.limits : x.route \in IDsOf(c.routes)
      /\ \A x \in c.overrides : x.route \in IDsOf(c.routes)
  BY Columns, Cloned DEF IsClone, Resolves
<1>2. \A id \in IDsOf(c.routes) : NameIn(k.routes, Moved(id, d)) = NameIn(c.routes, id)
  BY ClonedNames DEF Optional
<1>3. \A x \in c.limits :
          /\ NameIn(k.routes, CopyLimit(x, d).route) = NameIn(c.routes, x.route)
          /\ CopyLimit(x, d).enabled = x.enabled
  BY <1>1, <1>2 DEF LimitRows, CopyLimit
<1>4. \A x \in c.overrides :
          /\ NameIn(k.routes, CopyOverride(x, d).route) = NameIn(c.routes, x.route)
          /\ CopyOverride(x, d).enabled = x.enabled /\ CopyOverride(x, d).client = x.client
  BY <1>1, <1>2 DEF OverrideRows, CopyOverride
<1>5. ConvertRouteLimits(k) = ConvertRouteLimits(c)
  BY <1>1, <1>3 DEF ConvertRouteLimits
<1>6. ConvertClientRouteLimitOverrides(k) = ConvertClientRouteLimitOverrides(c)
  BY <1>1, <1>4 DEF ConvertClientRouteLimitOverrides
<1> QED
  BY <1>5, <1>6

\* The clone has the sinks, the retention and the raw capture of its original.
LEMMA ClonedObservability ==
    ASSUME NEW rev, NEW c, NEW d, NEW k, IsClone(c, k, rev, d)
    PROVE  /\ ConvertSinks(k) = ConvertSinks(c)
           /\ ConvertRetentionPolicies(k) = ConvertRetentionPolicies(c)
           /\ ConvertRawCapturePolicies(k) = ConvertRawCapturePolicies(c)
<1>1. /\ c.sinks \subseteq SinkRows(rev) /\ c.retention \subseteq RetentionRows(rev)
      /\ c.rawCapture \subseteq RawCaptureRows(rev)
      /\ k.sinks = {CopySink(x, d) : x \in c.sinks}
      /\ k.retention = {CopyRetention(x, d) : x \in c.retention}
      /\ k.rawCapture = {CopyRawCapture(x, d) : x \in c.rawCapture}
      /\ \A x \in c.retention : x.sink \in Optional(IDsOf(c.sinks))
      /\ \A x \in c.rawCapture : x.route \in Optional(IDsOf(c.routes))
  BY Columns, Cloned DEF IsClone, Resolves
<1>2. \A x \in c.sinks : /\ Name(CopySink(x, d).id) = Name(x.id)
                         /\ CopySink(x, d).enabled = x.enabled
  BY <1>1, RowID DEF SinkRows, CopySink
<1>3. \A x \in c.retention :
          /\ NameIn(k.sinks, CopyRetention(x, d).sink) = NameIn(c.sinks, x.sink)
          /\ CopyRetention(x, d).name = x.name
  <2>1. \A x \in c.retention : /\ CopyRetention(x, d).sink = MovedRef(x.sink, d)
                               /\ CopyRetention(x, d).name = x.name
    BY <1>1 DEF RetentionRows, CopyRetention
  <2>2. \A id \in Optional(IDsOf(c.sinks)) : NameIn(k.sinks, MovedRef(id, d)) = NameIn(c.sinks, id)
    BY ClonedNames
  <2> QED
    BY <1>1, <2>1, <2>2
<1>4. \A x \in c.rawCapture :
          /\ NameIn(k.routes, CopyRawCapture(x, d).route) = NameIn(c.routes, x.route)
          /\ CopyRawCapture(x, d).direction = x.direction
          /\ CopyRawCapture(x, d).enabled = x.enabled
  BY <1>1, ClonedNames DEF RawCaptureRows, CopyRawCapture
<1>5. ConvertSinks(k) = ConvertSinks(c)
  BY <1>1, <1>2 DEF ConvertSinks
<1>6. ConvertRetentionPolicies(k) = ConvertRetentionPolicies(c)
  <2> DEFINE Policy(e, p) == [key |-> p.name, sink |-> NameIn(e.sinks, p.sink)]
  <2>1. \A x \in c.retention : Policy(k, CopyRetention(x, d)) = Policy(c, x)
    BY <1>3
  <2>2. \A e : ConvertRetentionPolicies(e) = {Policy(e, p) : p \in e.retention}
    BY DEF ConvertRetentionPolicies
  <2> HIDE DEF Policy
  <2>3. {Policy(k, p) : p \in k.retention} = {Policy(k, CopyRetention(x, d)) : x \in c.retention}
    BY <1>1
  <2>4. {Policy(k, CopyRetention(x, d)) : x \in c.retention} = {Policy(c, x) : x \in c.retention}
    BY <2>1
  <2> QED
    BY <2>2, <2>3, <2>4
<1>7. ConvertRawCapturePolicies(k) = ConvertRawCapturePolicies(c)
  BY <1>1, <1>4 DEF ConvertRawCapturePolicies
<1> QED
  BY <1>5, <1>6, <1>7

\* The clone has the providers, the verdict providers and the bindings of its
\* original.
LEMMA ClonedProviders ==
    ASSUME NEW rev, NEW c, NEW d, NEW k, IsClone(c, k, rev, d)
    PROVE  /\ {Name(p.id) : p \in k.providers} = {Name(p.id) : p \in c.providers}
           /\ (\A p \in k.providers : p.credential) <=> (\A p \in c.providers : p.credential)
           /\ VerdictProviderKeys(k) = VerdictProviderKeys(c)
           /\ (\A v \in GatewayVerdictProviders(k) : v.credential)
                 <=> (\A v \in GatewayVerdictProviders(c) : v.credential)
           /\ ConvertRouteVerdictProviderBindings(k) = ConvertRouteVerdictProviderBindings(c)
<1>1. /\ c.providers \subseteq ProviderRows(rev)
      /\ c.verdictProviders \subseteq VerdictProviderRows(rev)
      /\ c.verdictBindings \subseteq VerdictBindingRows(rev)
      /\ k.providers = {CopyProvider(x, d) : x \in c.providers}
      /\ k.verdictProviders = {CopyVerdictProvider(x, d) : x \in c.verdictProviders}
      /\ k.verdictBindings = {CopyVerdictBinding(x, d) : x \in c.verdictBindings}
      /\ \A x \in c.verdictBindings :
            x.route \in IDsOf(c.routes) /\ x.provider \in IDsOf(c.verdictProviders)
  BY Columns, Cloned DEF IsClone, Resolves
<1>2. \A x \in c.providers : /\ Name(CopyProvider(x, d).id) = Name(x.id)
                             /\ CopyProvider(x, d).credential = x.credential
  BY <1>1, RowID DEF ProviderRows, CopyProvider
<1>3. \A x \in c.verdictProviders :
          /\ Name(CopyVerdictProvider(x, d).id) = Name(x.id)
          /\ CopyVerdictProvider(x, d).endpoint = x.endpoint
          /\ CopyVerdictProvider(x, d).enabled = x.enabled
          /\ CopyVerdictProvider(x, d).credential = x.credential
  BY <1>1, RowID DEF VerdictProviderRows, CopyVerdictProvider
<1>4. \A x \in c.verdictBindings :
          /\ NameIn(k.routes, CopyVerdictBinding(x, d).route) = NameIn(c.routes, x.route)
          /\ NameIn(k.verdictProviders, CopyVerdictBinding(x, d).provider)
                = NameIn(c.verdictProviders, x.provider)
          /\ CopyVerdictBinding(x, d).enabled = x.enabled
          /\ CopyVerdictBinding(x, d).execution = x.execution
          /\ CopyVerdictBinding(x, d).priority = x.priority
  <2>1. \A x \in c.verdictBindings :
            /\ CopyVerdictBinding(x, d).route = Moved(x.route, d)
            /\ CopyVerdictBinding(x, d).provider = Moved(x.provider, d)
            /\ CopyVerdictBinding(x, d).enabled = x.enabled
            /\ CopyVerdictBinding(x, d).execution = x.execution
            /\ CopyVerdictBinding(x, d).priority = x.priority
    BY <1>1 DEF VerdictBindingRows, CopyVerdictBinding
  <2>2. /\ \A id \in IDsOf(c.routes) : NameIn(k.routes, Moved(id, d)) = NameIn(c.routes, id)
        /\ \A id \in IDsOf(c.verdictProviders) :
              NameIn(k.verdictProviders, Moved(id, d)) = NameIn(c.verdictProviders, id)
    BY ClonedNames DEF Optional
  <2> QED
    BY <1>1, <2>1, <2>2
<1>5. {Name(p.id) : p \in k.providers} = {Name(p.id) : p \in c.providers}
  BY <1>1, <1>2
<1>6. (\A p \in k.providers : p.credential) <=> (\A p \in c.providers : p.credential)
  BY <1>1, <1>2
<1>7. VerdictProviderKeys(k) = VerdictProviderKeys(c)
  BY <1>1, <1>3 DEF VerdictProviderKeys, GatewayVerdictProviders
<1>8. (\A v \in GatewayVerdictProviders(k) : v.credential)
          <=> (\A v \in GatewayVerdictProviders(c) : v.credential)
  BY <1>1, <1>3 DEF GatewayVerdictProviders
<1>9. ConvertRouteVerdictProviderBindings(k) = ConvertRouteVerdictProviderBindings(c)
  <2> DEFINE Binding(e, b) ==
               [route |-> NameIn(e.routes, b.route),
                provider |-> NameIn(e.verdictProviders, b.provider), disabled |-> ~ b.enabled,
                execution |-> b.execution, priority |-> b.priority]
  <2>1. \A x \in c.verdictBindings : Binding(k, CopyVerdictBinding(x, d)) = Binding(c, x)
    BY <1>4
  <2>2. \A e : ConvertRouteVerdictProviderBindings(e) = {Binding(e, b) : b \in e.verdictBindings}
    BY DEF ConvertRouteVerdictProviderBindings
  <2> HIDE DEF Binding
  <2>3. {Binding(k, b) : b \in k.verdictBindings}
            = {Binding(k, CopyVerdictBinding(x, d)) : x \in c.verdictBindings}
    BY <1>1
  <2>4. {Binding(k, CopyVerdictBinding(x, d)) : x \in c.verdictBindings}
            = {Binding(c, x) : x \in c.verdictBindings}
    BY <2>1
  <2> QED
    BY <2>2, <2>3, <2>4
<1> QED
  BY <1>5, <1>6, <1>7, <1>8, <1>9

\* The clone has the mappings and the routes of its original.
LEMMA ClonedRoutes ==
    ASSUME NEW rev, NEW c, NEW d, NEW k, IsClone(c, k, rev, d)
    PROVE  /\ ConvertModelMappings(k) = ConvertModelMappings(c)
           /\ ConvertRoutes(k) = ConvertRoutes(c)
           /\ {Name(r.id) : r \in k.routes} = {Name(r.id) : r \in c.routes}
<1>1. /\ c.mappings \subseteq MappingRows(rev) /\ c.routes \subseteq RouteRows(rev)
      /\ k.mappings = {CopyMapping(x, d) : x \in c.mappings}
      /\ k.routes = {CopyRoute(x, d) : x \in c.routes}
      /\ \A x \in c.mappings : x.target \in Optional(IDsOf(c.providers))
      /\ \A x \in c.routes : x.mapping \in Optional(IDsOf(c.mappings))
  BY Columns, Cloned DEF IsClone, Resolves
<1>2. \A x \in c.mappings :
          /\ CopyMapping(x, d).id = Moved(x.id, d)
          /\ CopyMapping(x, d).target = MovedRef(x.target, d)
          /\ CopyMapping(x, d).model = x.model
          /\ CopyMapping(x, d).routeKey = x.routeKey
          /\ CopyMapping(x, d).provider = x.provider
          /\ CopyMapping(x, d).enabled = x.enabled
  BY <1>1 DEF MappingRows, CopyMapping
<1>3. \A x \in c.routes :
          /\ CopyRoute(x, d).id = Moved(x.id, d)
          /\ CopyRoute(x, d).mapping = MovedRef(x.mapping, d)
          /\ CopyRoute(x, d).enabled = x.enabled
          /\ CopyRoute(x, d).provider = x.provider
          /\ CopyRoute(x, d).execution = x.execution
          /\ CopyRoute(x, d).fallback = x.fallback
          /\ CopyRoute(x, d).upstream = x.upstream
  BY <1>1 DEF RouteRows, CopyRoute
<1>4. /\ \A x \in c.mappings : x.id \in Rows(rev) /\ Name(Moved(x.id, d)) = Name(x.id)
      /\ \A x \in c.routes : x.id \in Rows(rev) /\ Name(Moved(x.id, d)) = Name(x.id)
  BY <1>1, RowID DEF MappingRows, RouteRows
<1>5. ConvertModelMappings(k) = ConvertModelMappings(c)
  <2>1. \A x \in c.mappings :
            NameIn(k.providers, CopyMapping(x, d).target) = NameIn(c.providers, x.target)
    BY <1>1, <1>2, ClonedNames
  <2>2. \A x \in c.mappings : Name(CopyMapping(x, d).id) = Name(x.id)
    BY <1>2, <1>4
  <2> QED
    BY <1>1, <1>2, <2>1, <2>2 DEF ConvertModelMappings
<1>6. \A r \in c.routes : RouteModel(k, CopyRoute(r, d)) = RouteModel(c, r)
  <2> SUFFICES ASSUME NEW r \in c.routes PROVE RouteModel(k, CopyRoute(r, d)) = RouteModel(c, r)
    OBVIOUS
  <2>1. \A m \in c.mappings :
            /\ CopyMapping(m, d).id = CopyRoute(r, d).mapping <=> m.id = r.mapping
    <3>1. r.mapping = NoID \/ r.mapping \in Rows(rev)
      BY <1>1 DEF Optional, RouteRows
    <3>2. \A m \in c.mappings : m.id # NoID /\ Moved(m.id, d) # NoID
      BY <1>4, RowID
    <3>3. CASE r.mapping = NoID
      BY <1>2, <1>3, <3>2, <3>3 DEF MovedRef
    <3>4. CASE r.mapping # NoID
      BY <1>2, <1>3, <1>4, <3>1, <3>4, MovedApart DEF MovedRef
    <3> QED
      BY <3>3, <3>4
  <2> QED
    BY <1>1, <1>2, <2>1 DEF RouteModel
<1>7. ConvertRoutes(k) = ConvertRoutes(c)
  <2>1. \A x \in c.routes : Name(CopyRoute(x, d).id) = Name(x.id)
    BY <1>3, <1>4
  <2> DEFINE Mapped(models, upstream) ==
               IF models = {} THEN [requested |-> "", mapped |-> "", upstream |-> upstream]
               ELSE LET m == CHOOSE m \in models : TRUE
                    IN  [requested |-> m, mapped |-> m, upstream |-> FirstNonEmpty(m, upstream)]
             Route(e, r) ==
               [key |-> Name(r.id), provider |-> r.provider, execution |-> r.execution,
                fallback |-> r.fallback, disabled |-> ~ r.enabled,
                models |-> Mapped(RouteModel(e, r), r.upstream)]
  <2>2. \A e : ConvertRoutes(e) = {Route(e, r) : r \in e.routes}
    BY DEF ConvertRoutes
  <2> HIDE DEF Mapped
  <2>3. \A x \in c.routes : Route(k, CopyRoute(x, d)) = Route(c, x)
    BY <1>3, <1>6, <2>1
  <2> HIDE DEF Route
  <2>4. {Route(k, r) : r \in k.routes} = {Route(k, CopyRoute(x, d)) : x \in c.routes}
    BY <1>1
  <2>5. {Route(k, CopyRoute(x, d)) : x \in c.routes} = {Route(c, x) : x \in c.routes}
    BY <2>3
  <2> QED
    BY <2>2, <2>4, <2>5
<1>8. {Name(r.id) : r \in k.routes} = {Name(r.id) : r \in c.routes}
  BY <1>1, <1>3, <1>4
<1> QED
  BY <1>5, <1>7, <1>8

\* A rule as it is loaded.
HydratedRule(c, r) ==
    [key |-> Name(r.id), enabled |-> r.enabled, action |-> r.action,
     detectors |-> HydrateRuleDetectorKeys(c, r), scopes |-> HydrateRuleScopes(c, r)]

\* The copy of a rule is loaded and converted as the rule is.
LEMMA ClonedRule ==
    ASSUME NEW rev, NEW c, NEW d, NEW k, IsClone(c, k, rev, d), NEW r \in c.rules
    PROVE  /\ CopyRule(r, d).enabled = r.enabled
           /\ ConvertRule(k, HydratedRule(k, CopyRule(r, d))) = ConvertRule(c, HydratedRule(c, r))
<1>1. /\ c.rules \subseteq RuleRows(rev) /\ c.ruleDetectors \subseteq RuleDetectorRows(rev)
      /\ c.ruleScopes \subseteq RuleScopeRows(rev)
      /\ k.ruleDetectors = {CopyRuleDetector(x, d) : x \in c.ruleDetectors}
      /\ k.ruleScopes = {CopyRuleScope(x, d) : x \in c.ruleScopes}
      /\ \A x \in c.ruleScopes : /\ x.route \in Optional(IDsOf(c.routes))
                                 /\ x.provider \in Optional(IDsOf(c.providers))
  BY Columns, Cloned DEF IsClone, Resolves
<1>2. /\ CopyRule(r, d).id = Moved(r.id, d) /\ CopyRule(r, d).enabled = r.enabled
      /\ CopyRule(r, d).action = r.action /\ r.id \in Items(rev)
  BY <1>1 DEF RuleRows, CopyRule
<1>3. Name(CopyRule(r, d).id) = Name(r.id)
  BY <1>2, ItemID
<1>4. HydrateRuleDetectorKeys(k, CopyRule(r, d)) = HydrateRuleDetectorKeys(c, r)
  <2>1. \A x \in c.ruleDetectors :
            /\ x.rule \in Items(rev) /\ x.detector \in Items(rev)
            /\ CopyRuleDetector(x, d).rule = Moved(x.rule, d)
            /\ CopyRuleDetector(x, d).detector = Moved(x.detector, d)
    BY <1>1 DEF RuleDetectorRows, CopyRuleDetector
  <2>2. \A x \in c.ruleDetectors :
            /\ CopyRuleDetector(x, d).rule = CopyRule(r, d).id <=> x.rule = r.id
    BY <1>2, <2>1, MovedApart
  <2>3. \A x \in c.ruleDetectors : Name(CopyRuleDetector(x, d).detector) = Name(x.detector)
    BY <2>1, ItemID
  <2> QED
    BY <1>1, <2>2, <2>3 DEF HydrateRuleDetectorKeys
<1> DEFINE Mine(e, id) == {t \in e.ruleScopes : t.rule = id}
           Scope(e, s) ==
               [route |-> NameIn(e.routes, s.route), provider |-> NameIn(e.providers, s.provider),
                model |-> s.model, direction |-> PolicyDirection(s.direction)]
           Scopes(e, id) == {Scope(e, s) : s \in Mine(e, id)}
<1>5. \A x \in c.ruleScopes :
          /\ CopyRuleScope(x, d).rule = CopyRule(r, d).id <=> x.rule = r.id
          /\ Scope(k, CopyRuleScope(x, d)) = Scope(c, x)
  <2>1. \A x \in c.ruleScopes :
            /\ x.rule \in Items(rev)
            /\ CopyRuleScope(x, d).rule = Moved(x.rule, d)
            /\ CopyRuleScope(x, d).route = MovedRef(x.route, d)
            /\ CopyRuleScope(x, d).provider = MovedRef(x.provider, d)
            /\ CopyRuleScope(x, d).model = x.model
            /\ CopyRuleScope(x, d).direction = x.direction
    BY <1>1 DEF RuleScopeRows, CopyRuleScope
  <2>2. /\ \A id \in Optional(IDsOf(c.providers)) :
              NameIn(k.providers, MovedRef(id, d)) = NameIn(c.providers, id)
        /\ \A id \in Optional(IDsOf(c.routes)) :
              NameIn(k.routes, MovedRef(id, d)) = NameIn(c.routes, id)
    BY ClonedNames
  <2>3. \A x \in c.ruleScopes : Scope(k, CopyRuleScope(x, d)) = Scope(c, x)
    BY <1>1, <2>1, <2>2
  <2>4. \A x \in c.ruleScopes : CopyRuleScope(x, d).rule = CopyRule(r, d).id <=> x.rule = r.id
    BY <1>2, <2>1, MovedApart
  <2> QED
    BY <2>3, <2>4
<1>6. \A e, x : ConvertRule(e, HydratedRule(e, x)) =
          {[key |-> Name(x.id), enabled |-> x.enabled, action |-> x.action,
            detectors |-> HydrateRuleDetectorKeys(e, x), scope |-> s] :
              s \in IF Mine(e, x.id) = {} THEN {NoScope} ELSE Scopes(e, x.id)}
  <2> TAKE e, x
  <2> DEFINE Loaded(s) == [route |-> s.route, provider |-> s.provider, model |-> s.model,
                           direction |-> PolicyDirection(s.direction)]
  <2>1. HydrateRuleScopes(e, x) = {Loaded(s) : s \in Mine(e, x.id)}
    BY DEF HydrateRuleScopes
  <2>2. HydrateRuleScopes(e, x) = {} <=> Mine(e, x.id) = {}
    BY <2>1
  <2>3. {ConvertScope(e, t) : t \in HydrateRuleScopes(e, x)} = Scopes(e, x.id)
    <3>1. \A s : ConvertScope(e, Loaded(s)) = Scope(e, s)
      BY DEF ConvertScope
    <3> HIDE DEF Loaded, Scope, Mine
    <3> QED
      BY <2>1, <3>1
  <2> QED
    BY <2>2, <2>3 DEF ConvertRule, HydratedRule
<1> HIDE DEF Scope
<1>7. /\ Mine(k, CopyRule(r, d).id) = {} <=> Mine(c, r.id) = {}
      /\ Scopes(k, CopyRule(r, d).id) = Scopes(c, r.id)
  BY <1>1, <1>5
<1> HIDE DEF Mine, Scopes
<1>8. ConvertRule(k, HydratedRule(k, CopyRule(r, d))) = ConvertRule(c, HydratedRule(c, r))
  <2> DEFINE Rules(name, enabled, action, detectors, none, scopes) ==
               {[key |-> name, enabled |-> enabled, action |-> action, detectors |-> detectors,
                 scope |-> s] : s \in IF none THEN {NoScope} ELSE scopes}
  <2>1. \A e, x : ConvertRule(e, HydratedRule(e, x)) =
            Rules(Name(x.id), x.enabled, x.action, HydrateRuleDetectorKeys(e, x),
                  Mine(e, x.id) = {}, Scopes(e, x.id))
    BY <1>6
  <2> HIDE DEF Rules
  <2> QED
    BY <1>2, <1>3, <1>4, <1>7, <2>1
<1> QED
  BY <1>2, <1>8

\* The copy of a bundle is loaded and converted as the bundle is.
LEMMA ClonedBundle ==
    ASSUME NEW rev, NEW c, NEW d, NEW k, IsClone(c, k, rev, d), NEW b \in c.bundles
    PROVE  /\ Name(CopyBundle(b, d).id) = Name(b.id)
           /\ CopyBundle(b, d).enabled = b.enabled /\ CopyBundle(b, d).action = b.action
           /\ HydrateDetectors(k, CopyBundle(b, d)) = HydrateDetectors(c, b)
           /\ UNION {ConvertRule(k, s) :
                        s \in {x \in HydrateRules(k, CopyBundle(b, d)) : x.enabled}}
                 = UNION {ConvertRule(c, s) : s \in {x \in HydrateRules(c, b) : x.enabled}}
<1>1. /\ c.rules \subseteq RuleRows(rev) /\ c.detectors \subseteq DetectorRows(rev)
      /\ c.bundles \subseteq BundleRows(rev)
      /\ k.rules = {CopyRule(x, d) : x \in c.rules}
      /\ k.detectors = {CopyDetector(x, d) : x \in c.detectors}
  BY Columns, Cloned DEF IsClone, Resolves
<1>2. /\ CopyBundle(b, d).id = Moved(b.id, d) /\ CopyBundle(b, d).enabled = b.enabled
      /\ CopyBundle(b, d).action = b.action /\ b.id \in Rows(rev)
  BY <1>1 DEF BundleRows, CopyBundle
<1>3. Name(CopyBundle(b, d).id) = Name(b.id)
  BY <1>2, RowID
<1>4. \A x \in c.rules : CopyRule(x, d).bundle = CopyBundle(b, d).id <=> x.bundle = b.id
  <2>1. \A x \in c.rules : CopyRule(x, d).bundle = Moved(x.bundle, d) /\ x.bundle \in Rows(rev)
    BY <1>1 DEF RuleRows, CopyRule
  <2> QED
    BY <1>2, <2>1, MovedApart
<1>5. HydrateDetectors(k, CopyBundle(b, d)) = HydrateDetectors(c, b)
  <2>1. \A x \in c.detectors :
            /\ x.id \in Items(rev) /\ x.bundle \in Rows(rev)
            /\ CopyDetector(x, d).id = Moved(x.id, d)
            /\ CopyDetector(x, d).bundle = Moved(x.bundle, d)
            /\ CopyDetector(x, d).enabled = x.enabled
    BY <1>1 DEF DetectorRows, CopyDetector
  <2>2. \A x \in c.detectors :
            /\ Name(CopyDetector(x, d).id) = Name(x.id)
            /\ CopyDetector(x, d).bundle = CopyBundle(b, d).id <=> x.bundle = b.id
    BY <1>2, <2>1, MovedApart, ItemID
  <2> QED
    BY <1>1, <2>1, <2>2 DEF HydrateDetectors
<1> DEFINE Rules(e, id) == {x \in e.rules : x.bundle = id /\ x.enabled}
           Converted(e, x) == ConvertRule(e, HydratedRule(e, x))
<1>6. \A e, x : {s \in HydrateRules(e, x) : s.enabled} = {HydratedRule(e, y) : y \in Rules(e, x.id)}
  BY DEF HydrateRules, HydratedRule
<1>7. \A e, x : {ConvertRule(e, s) : s \in {y \in HydrateRules(e, x) : y.enabled}}
                    = {Converted(e, y) : y \in Rules(e, x.id)}
  BY <1>6
<1>8. \A x \in c.rules :
          CopyRule(x, d).enabled = x.enabled /\ Converted(k, CopyRule(x, d)) = Converted(c, x)
  BY ClonedRule
<1> HIDE DEF Converted
<1>9. {Converted(k, y) : y \in Rules(k, CopyBundle(b, d).id)}
          = {Converted(c, y) : y \in Rules(c, b.id)}
  BY <1>1, <1>4, <1>8
<1> HIDE DEF Rules
<1> QED
  BY <1>2, <1>3, <1>5, <1>7, <1>9

\* The clone has the policy bundles of its original.
LEMMA ClonedBundles ==
    ASSUME NEW rev, NEW c, NEW d, NEW k, IsClone(c, k, rev, d)
    PROVE  ConvertPolicyBundles(k) = ConvertPolicyBundles(c)
<1>1. k.bundles = {CopyBundle(x, d) : x \in c.bundles}
  BY Cloned DEF IsClone
<1> DEFINE Enabled(e) == {b \in e.bundles : b.enabled}
           Converted(e, b) ==
               [key |-> Name(b.id), action |-> FirstNonEmpty(b.action, "allow"),
                detectors |-> {x.key : x \in {y \in HydrateDetectors(e, b) : y.enabled}},
                rules |-> UNION {ConvertRule(e, s) : s \in {x \in HydrateRules(e, b) : x.enabled}}]
<1>2. \A e : ConvertPolicyBundles(e) = {Converted(e, b) : b \in Enabled(e)}
  <2> TAKE e
  <2> DEFINE Loaded(b) == [key |-> Name(b.id), enabled |-> b.enabled, action |-> b.action,
                           detectors |-> HydrateDetectors(e, b), rules |-> HydrateRules(e, b)]
  <2>1. LoadBundles(e) = {Loaded(b) : b \in e.bundles}
    BY Zenon DEF LoadBundles
  <2>2. \A b : ConvertPolicyBundle(e, Loaded(b)) = Converted(e, b) /\ Loaded(b).enabled = b.enabled
    BY DEF ConvertPolicyBundle
  <2> HIDE DEF Loaded, Converted
  <2>3. {a \in LoadBundles(e) : a.enabled} = {Loaded(b) : b \in Enabled(e)}
    BY <2>1, <2>2
  <2>4. ConvertPolicyBundles(e) = {ConvertPolicyBundle(e, a) : a \in {Loaded(b) : b \in Enabled(e)}}
    BY <2>3 DEF ConvertPolicyBundles
  <2> HIDE DEF Enabled
  <2> QED
    BY <2>2, <2>4
<1>3. \A b \in c.bundles :
          CopyBundle(b, d).enabled = b.enabled /\ Converted(k, CopyBundle(b, d)) = Converted(c, b)
  <2> TAKE b \in c.bundles
  <2> DEFINE Keys(detectors) == {x.key : x \in {y \in detectors : y.enabled}}
             Rules(e, x) == UNION {ConvertRule(e, s) : s \in {y \in HydrateRules(e, x) : y.enabled}}
  <2>1. /\ Name(CopyBundle(b, d).id) = Name(b.id)
        /\ CopyBundle(b, d).enabled = b.enabled /\ CopyBundle(b, d).action = b.action
        /\ HydrateDetectors(k, CopyBundle(b, d)) = HydrateDetectors(c, b)
        /\ Rules(k, CopyBundle(b, d)) = Rules(c, b)
    BY ClonedBundle
  <2>2. \A e, x : Converted(e, x) =
            [key |-> Name(x.id), action |-> FirstNonEmpty(x.action, "allow"),
             detectors |-> Keys(HydrateDetectors(e, x)), rules |-> Rules(e, x)]
    OBVIOUS
  <2> HIDE DEF Keys, Rules, Converted
  <2> QED
    BY <2>1, <2>2
<1> HIDE DEF Converted
<1>4. {Converted(k, b) : b \in Enabled(k)} = {Converted(c, b) : b \in Enabled(c)}
  BY <1>1, <1>3
<1> HIDE DEF Enabled
<1> QED
  BY <1>2, <1>4

\* So the clone compiles to the same configurations.
LEMMA ClonedRuntime ==
    ASSUME NEW rev, NEW c, NEW d, NEW k, IsClone(c, k, rev, d), NEW clients
    PROVE  CompileGatewayRuntime(k, clients) = CompileGatewayRuntime(c, clients)
<1>1. /\ ConvertRouteLimits(k) = ConvertRouteLimits(c)
      /\ ConvertClientRouteLimitOverrides(k) = ConvertClientRouteLimitOverrides(c)
      /\ ConvertRawCapturePolicies(k) = ConvertRawCapturePolicies(c)
      /\ ConvertModelMappings(k) = ConvertModelMappings(c)
      /\ ConvertRoutes(k) = ConvertRoutes(c)
      /\ ConvertPolicyBundles(k) = ConvertPolicyBundles(c)
  BY ClonedLimits, ClonedObservability, ClonedRoutes, ClonedBundles
<1>2. /\ {Name(r.id) : r \in k.routes} = {Name(r.id) : r \in c.routes}
      /\ {Name(p.id) : p \in k.providers} = {Name(p.id) : p \in c.providers}
      /\ (\A p \in k.providers : p.credential) <=> (\A p \in c.providers : p.credential)
      /\ VerdictProviderKeys(k) = VerdictProviderKeys(c)
      /\ (\A v \in GatewayVerdictProviders(k) : v.credential)
            <=> (\A v \in GatewayVerdictProviders(c) : v.credential)
      /\ ConvertRouteVerdictProviderBindings(k) = ConvertRouteVerdictProviderBindings(c)
  BY ClonedRoutes, ClonedProviders
<1>3. /\ EnabledRouteKeys(k) = EnabledRouteKeys(c)
      /\ RouteLimitKeys(k) = RouteLimitKeys(c)
      /\ ClientOverrides(k) = ClientOverrides(c)
      /\ \A route : ActiveMappings(k, route) = ActiveMappings(c, route)
  BY <1>1 DEF EnabledRouteKeys, RouteLimitKeys, ClientOverrides, ActiveMappings
<1>4. ProtectedRouteKeys(k, clients) = ProtectedRouteKeys(c, clients)
  BY <1>3 DEF ProtectedRouteKeys
<1>5. BindingChoices(k) = BindingChoices(c)
  <2>1. \A route : FirstBindings(k, route) = FirstBindings(c, route)
    BY <1>2 DEF FirstBindings
  <2>2. BoundRoutes(k) = BoundRoutes(c)
    BY <1>2, <2>1 DEF BoundRoutes
  <2> QED
    BY <1>2, <2>1, <2>2 DEF BindingChoices
<1>6. \A f : GlobalVerdictProvider(k, f) = GlobalVerdictProvider(c, f)
  BY <1>2 DEF GlobalVerdictProvider
<1>7. \A f : Buildable(k, clients, f) <=> Buildable(c, clients, f)
  <2>1. {m.route : m \in ConvertModelMappings(k)} = {m.route : m \in ConvertModelMappings(c)}
    BY <1>1
  <2> QED
    BY <1>2, <1>3, <2>1 DEF Buildable
<1>8. \A f, r : GatewayRoute(k, clients, f, r) = GatewayRoute(c, clients, f, r)
  <2> DEFINE Route(mapped, protected, f, r) ==
               [key       |-> r.key,
                models    |-> IF mapped = {} THEN r.models
                              ELSE (CHOOSE m \in mapped : TRUE).models,
                provider  |-> IF mapped = {} THEN r.provider
                              ELSE FirstNonEmpty((CHOOSE m \in mapped : TRUE).provider, r.provider),
                verdict   |-> IF r.key \in DOMAIN f THEN f[r.key].provider ELSE "",
                execution |-> IF r.key \in DOMAIN f
                              THEN FirstNonEmpty(f[r.key].execution, r.execution) ELSE r.execution,
                fallback  |-> r.fallback,
                auth      |-> r.key \in protected]
  <2>1. \A e, f, r : GatewayRoute(e, clients, f, r) =
            Route(ActiveMappings(e, r.key), ProtectedRouteKeys(e, clients), f, r)
    BY Zenon DEF GatewayRoute
  <2> HIDE DEF Route
  <2> QED
    BY <1>3, <1>4, <2>1
<1>9. \A f : BuildConfig(k, clients, f) = BuildConfig(c, clients, f)
  <2> TAKE f
  <2> DEFINE Routes(e) == {GatewayRoute(e, clients, f, r) :
                               r \in {s \in ConvertRoutes(e) : ~ s.disabled}}
             Overridden(e) == {<<o.client, o.route>> : o \in ClientOverrides(e)}
             Names(e) == {Name(p.id) : p \in e.providers}
  <2>1. Routes(k) = Routes(c)
    BY <1>1, <1>8
  <2>2. Overridden(k) = Overridden(c) /\ Names(k) = Names(c)
    BY <1>2, <1>3
  <2>3. \A e : BuildConfig(e, clients, f) =
            [providers |-> Names(e), verdicts |-> VerdictProviderKeys(e),
             global |-> GlobalVerdictProvider(e, f), routes |-> Routes(e),
             limits |-> RouteLimitKeys(e), overrides |-> Overridden(e),
             capture |-> ConvertRawCapturePolicies(e), clients |-> clients,
             snapshot |-> CompileSnapshot(ConvertPolicyBundles(e))]
    BY Zenon DEF BuildConfig
  <2> HIDE DEF Routes, Overridden, Names
  <2> QED
    BY <1>1, <1>2, <1>3, <1>6, <2>1, <2>2, <2>3
<1> DEFINE Bindings(e) == {g \in BindingChoices(e) : Buildable(e, clients, g)}
<1>10. Bindings(k) = Bindings(c)
  BY <1>5, <1>7
<1>11. {BuildConfig(k, clients, f) : f \in Bindings(k)}
           = {BuildConfig(c, clients, f) : f \in Bindings(c)}
  BY <1>9, <1>10
<1> QED
  BY <1>1, <1>11 DEF CompileGatewayRuntime

-----------------------------------------------------------------------------
(* A clone has the schema's types, and its references are its own.        *)

\* No reference of a row that the schema admits is the error of a remap.
LEMMA ContentsWhole ==
    ASSUME NEW rev, NEW c \in Contents(rev)
    PROVE  Whole(c)
<1>1. \A id \in Rows(rev) \cup Items(rev) : id # Missing
  BY RowID, ItemID
<1>2. \A id \in Nat \X STRING : id # Missing
  <2> TAKE id \in Nat \X STRING
  <2>1. id \in Rows(id[1])
    BY DEF Rows
  <2> QED
    BY <2>1, RowID
<1>3. NoID # Missing
  BY DEF NoID, Missing
<1>4. \A x \in c.mappings : x.target # Missing
  BY <1>1, <1>2, <1>3, Columns DEF MappingRows, Optional
<1>5. \A x \in c.routes : x.mapping # Missing
  BY <1>1, <1>2, <1>3, Columns DEF RouteRows, Optional
<1>6. \A x \in c.limits : x.route # Missing
  BY <1>1, <1>2, <1>3, Columns DEF LimitRows, Optional
<1>7. \A x \in c.overrides : x.route # Missing
  BY <1>1, <1>2, <1>3, Columns DEF OverrideRows, Optional
<1>8. \A x \in c.verdictBindings : x.route # Missing /\ x.provider # Missing
  BY <1>1, <1>2, <1>3, Columns DEF VerdictBindingRows, Optional
<1>9. \A x \in c.detectors : x.bundle # Missing
  BY <1>1, <1>2, <1>3, Columns DEF DetectorRows, Optional
<1>10. \A x \in c.rules : x.bundle # Missing
  BY <1>1, <1>2, <1>3, Columns DEF RuleRows, Optional
<1>11. \A x \in c.ruleDetectors : x.rule # Missing /\ x.detector # Missing
  BY <1>1, <1>2, <1>3, Columns DEF RuleDetectorRows, Optional
<1>12. \A x \in c.ruleScopes : x.rule # Missing /\ x.route # Missing /\ x.provider # Missing
  BY <1>1, <1>2, <1>3, Columns DEF RuleScopeRows, Optional
<1>13. \A x \in c.routeBindings : x.route # Missing /\ x.bundle # Missing
  BY <1>1, <1>2, <1>3, Columns DEF RouteBindingRows, Optional
<1>14. \A x \in c.retention : x.sink # Missing
  BY <1>1, <1>2, <1>3, Columns DEF RetentionRows, Optional
<1>15. \A x \in c.rawCapture : x.route # Missing
  BY <1>1, <1>2, <1>3, Columns DEF RawCaptureRows, Optional
<1> QED
  BY <1>4, <1>5, <1>6, <1>7, <1>8, <1>9, <1>10, <1>11, <1>12, <1>13, <1>14, <1>15
  DEF Whole, References

\* The IDs of a clone are the copies' IDs.
LEMMA ClonedIDs ==
    ASSUME NEW rev, NEW c, NEW d, NEW k, IsClone(c, k, rev, d)
    PROVE  /\ IDsOf(k.providers) = {Moved(id, d) : id \in IDsOf(c.providers)}
           /\ IDsOf(k.mappings) = {Moved(id, d) : id \in IDsOf(c.mappings)}
           /\ IDsOf(k.routes) = {Moved(id, d) : id \in IDsOf(c.routes)}
           /\ IDsOf(k.verdictProviders) = {Moved(id, d) : id \in IDsOf(c.verdictProviders)}
           /\ IDsOf(k.bundles) = {Moved(id, d) : id \in IDsOf(c.bundles)}
           /\ IDsOf(k.detectors) = {Moved(id, d) : id \in IDsOf(c.detectors)}
           /\ IDsOf(k.rules) = {Moved(id, d) : id \in IDsOf(c.rules)}
           /\ IDsOf(k.sinks) = {Moved(id, d) : id \in IDsOf(c.sinks)}
<1>1. IDsOf(k.providers) = {Moved(id, d) : id \in IDsOf(c.providers)}
  <2>1. /\ c.providers \subseteq ProviderRows(rev)
        /\ k.providers = {CopyProvider(x, d) : x \in c.providers}
    BY Columns, Cloned DEF IsClone
  <2>2. \A x \in c.providers : CopyProvider(x, d).id = Moved(x.id, d)
    BY <2>1 DEF ProviderRows, CopyProvider
  <2> QED
    BY <2>1, <2>2 DEF IDsOf
<1>2. IDsOf(k.mappings) = {Moved(id, d) : id \in IDsOf(c.mappings)}
  <2>1. /\ c.mappings \subseteq MappingRows(rev)
        /\ k.mappings = {CopyMapping(x, d) : x \in c.mappings}
    BY Columns, Cloned DEF IsClone
  <2>2. \A x \in c.mappings : CopyMapping(x, d).id = Moved(x.id, d)
    BY <2>1 DEF MappingRows, CopyMapping
  <2> QED
    BY <2>1, <2>2 DEF IDsOf
<1>3. IDsOf(k.routes) = {Moved(id, d) : id \in IDsOf(c.routes)}
  <2>1. c.routes \subseteq RouteRows(rev) /\ k.routes = {CopyRoute(x, d) : x \in c.routes}
    BY Columns, Cloned DEF IsClone
  <2>2. \A x \in c.routes : CopyRoute(x, d).id = Moved(x.id, d)
    BY <2>1 DEF RouteRows, CopyRoute
  <2> QED
    BY <2>1, <2>2 DEF IDsOf
<1>4. IDsOf(k.verdictProviders) = {Moved(id, d) : id \in IDsOf(c.verdictProviders)}
  <2>1. /\ c.verdictProviders \subseteq VerdictProviderRows(rev)
        /\ k.verdictProviders = {CopyVerdictProvider(x, d) : x \in c.verdictProviders}
    BY Columns, Cloned DEF IsClone
  <2>2. \A x \in c.verdictProviders : CopyVerdictProvider(x, d).id = Moved(x.id, d)
    BY <2>1 DEF VerdictProviderRows, CopyVerdictProvider
  <2> QED
    BY <2>1, <2>2 DEF IDsOf
<1>5. IDsOf(k.bundles) = {Moved(id, d) : id \in IDsOf(c.bundles)}
  <2>1. c.bundles \subseteq BundleRows(rev) /\ k.bundles = {CopyBundle(x, d) : x \in c.bundles}
    BY Columns, Cloned DEF IsClone
  <2>2. \A x \in c.bundles : CopyBundle(x, d).id = Moved(x.id, d)
    BY <2>1 DEF BundleRows, CopyBundle
  <2> QED
    BY <2>1, <2>2 DEF IDsOf
<1>6. IDsOf(k.detectors) = {Moved(id, d) : id \in IDsOf(c.detectors)}
  <2>1. /\ c.detectors \subseteq DetectorRows(rev)
        /\ k.detectors = {CopyDetector(x, d) : x \in c.detectors}
    BY Columns, Cloned DEF IsClone
  <2>2. \A x \in c.detectors : CopyDetector(x, d).id = Moved(x.id, d)
    BY <2>1 DEF DetectorRows, CopyDetector
  <2> QED
    BY <2>1, <2>2 DEF IDsOf
<1>7. IDsOf(k.rules) = {Moved(id, d) : id \in IDsOf(c.rules)}
  <2>1. c.rules \subseteq RuleRows(rev) /\ k.rules = {CopyRule(x, d) : x \in c.rules}
    BY Columns, Cloned DEF IsClone
  <2>2. \A x \in c.rules : CopyRule(x, d).id = Moved(x.id, d)
    BY <2>1 DEF RuleRows, CopyRule
  <2> QED
    BY <2>1, <2>2 DEF IDsOf
<1>8. IDsOf(k.sinks) = {Moved(id, d) : id \in IDsOf(c.sinks)}
  <2>1. c.sinks \subseteq SinkRows(rev) /\ k.sinks = {CopySink(x, d) : x \in c.sinks}
    BY Columns, Cloned DEF IsClone
  <2>2. \A x \in c.sinks : CopySink(x, d).id = Moved(x.id, d)
    BY <2>1 DEF SinkRows, CopySink
  <2> QED
    BY <2>1, <2>2 DEF IDsOf
<1> QED
  BY <1>1, <1>2, <1>3, <1>4, <1>5, <1>6, <1>7, <1>8

\* The references of a clone name rows of the clone, in the scopes too.
LEMMA ClonedResolves ==
    ASSUME NEW rev, NEW c, NEW d, NEW k, IsClone(c, k, rev, d)
    PROVE  Resolves(k)
<1>1. \A x \in k.mappings : x.target \in Optional(IDsOf(k.providers))
  <2>1. /\ c.mappings \subseteq MappingRows(rev)
        /\ k.mappings = {CopyMapping(x, d) : x \in c.mappings}
        /\ \A x \in c.mappings : x.target \in Optional(IDsOf(c.providers))
    BY Columns, Cloned DEF IsClone, Resolves
  <2>2. \A x \in c.mappings : CopyMapping(x, d).target = MovedRef(x.target, d)
    BY <2>1 DEF MappingRows, CopyMapping
  <2>3. IDsOf(k.providers) = {Moved(id, d) : id \in IDsOf(c.providers)}
    BY ClonedIDs
  <2> QED
    BY <2>1, <2>2, <2>3 DEF Optional, MovedRef
<1>2. \A x \in k.routes : x.mapping \in Optional(IDsOf(k.mappings))
  <2>1. /\ c.routes \subseteq RouteRows(rev) /\ k.routes = {CopyRoute(x, d) : x \in c.routes}
        /\ \A x \in c.routes : x.mapping \in Optional(IDsOf(c.mappings))
    BY Columns, Cloned DEF IsClone, Resolves
  <2>2. \A x \in c.routes : CopyRoute(x, d).mapping = MovedRef(x.mapping, d)
    BY <2>1 DEF RouteRows, CopyRoute
  <2> QED
    BY <2>1, <2>2, ClonedIDs DEF Optional, MovedRef
<1>3. \A x \in k.limits : x.route \in IDsOf(k.routes)
  <2>1. /\ c.limits \subseteq LimitRows(rev) /\ k.limits = {CopyLimit(x, d) : x \in c.limits}
        /\ \A x \in c.limits : x.route \in IDsOf(c.routes)
    BY Columns, Cloned DEF IsClone, Resolves
  <2>2. \A x \in c.limits : CopyLimit(x, d).route = Moved(x.route, d)
    BY <2>1 DEF LimitRows, CopyLimit
  <2> QED
    BY <2>1, <2>2, ClonedIDs DEF Optional, MovedRef
<1>4. \A x \in k.overrides : x.route \in IDsOf(k.routes)
  <2>1. /\ c.overrides \subseteq OverrideRows(rev)
        /\ k.overrides = {CopyOverride(x, d) : x \in c.overrides}
        /\ \A x \in c.overrides : x.route \in IDsOf(c.routes)
    BY Columns, Cloned DEF IsClone, Resolves
  <2>2. \A x \in c.overrides : CopyOverride(x, d).route = Moved(x.route, d)
    BY <2>1 DEF OverrideRows, CopyOverride
  <2> QED
    BY <2>1, <2>2, ClonedIDs DEF Optional, MovedRef
<1>5. \A x \in k.verdictBindings :
          /\ x.route \in IDsOf(k.routes)
          /\ x.provider \in IDsOf(k.verdictProviders)
  <2>1. /\ c.verdictBindings \subseteq VerdictBindingRows(rev)
        /\ k.verdictBindings = {CopyVerdictBinding(x, d) : x \in c.verdictBindings}
        /\ \A x \in c.verdictBindings :
               /\ x.route \in IDsOf(c.routes)
               /\ x.provider \in IDsOf(c.verdictProviders)
    BY Columns, Cloned DEF IsClone, Resolves
  <2>2. \A x \in c.verdictBindings :
            /\ CopyVerdictBinding(x, d).route = Moved(x.route, d)
            /\ CopyVerdictBinding(x, d).provider = Moved(x.provider, d)
    BY <2>1 DEF VerdictBindingRows, CopyVerdictBinding
  <2> QED
    BY <2>1, <2>2, ClonedIDs DEF Optional, MovedRef
<1>6. \A x \in k.detectors : x.bundle \in IDsOf(k.bundles)
  <2>1. /\ c.detectors \subseteq DetectorRows(rev)
        /\ k.detectors = {CopyDetector(x, d) : x \in c.detectors}
        /\ \A x \in c.detectors : x.bundle \in IDsOf(c.bundles)
    BY Columns, Cloned DEF IsClone, Resolves
  <2>2. \A x \in c.detectors : CopyDetector(x, d).bundle = Moved(x.bundle, d)
    BY <2>1 DEF DetectorRows, CopyDetector
  <2> QED
    BY <2>1, <2>2, ClonedIDs DEF Optional, MovedRef
<1>7. \A x \in k.rules : x.bundle \in IDsOf(k.bundles)
  <2>1. /\ c.rules \subseteq RuleRows(rev) /\ k.rules = {CopyRule(x, d) : x \in c.rules}
        /\ \A x \in c.rules : x.bundle \in IDsOf(c.bundles)
    BY Columns, Cloned DEF IsClone, Resolves
  <2>2. \A x \in c.rules : CopyRule(x, d).bundle = Moved(x.bundle, d)
    BY <2>1 DEF RuleRows, CopyRule
  <2> QED
    BY <2>1, <2>2, ClonedIDs DEF Optional, MovedRef
<1>8. \A x \in k.ruleDetectors : x.rule \in IDsOf(k.rules) /\ x.detector \in IDsOf(k.detectors)
  <2>1. /\ c.ruleDetectors \subseteq RuleDetectorRows(rev)
        /\ k.ruleDetectors = {CopyRuleDetector(x, d) : x \in c.ruleDetectors}
        /\ \A x \in c.ruleDetectors :
               /\ x.rule \in IDsOf(c.rules)
               /\ x.detector \in IDsOf(c.detectors)
    BY Columns, Cloned DEF IsClone, Resolves
  <2>2. \A x \in c.ruleDetectors :
            /\ CopyRuleDetector(x, d).rule = Moved(x.rule, d)
            /\ CopyRuleDetector(x, d).detector = Moved(x.detector, d)
    BY <2>1 DEF RuleDetectorRows, CopyRuleDetector
  <2> QED
    BY <2>1, <2>2, ClonedIDs DEF Optional, MovedRef
<1>9. \A x \in k.ruleScopes :
          /\ x.rule \in IDsOf(k.rules)
          /\ x.route \in Optional(IDsOf(k.routes))
          /\ x.provider \in Optional(IDsOf(k.providers))
  <2>1. /\ c.ruleScopes \subseteq RuleScopeRows(rev)
        /\ k.ruleScopes = {CopyRuleScope(x, d) : x \in c.ruleScopes}
        /\ \A x \in c.ruleScopes :
               /\ x.rule \in IDsOf(c.rules)
               /\ x.route \in Optional(IDsOf(c.routes))
               /\ x.provider \in Optional(IDsOf(c.providers))
    BY Columns, Cloned DEF IsClone, Resolves
  <2>2. \A x \in c.ruleScopes :
            /\ CopyRuleScope(x, d).rule = Moved(x.rule, d)
            /\ CopyRuleScope(x, d).route = MovedRef(x.route, d)
            /\ CopyRuleScope(x, d).provider = MovedRef(x.provider, d)
    BY <2>1 DEF RuleScopeRows, CopyRuleScope
  <2> QED
    BY <2>1, <2>2, ClonedIDs DEF Optional, MovedRef
<1>10. \A x \in k.routeBindings : x.route \in IDsOf(k.routes) /\ x.bundle \in IDsOf(k.bundles)
  <2>1. /\ c.routeBindings \subseteq RouteBindingRows(rev)
        /\ k.routeBindings = {CopyRouteBinding(x, d) : x \in c.routeBindings}
        /\ \A x \in c.routeBindings :
               /\ x.route \in IDsOf(c.routes)
               /\ x.bundle \in IDsOf(c.bundles)
    BY Columns, Cloned DEF IsClone, Resolves
  <2>2. \A x \in c.routeBindings :
            /\ CopyRouteBinding(x, d).route = Moved(x.route, d)
            /\ CopyRouteBinding(x, d).bundle = Moved(x.bundle, d)
    BY <2>1 DEF RouteBindingRows, CopyRouteBinding
  <2> QED
    BY <2>1, <2>2, ClonedIDs DEF Optional, MovedRef
<1>11. \A x \in k.retention : x.sink \in Optional(IDsOf(k.sinks))
  <2>1. /\ c.retention \subseteq RetentionRows(rev)
        /\ k.retention = {CopyRetention(x, d) : x \in c.retention}
        /\ \A x \in c.retention : x.sink \in Optional(IDsOf(c.sinks))
    BY Columns, Cloned DEF IsClone, Resolves
  <2>2. \A x \in c.retention : CopyRetention(x, d).sink = MovedRef(x.sink, d)
    BY <2>1 DEF RetentionRows, CopyRetention
  <2> QED
    BY <2>1, <2>2, ClonedIDs DEF Optional, MovedRef
<1>12. \A x \in k.rawCapture : x.route \in Optional(IDsOf(k.routes))
  <2>1. /\ c.rawCapture \subseteq RawCaptureRows(rev)
        /\ k.rawCapture = {CopyRawCapture(x, d) : x \in c.rawCapture}
        /\ \A x \in c.rawCapture : x.route \in Optional(IDsOf(c.routes))
    BY Columns, Cloned DEF IsClone, Resolves
  <2>2. \A x \in c.rawCapture : CopyRawCapture(x, d).route = MovedRef(x.route, d)
    BY <2>1 DEF RawCaptureRows, CopyRawCapture
  <2> QED
    BY <2>1, <2>2, ClonedIDs DEF Optional, MovedRef
<1> QED
  BY <1>1, <1>2, <1>3, <1>4, <1>5, <1>6, <1>7, <1>8, <1>9, <1>10, <1>11, <1>12 DEF Resolves

\* The rows of a clone are of the types of its revision.
LEMMA ClonedContents ==
    ASSUME NEW rev, NEW c, NEW d \in Nat, NEW k, IsClone(c, k, rev, d)
    PROVE  k \in Contents(d)
<1>1. \A id \in Rows(rev) : Moved(id, d) \in Rows(d)
  BY RowID
<1>2. \A id \in Items(rev) : Moved(id, d) \in Items(d)
  BY ItemID
<1>3. k.providers \subseteq ProviderRows(d)
  <2>1. /\ c.providers \subseteq ProviderRows(rev)
        /\ k.providers = {CopyProvider(x, d) : x \in c.providers}
    BY Columns, Cloned DEF IsClone
  <2>2. \A x \in ProviderRows(rev) : CopyProvider(x, d) \in ProviderRows(d)
    BY <1>1, <1>2 DEF ProviderRows, CopyProvider, Optional, MovedRef
  <2> QED
    BY <2>1, <2>2
<1>4. k.mappings \subseteq MappingRows(d)
  <2>1. /\ c.mappings \subseteq MappingRows(rev)
        /\ k.mappings = {CopyMapping(x, d) : x \in c.mappings}
    BY Columns, Cloned DEF IsClone
  <2>2. \A x \in MappingRows(rev) : CopyMapping(x, d) \in MappingRows(d)
    BY <1>1, <1>2 DEF MappingRows, CopyMapping, Optional, MovedRef
  <2> QED
    BY <2>1, <2>2
<1>5. k.routes \subseteq RouteRows(d)
  <2>1. c.routes \subseteq RouteRows(rev) /\ k.routes = {CopyRoute(x, d) : x \in c.routes}
    BY Columns, Cloned DEF IsClone
  <2>2. \A x \in RouteRows(rev) : CopyRoute(x, d) \in RouteRows(d)
    BY <1>1, <1>2 DEF RouteRows, CopyRoute, Optional, MovedRef
  <2> QED
    BY <2>1, <2>2
<1>6. k.limits \subseteq LimitRows(d)
  <2>1. c.limits \subseteq LimitRows(rev) /\ k.limits = {CopyLimit(x, d) : x \in c.limits}
    BY Columns, Cloned DEF IsClone
  <2>2. \A x \in LimitRows(rev) : CopyLimit(x, d) \in LimitRows(d)
    BY <1>1, <1>2 DEF LimitRows, CopyLimit, Optional, MovedRef
  <2> QED
    BY <2>1, <2>2
<1>7. k.overrides \subseteq OverrideRows(d)
  <2>1. /\ c.overrides \subseteq OverrideRows(rev)
        /\ k.overrides = {CopyOverride(x, d) : x \in c.overrides}
    BY Columns, Cloned DEF IsClone
  <2>2. \A x \in OverrideRows(rev) : CopyOverride(x, d) \in OverrideRows(d)
    BY <1>1, <1>2 DEF OverrideRows, CopyOverride, Optional, MovedRef
  <2> QED
    BY <2>1, <2>2
<1>8. k.verdictProviders \subseteq VerdictProviderRows(d)
  <2>1. /\ c.verdictProviders \subseteq VerdictProviderRows(rev)
        /\ k.verdictProviders = {CopyVerdictProvider(x, d) : x \in c.verdictProviders}
    BY Columns, Cloned DEF IsClone
  <2>2. \A x \in VerdictProviderRows(rev) : CopyVerdictProvider(x, d) \in VerdictProviderRows(d)
    BY <1>1, <1>2 DEF VerdictProviderRows, CopyVerdictProvider, Optional, MovedRef
  <2> QED
    BY <2>1, <2>2
<1>9. k.verdictBindings \subseteq VerdictBindingRows(d)
  <2>1. /\ c.verdictBindings \subseteq VerdictBindingRows(rev)
        /\ k.verdictBindings = {CopyVerdictBinding(x, d) : x \in c.verdictBindings}
    BY Columns, Cloned DEF IsClone
  <2>2. \A x \in VerdictBindingRows(rev) : CopyVerdictBinding(x, d) \in VerdictBindingRows(d)
    BY <1>1, <1>2 DEF VerdictBindingRows, CopyVerdictBinding, Optional, MovedRef
  <2> QED
    BY <2>1, <2>2
<1>10. k.bundles \subseteq BundleRows(d)
  <2>1. c.bundles \subseteq BundleRows(rev) /\ k.bundles = {CopyBundle(x, d) : x \in c.bundles}
    BY Columns, Cloned DEF IsClone
  <2>2. \A x \in BundleRows(rev) : CopyBundle(x, d) \in BundleRows(d)
    BY <1>1, <1>2 DEF BundleRows, CopyBundle, Optional, MovedRef
  <2> QED
    BY <2>1, <2>2
<1>11. k.detectors \subseteq DetectorRows(d)
  <2>1. /\ c.detectors \subseteq DetectorRows(rev)
        /\ k.detectors = {CopyDetector(x, d) : x \in c.detectors}
    BY Columns, Cloned DEF IsClone
  <2>2. \A x \in DetectorRows(rev) : CopyDetector(x, d) \in DetectorRows(d)
    BY <1>1, <1>2 DEF DetectorRows, CopyDetector, Optional, MovedRef
  <2> QED
    BY <2>1, <2>2
<1>12. k.rules \subseteq RuleRows(d)
  <2>1. c.rules \subseteq RuleRows(rev) /\ k.rules = {CopyRule(x, d) : x \in c.rules}
    BY Columns, Cloned DEF IsClone
  <2>2. \A x \in RuleRows(rev) : CopyRule(x, d) \in RuleRows(d)
    BY <1>1, <1>2 DEF RuleRows, CopyRule, Optional, MovedRef
  <2> QED
    BY <2>1, <2>2
<1>13. k.ruleDetectors \subseteq RuleDetectorRows(d)
  <2>1. /\ c.ruleDetectors \subseteq RuleDetectorRows(rev)
        /\ k.ruleDetectors = {CopyRuleDetector(x, d) : x \in c.ruleDetectors}
    BY Columns, Cloned DEF IsClone
  <2>2. \A x \in RuleDetectorRows(rev) : CopyRuleDetector(x, d) \in RuleDetectorRows(d)
    BY <1>1, <1>2 DEF RuleDetectorRows, CopyRuleDetector, Optional, MovedRef
  <2> QED
    BY <2>1, <2>2
<1>14. k.ruleScopes \subseteq RuleScopeRows(d)
  <2>1. /\ c.ruleScopes \subseteq RuleScopeRows(rev)
        /\ k.ruleScopes = {CopyRuleScope(x, d) : x \in c.ruleScopes}
    BY Columns, Cloned DEF IsClone
  <2>2. \A x \in c.ruleScopes : /\ MovedRef(x.route, d) \in Optional(Nat \X STRING)
                                /\ MovedRef(x.provider, d) \in Optional(Nat \X STRING)
    <3>1. /\ \A x \in c.ruleScopes : /\ x.route \in Optional(IDsOf(c.routes))
                                     /\ x.provider \in Optional(IDsOf(c.providers))
          /\ c.routes \subseteq RouteRows(rev) /\ c.providers \subseteq ProviderRows(rev)
      BY Columns, Cloned DEF IsClone, Resolves
    <3>2. IDsOf(c.routes) \subseteq Rows(rev) /\ IDsOf(c.providers) \subseteq Rows(rev)
      BY <3>1 DEF IDsOf, RouteRows, ProviderRows
    <3>3. Rows(d) \subseteq Nat \X STRING
      BY DEF Rows
    <3> QED
      BY <1>1, <3>1, <3>2, <3>3 DEF Optional, MovedRef
  <2>3. \A x \in RuleScopeRows(rev) : x \in c.ruleScopes => CopyRuleScope(x, d) \in RuleScopeRows(d)
    BY <1>1, <1>2, <2>2 DEF RuleScopeRows, CopyRuleScope, Optional, MovedRef
  <2> QED
    BY <2>1, <2>3
<1>15. k.routeBindings \subseteq RouteBindingRows(d)
  <2>1. /\ c.routeBindings \subseteq RouteBindingRows(rev)
        /\ k.routeBindings = {CopyRouteBinding(x, d) : x \in c.routeBindings}
    BY Columns, Cloned DEF IsClone
  <2>2. \A x \in RouteBindingRows(rev) : CopyRouteBinding(x, d) \in RouteBindingRows(d)
    BY <1>1, <1>2 DEF RouteBindingRows, CopyRouteBinding, Optional, MovedRef
  <2> QED
    BY <2>1, <2>2
<1>16. k.sinks \subseteq SinkRows(d)
  <2>1. c.sinks \subseteq SinkRows(rev) /\ k.sinks = {CopySink(x, d) : x \in c.sinks}
    BY Columns, Cloned DEF IsClone
  <2>2. \A x \in SinkRows(rev) : CopySink(x, d) \in SinkRows(d)
    BY <1>1, <1>2 DEF SinkRows, CopySink, Optional, MovedRef
  <2> QED
    BY <2>1, <2>2
<1>17. k.retention \subseteq RetentionRows(d)
  <2>1. /\ c.retention \subseteq RetentionRows(rev)
        /\ k.retention = {CopyRetention(x, d) : x \in c.retention}
    BY Columns, Cloned DEF IsClone
  <2>2. \A x \in RetentionRows(rev) : CopyRetention(x, d) \in RetentionRows(d)
    BY <1>1, <1>2 DEF RetentionRows, CopyRetention, Optional, MovedRef
  <2> QED
    BY <2>1, <2>2
<1>18. k.rawCapture \subseteq RawCaptureRows(d)
  <2>1. /\ c.rawCapture \subseteq RawCaptureRows(rev)
        /\ k.rawCapture = {CopyRawCapture(x, d) : x \in c.rawCapture}
    BY Columns, Cloned DEF IsClone
  <2>2. \A x \in RawCaptureRows(rev) : CopyRawCapture(x, d) \in RawCaptureRows(d)
    BY <1>1, <1>2 DEF RawCaptureRows, CopyRawCapture, Optional, MovedRef
  <2> QED
    BY <2>1, <2>2
<1>19. \E ids : k =
                    [providers        |-> CloneProviders(c, ids),
                     mappings         |-> CloneModelMappings(c, ids),
                     routes           |-> CloneRoutes(c, ids),
                     limits           |-> CloneRoutePolicies(c, ids),
                     overrides        |-> CloneClientRouteOverrides(c, ids),
                     verdictProviders |-> CloneVerdictProviders(c, ids),
                     verdictBindings  |-> CloneRouteVerdictProviderBindings(c, ids),
                     bundles          |-> ClonePolicyBundles(c, ids),
                     detectors        |-> ClonePolicyDetectors(c, ids),
                     rules            |-> ClonePolicyRules(c, ids),
                     ruleDetectors    |-> ClonePolicyRuleDetectors(c, ids),
                     ruleScopes       |-> ClonePolicyRuleScopes(c, ids),
                     routeBindings    |-> CloneRoutePolicyBindings(c, ids),
                     sinks            |-> CloneSinks(c, ids),
                     retention        |-> CloneRetentionPolicies(c, ids),
                     rawCapture       |-> CloneRawCapturePolicies(c, ids)]
  BY CloneGraph DEF IsClone
<1>20. k = [providers        |-> k.providers,
           mappings         |-> k.mappings,
           routes           |-> k.routes,
           limits           |-> k.limits,
           overrides        |-> k.overrides,
           verdictProviders |-> k.verdictProviders,
           verdictBindings  |-> k.verdictBindings,
           bundles          |-> k.bundles,
           detectors        |-> k.detectors,
           rules            |-> k.rules,
           ruleDetectors    |-> k.ruleDetectors,
           ruleScopes       |-> k.ruleScopes,
           routeBindings    |-> k.routeBindings,
           sinks            |-> k.sinks,
           retention        |-> k.retention,
           rawCapture       |-> k.rawCapture]
  BY <1>19
<1> QED
  BY <1>3, <1>4, <1>5, <1>6, <1>7, <1>8, <1>9, <1>10, <1>11, <1>12, <1>13, <1>14, <1>15, <1>16,
     <1>17, <1>18, <1>20 DEF Contents

\* A clone keeps the foreign keys.
LEMMA ClonedForeignKeys ==
    ASSUME NEW rev, NEW c, NEW d, NEW k, IsClone(c, k, rev, d), ForeignKeys(c)
    PROVE  ForeignKeys(k)
<1>1. Resolves(k)
  BY ClonedResolves
<1>2. /\ c.detectors \subseteq DetectorRows(rev) /\ c.rules \subseteq RuleRows(rev)
      /\ c.ruleDetectors \subseteq RuleDetectorRows(rev)
      /\ k.detectors = {CopyDetector(x, d) : x \in c.detectors}
      /\ k.rules = {CopyRule(x, d) : x \in c.rules}
      /\ k.ruleDetectors = {CopyRuleDetector(x, d) : x \in c.ruleDetectors}
  BY Columns, Cloned DEF IsClone
<1>3. ASSUME NEW id \in Items(rev), NEW bundle \in Rows(rev), bundle = <<id[1], id[2]>>
      PROVE  Moved(bundle, d) = <<Moved(id, d)[1], Moved(id, d)[2]>>
  <2>1. Moved(bundle, d) = <<d, bundle[2]>>
    BY RowID
  <2>2. PICK m, n : id[2] = m /\ id[3] = n
    OBVIOUS
  <2>3. id = <<rev, m, n>> /\ Moved(id, d) = <<d, m, n>>
    BY <2>2, ItemID
  <2> QED
    BY <1>3, <2>1, <2>3
<1>4. /\ \A x \in k.detectors : x.bundle = <<x.id[1], x.id[2]>>
      /\ \A x \in k.rules : x.bundle = <<x.id[1], x.id[2]>>
  <2>1. /\ \A x \in c.detectors : /\ x.id \in Items(rev) /\ x.bundle \in Rows(rev)
                                  /\ x.bundle = <<x.id[1], x.id[2]>>
                                  /\ CopyDetector(x, d).id = Moved(x.id, d)
                                  /\ CopyDetector(x, d).bundle = Moved(x.bundle, d)
        /\ \A x \in c.rules : /\ x.id \in Items(rev) /\ x.bundle \in Rows(rev)
                              /\ x.bundle = <<x.id[1], x.id[2]>>
                              /\ CopyRule(x, d).id = Moved(x.id, d)
                              /\ CopyRule(x, d).bundle = Moved(x.bundle, d)
    BY <1>2 DEF ForeignKeys, DetectorRows, RuleRows, CopyDetector, CopyRule
  <2>2. \A x \in c.detectors :
            CopyDetector(x, d).bundle = <<CopyDetector(x, d).id[1], CopyDetector(x, d).id[2]>>
    <3> TAKE x \in c.detectors
    <3>1. Moved(x.bundle, d) = <<Moved(x.id, d)[1], Moved(x.id, d)[2]>>
      BY <1>3, <2>1
    <3> QED
      BY <2>1, <3>1
  <2>3. \A x \in c.rules :
            CopyRule(x, d).bundle = <<CopyRule(x, d).id[1], CopyRule(x, d).id[2]>>
    <3> TAKE x \in c.rules
    <3>1. Moved(x.bundle, d) = <<Moved(x.id, d)[1], Moved(x.id, d)[2]>>
      BY <1>3, <2>1
    <3> QED
      BY <2>1, <3>1
  <2> QED
    BY <1>2, <2>2, <2>3
<1>5. \A x \in k.ruleDetectors : x.rule[2] = x.detector[2]
  <2>1. \A id \in Items(rev) : Moved(id, d)[2] = id[2]
    <3> TAKE id \in Items(rev)
    <3>1. Moved(id, d) = <<d, id[2], id[3]>>
      BY ItemID
    <3> QED
      BY <3>1
  <2>2. \A x \in c.ruleDetectors : /\ x.rule \in Items(rev) /\ x.detector \in Items(rev)
                                  /\ x.rule[2] = x.detector[2]
                                  /\ CopyRuleDetector(x, d).rule = Moved(x.rule, d)
                                  /\ CopyRuleDetector(x, d).detector = Moved(x.detector, d)
    BY <1>2 DEF ForeignKeys, RuleDetectorRows, CopyRuleDetector
  <2> QED
    BY <1>2, <2>1, <2>2
<1> QED
  BY <1>1, <1>4, <1>5 DEF ForeignKeys, Resolves

\* Foreign keys and intact scopes leave no reference unresolved.
LEMMA IntactResolves ==
    ASSUME NEW c, ForeignKeys(c), Intact(c)
    PROVE  Resolves(c)
BY DEF ForeignKeys, Intact, Resolves, Optional

-----------------------------------------------------------------------------
(* Names stay unique in a revision and in its clones.                     *)

\* The clone of a revision with unique names has unique names.
LEMMA ClonedUnique ==
    ASSUME NEW rev, NEW c, NEW d, NEW k, IsClone(c, k, rev, d), UniqueNames(c)
    PROVE  UniqueNames(k)
<1>1. Unique(k.providers)
  <2>1. /\ c.providers \subseteq ProviderRows(rev) /\ Unique(c.providers)
        /\ k.providers = {CopyProvider(x, d) : x \in c.providers}
    BY Columns, Cloned DEF IsClone, UniqueNames
  <2>2. \A x \in c.providers : x.id \in Rows(rev) /\ CopyProvider(x, d).id = Moved(x.id, d)
    BY <2>1 DEF ProviderRows, CopyProvider
  <2>3. \A x, y \in c.providers : Moved(x.id, d) = Moved(y.id, d) => x = y
    BY <2>1, <2>2, MovedApart DEF Unique
  <2> QED
    BY <2>1, <2>2, <2>3 DEF Unique
<1>2. Unique(k.mappings)
  <2>1. /\ c.mappings \subseteq MappingRows(rev) /\ Unique(c.mappings)
        /\ k.mappings = {CopyMapping(x, d) : x \in c.mappings}
    BY Columns, Cloned DEF IsClone, UniqueNames
  <2>2. \A x \in c.mappings : x.id \in Rows(rev) /\ CopyMapping(x, d).id = Moved(x.id, d)
    BY <2>1 DEF MappingRows, CopyMapping
  <2>3. \A x, y \in c.mappings : Moved(x.id, d) = Moved(y.id, d) => x = y
    BY <2>1, <2>2, MovedApart DEF Unique
  <2> QED
    BY <2>1, <2>2, <2>3 DEF Unique
<1>3. Unique(k.routes)
  <2>1. /\ c.routes \subseteq RouteRows(rev) /\ Unique(c.routes)
        /\ k.routes = {CopyRoute(x, d) : x \in c.routes}
    BY Columns, Cloned DEF IsClone, UniqueNames
  <2>2. \A x \in c.routes : x.id \in Rows(rev) /\ CopyRoute(x, d).id = Moved(x.id, d)
    BY <2>1 DEF RouteRows, CopyRoute
  <2>3. \A x, y \in c.routes : Moved(x.id, d) = Moved(y.id, d) => x = y
    BY <2>1, <2>2, MovedApart DEF Unique
  <2> QED
    BY <2>1, <2>2, <2>3 DEF Unique
<1>4. Unique(k.verdictProviders)
  <2>1. /\ c.verdictProviders \subseteq VerdictProviderRows(rev) /\ Unique(c.verdictProviders)
        /\ k.verdictProviders = {CopyVerdictProvider(x, d) : x \in c.verdictProviders}
    BY Columns, Cloned DEF IsClone, UniqueNames
  <2>2. \A x \in c.verdictProviders : x.id \in Rows(rev) /\ CopyVerdictProvider(x, d).id = Moved(x.id, d)
    BY <2>1 DEF VerdictProviderRows, CopyVerdictProvider
  <2>3. \A x, y \in c.verdictProviders : Moved(x.id, d) = Moved(y.id, d) => x = y
    BY <2>1, <2>2, MovedApart DEF Unique
  <2> QED
    BY <2>1, <2>2, <2>3 DEF Unique
<1>5. Unique(k.bundles)
  <2>1. /\ c.bundles \subseteq BundleRows(rev) /\ Unique(c.bundles)
        /\ k.bundles = {CopyBundle(x, d) : x \in c.bundles}
    BY Columns, Cloned DEF IsClone, UniqueNames
  <2>2. \A x \in c.bundles : x.id \in Rows(rev) /\ CopyBundle(x, d).id = Moved(x.id, d)
    BY <2>1 DEF BundleRows, CopyBundle
  <2>3. \A x, y \in c.bundles : Moved(x.id, d) = Moved(y.id, d) => x = y
    BY <2>1, <2>2, MovedApart DEF Unique
  <2> QED
    BY <2>1, <2>2, <2>3 DEF Unique
<1>6. Unique(k.detectors)
  <2>1. /\ c.detectors \subseteq DetectorRows(rev) /\ Unique(c.detectors)
        /\ k.detectors = {CopyDetector(x, d) : x \in c.detectors}
    BY Columns, Cloned DEF IsClone, UniqueNames
  <2>2. \A x \in c.detectors : x.id \in Items(rev) /\ CopyDetector(x, d).id = Moved(x.id, d)
    BY <2>1 DEF DetectorRows, CopyDetector
  <2>3. \A x, y \in c.detectors : Moved(x.id, d) = Moved(y.id, d) => x = y
    BY <2>1, <2>2, MovedApart DEF Unique
  <2> QED
    BY <2>1, <2>2, <2>3 DEF Unique
<1>7. Unique(k.rules)
  <2>1. /\ c.rules \subseteq RuleRows(rev) /\ Unique(c.rules)
        /\ k.rules = {CopyRule(x, d) : x \in c.rules}
    BY Columns, Cloned DEF IsClone, UniqueNames
  <2>2. \A x \in c.rules : x.id \in Items(rev) /\ CopyRule(x, d).id = Moved(x.id, d)
    BY <2>1 DEF RuleRows, CopyRule
  <2>3. \A x, y \in c.rules : Moved(x.id, d) = Moved(y.id, d) => x = y
    BY <2>1, <2>2, MovedApart DEF Unique
  <2> QED
    BY <2>1, <2>2, <2>3 DEF Unique
<1>8. Unique(k.sinks)
  <2>1. /\ c.sinks \subseteq SinkRows(rev) /\ Unique(c.sinks)
        /\ k.sinks = {CopySink(x, d) : x \in c.sinks}
    BY Columns, Cloned DEF IsClone, UniqueNames
  <2>2. \A x \in c.sinks : x.id \in Rows(rev) /\ CopySink(x, d).id = Moved(x.id, d)
    BY <2>1 DEF SinkRows, CopySink
  <2>3. \A x, y \in c.sinks : Moved(x.id, d) = Moved(y.id, d) => x = y
    BY <2>1, <2>2, MovedApart DEF Unique
  <2> QED
    BY <2>1, <2>2, <2>3 DEF Unique
<1> QED
  BY <1>1, <1>2, <1>3, <1>4, <1>5, <1>6, <1>7, <1>8 DEF UniqueNames

\* An upsert replaces the row of its name.
LEMMA PutUnique ==
    ASSUME NEW table, Unique(table), NEW row
    PROVE  Unique(Put(table, row))
BY DEF Unique, Put

\* updateDraftBundleActivation renames no bundle.
LEMMA ActivationUnique ==
    ASSUME NEW rev, NEW c \in Contents(rev), UniqueNames(c), NEW keys
    PROVE  UniqueNames(UpdateDraftBundleActivation(c, keys))
<1> DEFINE On(b) == [b EXCEPT !.enabled = Name(b.id) \in keys]
<1>1. UpdateDraftBundleActivation(c, keys) = [c EXCEPT !.bundles = {On(b) : b \in c.bundles}]
  BY Zenon DEF UpdateDraftBundleActivation, Contents
<1>2. \A b \in BundleRows(rev) : On(b).id = b.id
  BY DEF BundleRows
<1> HIDE DEF On
<1>3. Unique({On(b) : b \in c.bundles})
  BY <1>2, Columns DEF Unique, UniqueNames
<1> QED
  BY <1>1, <1>3 DEF UniqueNames, Contents

\* The upsert of a bundle replaces the detectors and the rules of its name, and two
\* rules of one name are refused.
LEMMA BundleUnique ==
    ASSUME NEW rev, NEW c \in Contents(rev), ForeignKeys(c), UniqueNames(c), NEW B,
           NEW k \in UpsertBundle(c, rev, B)
    PROVE  UniqueNames(k)
<1> DEFINE RuleID(r) == <<rev, B.key, r.key>>
           Mine(x) == x[1] = rev /\ x[2] = B.key
           NewDetector(id, d) == [id |-> <<rev, B.key, d>>, bundle |-> id, enabled |-> TRUE]
           NewRule(id, r) == [id |-> RuleID(r), bundle |-> id, enabled |-> r.enabled,
                              action |-> r.action]
<1>1. PICK id : id = <<rev, B.key>>
  OBVIOUS
<1>2. PICK bundles : bundles = Put(c.bundles, [id |-> id, enabled |-> TRUE, action |-> B.action])
  OBVIOUS
<1>3. PICK detectors :
          detectors = {d \in c.detectors : d.bundle # id} \cup
              {NewDetector(id, d) : d \in B.detectors}
  OBVIOUS
<1>4. PICK rules :
          rules = {r \in c.rules : r.bundle # id} \cup {NewRule(id, r) : r \in B.rules}
  OBVIOUS
<1>5. \A q, r \in B.rules : q.key = r.key => q = r
  BY DEF UpsertBundle
<1>61. PICK ruleDetectors :
          ruleDetectors = {x \in c.ruleDetectors : ~ Mine(x.rule)} \cup
              UNION {{[rule |-> RuleID(r), detector |-> <<rev, B.key, d>>] : d \in r.detectors} :
                          r \in B.rules}
  OBVIOUS
<1>62. PICK ruleScopes :
          ruleScopes = {x \in c.ruleScopes : ~ Mine(x.rule)} \cup
              UNION {{[rule |-> RuleID(r), route |-> s.route, provider |-> s.provider,
                       model |-> s.model, direction |-> StorageDirection(s.direction)] :
                          s \in r.scopes} : r \in B.rules}
  OBVIOUS
<1>6. k = [c EXCEPT !.bundles = bundles, !.detectors = detectors, !.rules = rules,
                    !.ruleDetectors = ruleDetectors, !.ruleScopes = ruleScopes]
  <2>1. ~ (\/ \E r \in B.rules : ~ r.detectors \subseteq B.detectors
           \/ \E q, r \in B.rules : q.key = r.key /\ q # r)
    BY DEF UpsertBundle
  <2>2. k \in {[c EXCEPT !.bundles = bundles, !.detectors = detectors, !.rules = rules,
                       !.ruleDetectors = ruleDetectors, !.ruleScopes = ruleScopes]}
    BY <1>1, <1>2, <1>3, <1>4, <1>61, <1>62, <2>1 DEF UpsertBundle
  <2> QED
    BY <2>2
<1>7. /\ k.bundles = bundles /\ k.detectors = detectors /\ k.rules = rules
      /\ k.providers = c.providers /\ k.mappings = c.mappings /\ k.routes = c.routes
      /\ k.verdictProviders = c.verdictProviders /\ k.sinks = c.sinks
  BY <1>6 DEF Contents
<1>8. \A x \in c.detectors \cup c.rules : x.bundle = <<x.id[1], x.id[2]>>
  BY DEF ForeignKeys
<1>9. Unique(detectors)
  <2>1. ASSUME NEW x \in detectors, NEW y \in detectors, x.id = y.id
        PROVE  x = y
    <3>1. CASE x.bundle # id /\ y.bundle # id
      BY <1>3, <2>1, <3>1 DEF UniqueNames, Unique
    <3>2. ASSUME NEW d \in B.detectors, x = NewDetector(id, d)
          PROVE  x = y
      <4>1. x.id = <<rev, B.key, d>> /\ y.id = <<rev, B.key, d>>
        BY <2>1, <3>2
      <4>2. y \notin {e \in c.detectors : e.bundle # id}
        BY <1>1, <1>8, <4>1
      <4>3. PICK e \in B.detectors : y = NewDetector(id, e)
        BY <1>3, <4>2
      <4> QED
        BY <3>2, <4>1, <4>3
    <3>3. ASSUME NEW d \in B.detectors, y = NewDetector(id, d)
          PROVE  x = y
      <4>1. x.id = <<rev, B.key, d>> /\ y.id = <<rev, B.key, d>>
        BY <2>1, <3>3
      <4>2. x \notin {e \in c.detectors : e.bundle # id}
        BY <1>1, <1>8, <4>1
      <4>3. PICK e \in B.detectors : x = NewDetector(id, e)
        BY <1>3, <4>2
      <4> QED
        BY <3>3, <4>1, <4>3
    <3> QED
      BY <1>3, <3>1, <3>2, <3>3
  <2> QED
    BY <2>1 DEF Unique
<1>10. Unique(rules)
  <2>1. ASSUME NEW x \in rules, NEW r \in B.rules, x.id = RuleID(r)
        PROVE  x = NewRule(id, r)
    <3>1. x \notin {e \in c.rules : e.bundle # id}
      BY <1>1, <1>8, <2>1
    <3>2. PICK q \in B.rules : x = NewRule(id, q)
      BY <1>4, <3>1
    <3>3. q.key = r.key
      BY <2>1, <3>2
    <3> QED
      BY <1>5, <3>2, <3>3
  <2>2. ASSUME NEW x \in rules, NEW y \in rules, x.id = y.id
        PROVE  x = y
    <3>1. CASE x \in c.rules /\ y \in c.rules
      BY <2>2, <3>1 DEF UniqueNames, Unique
    <3>2. ASSUME NEW r \in B.rules, x = NewRule(id, r) \/ y = NewRule(id, r)
          PROVE  x = y
      <4>1. x.id = RuleID(r) /\ y.id = RuleID(r)
        BY <2>2, <3>2
      <4> HIDE DEF NewRule, RuleID
      <4> QED
        BY <2>1, <4>1
    <3> QED
      BY <1>4, <3>1, <3>2
  <2> QED
    BY <2>2 DEF Unique
<1>11. Unique(bundles)
  BY <1>2, PutUnique DEF UniqueNames
<1> QED
  BY <1>7, <1>9, <1>10, <1>11 DEF UniqueNames

-----------------------------------------------------------------------------
(* The control requests keep types, foreign keys and unique names.        *)

\* What the database guarantees of a revision.
Consistent(rev, rows) == rows \in Contents(rev) /\ ForeignKeys(rows) /\ UniqueNames(rows)

\* updateDraftBundleActivation keeps a revision consistent.
LEMMA ActivationConsistent ==
    ASSUME NEW rev, NEW c, Consistent(rev, c), NEW keys
    PROVE  Consistent(rev, UpdateDraftBundleActivation(c, keys))
<1> DEFINE On(b) == [b EXCEPT !.enabled = Name(b.id) \in keys]
           k == UpdateDraftBundleActivation(c, keys)
<1>1. k = [c EXCEPT !.bundles = {On(b) : b \in c.bundles}]
  BY Zenon DEF UpdateDraftBundleActivation, Consistent, Contents
<1>2. c.bundles \subseteq BundleRows(rev)
  BY Columns DEF Consistent
<1>3. \A b \in c.bundles : On(b) \in BundleRows(rev) /\ On(b).id = b.id
  <2> TAKE b \in c.bundles
  <2>1. PICK e \in BOOLEAN : e = TRUE <=> Name(b.id) \in keys
    OBVIOUS
  <2>2. On(b) = [b EXCEPT !.enabled = e]
    BY <2>1
  <2>3. b \in BundleRows(rev)
    BY <1>2
  <2> QED
    BY <2>2, <2>3 DEF BundleRows
<1> HIDE DEF On
<1>4. {On(b) : b \in c.bundles} \subseteq BundleRows(rev)
      /\ IDsOf({On(b) : b \in c.bundles}) = IDsOf(c.bundles)
  BY <1>3 DEF IDsOf
<1>5. k \in Contents(rev)
  BY <1>1, <1>4 DEF Contents, Consistent
<1>6. ForeignKeys(k)
  BY <1>1, <1>4 DEF ForeignKeys, Contents, Consistent
<1>7. UniqueNames(k)
  BY ActivationUnique DEF Consistent
<1> QED
  BY <1>5, <1>6, <1>7 DEF Consistent

\* An upsert adds the ID of its row and removes none.
LEMMA PutIDs ==
    ASSUME NEW table, NEW row
    PROVE  IDsOf(Put(table, row)) = IDsOf(table) \cup {row.id}
BY DEF IDsOf, Put

VerdictProviderRecords ==
    [id : STRING, name : STRING, endpoint : BOOLEAN, enabled : BOOLEAN, credential : BOOLEAN]

\* A verdict provider is filed with one name as its name and its ID.
LEMMA FiledRecord ==
    ASSUME NEW v \in VerdictProviders
    PROVE  Filed(v) \in VerdictProviderRecords /\ Filed(v).id = Filed(v).name
<1>1. v \in VerdictProviderRecords
  BY TrafficAssumption DEF VerdictProviderRecords
<1>2. PICK name \in STRING : name = FirstNonEmpty(v.name, v.id)
  BY <1>1 DEF FirstNonEmpty, VerdictProviderRecords
<1>3. Filed(v) = [v EXCEPT !.id = name, !.name = name]
  BY <1>2, Zenon DEF Filed
<1> QED
  BY <1>1, <1>3 DEF VerdictProviderRecords

\* The upsert of a verdict provider keeps a revision consistent.
LEMMA VerdictProviderConsistent ==
    ASSUME NEW rev, NEW c, Consistent(rev, c), NEW v \in VerdictProviderRecords
    PROVE  Consistent(rev, UpsertVerdictProvider(c, rev, v))
<1>1. PICK row : row = [id |-> <<rev, v.name>>, endpoint |-> v.endpoint, enabled |-> v.enabled,
                        credential |-> v.credential]
  OBVIOUS
<1>2. PICK table : table = Put(c.verdictProviders, row)
  OBVIOUS
<1>3. PICK k : k = [c EXCEPT !.verdictProviders = table]
  OBVIOUS
<1>4. UpsertVerdictProvider(c, rev, v) = k
  BY <1>1, <1>2, <1>3 DEF UpsertVerdictProvider, Contents, Consistent
<1>5. row \in VerdictProviderRows(rev)
  <2>1. <<rev, v.name>> \in Rows(rev)
    BY DEF VerdictProviderRecords, Rows
  <2> QED
    BY <1>1, <2>1 DEF VerdictProviderRecords, VerdictProviderRows
<1>6. table \subseteq VerdictProviderRows(rev)
  BY <1>2, <1>5, Columns DEF Put, Consistent
<1>7. IDsOf(c.verdictProviders) \subseteq IDsOf(table)
  BY <1>2, PutIDs
<1>8. k \in Contents(rev)
  BY <1>3, <1>6 DEF Contents, Consistent
<1>9. ForeignKeys(k)
  BY <1>3, <1>7 DEF ForeignKeys, Contents, Consistent
<1>10. UniqueNames(k)
  BY <1>2, <1>3, PutUnique DEF UniqueNames, Contents, Consistent
<1> QED
  BY <1>4, <1>8, <1>9, <1>10 DEF Consistent

\* The upsert of a model mapping keeps a revision consistent.
LEMMA MappingConsistent ==
    ASSUME NEW rev, NEW c, Consistent(rev, c), NEW m \in Mappings,
           NEW k \in UpsertModelMapping(c, rev, m)
    PROVE  Consistent(rev, k)
<1>1. PICK row : row = [id |-> <<rev, m.key>>, target |-> NoID, model |-> m.model,
                        routeKey |-> m.routeKey, provider |-> m.provider, enabled |-> m.enabled]
  OBVIOUS
<1>2. PICK table : table = Put(c.mappings, row)
  OBVIOUS
<1>3. k = [c EXCEPT !.mappings = table]
  BY <1>1, <1>2 DEF UpsertModelMapping, Contents, Consistent
<1>4. row \in MappingRows(rev)
  <2>1. <<rev, m.key>> \in Rows(rev)
    BY TrafficAssumption DEF Rows
  <2> QED
    BY <1>1, <2>1, TrafficAssumption DEF MappingRows, Optional
<1>5. table \subseteq MappingRows(rev)
  BY <1>2, <1>4, Columns DEF Put, Consistent
<1>6. IDsOf(c.mappings) \subseteq IDsOf(table)
  BY <1>2, PutIDs
<1>7. \A x \in table : x.target \in Optional(IDsOf(c.providers))
  BY <1>1, <1>2 DEF Put, ForeignKeys, Consistent, Optional
<1>8. k \in Contents(rev)
  BY <1>3, <1>5 DEF Contents, Consistent
<1>9. ForeignKeys(k)
  BY <1>3, <1>6, <1>7 DEF ForeignKeys, Contents, Consistent, Optional
<1>10. UniqueNames(k)
  BY <1>2, <1>3, PutUnique DEF UniqueNames, Contents, Consistent
<1> QED
  BY <1>8, <1>9, <1>10 DEF Consistent

\* routeIDForRevision finds a route of the revision itself.
LEMMA RouteInRevision ==
    ASSUME NEW c, NEW route, NEW r \in RouteIDForRevision(c, route)
    PROVE  r \in IDsOf(c.routes)
BY DEF RouteIDForRevision, IDsOf, Named

\* The upsert of a route limit keeps a revision consistent: the limit is of a route
\* of the same revision whatever route the request named.
LEMMA LimitConsistent ==
    ASSUME NEW rev, NEW c, Consistent(rev, c), NEW l \in Limits, NEW route,
           NEW k \in UpsertRoutePolicy(c, route, l.enabled)
    PROVE  Consistent(rev, k)
<1>1. PICK r \in RouteIDForRevision(c, route) :
          k = [c EXCEPT !.limits = {x \in c.limits : x.route # r}
                                       \cup {[route |-> r, enabled |-> l.enabled]}]
  BY DEF UpsertRoutePolicy, Contents, Consistent
<1>2. r \in IDsOf(c.routes) /\ r \in Rows(rev)
  <2>1. r \in IDsOf(c.routes)
    BY RouteInRevision
  <2> QED
    BY <2>1, Columns DEF Consistent, IDsOf, RouteRows
<1>3. PICK table :
          table = {x \in c.limits : x.route # r} \cup {[route |-> r, enabled |-> l.enabled]}
  OBVIOUS
<1>4. table \subseteq LimitRows(rev)
  BY <1>2, <1>3, Columns, TrafficAssumption DEF Consistent, LimitRows
<1>5. \A x \in table : x.route \in IDsOf(c.routes)
  BY <1>2, <1>3 DEF Consistent, ForeignKeys
<1>6. k \in Contents(rev)
  BY <1>1, <1>3, <1>4 DEF Contents, Consistent
<1>7. ForeignKeys(k)
  BY <1>1, <1>3, <1>5 DEF ForeignKeys, Contents, Consistent
<1>8. UniqueNames(k)
  BY <1>1 DEF UniqueNames, Contents, Consistent
<1> QED
  BY <1>6, <1>7, <1>8 DEF Consistent

\* The upsert and the deletion of an override keep a revision consistent.
LEMMA OverrideConsistent ==
    ASSUME NEW rev, NEW c, Consistent(rev, c), NEW o \in Overrides, NEW route,
           NEW k \in UpsertClientRouteOverride(c, o.client, route, o.enabled)
                         \cup DeleteClientRouteOverride(c, o.client, route)
    PROVE  Consistent(rev, k)
<1>1. PICK r \in RouteIDForRevision(c, route) : \E y :
          /\ y = [client |-> o.client, route |-> r, enabled |-> o.enabled]
          /\ \/ k = [c EXCEPT !.overrides =
                        {x \in c.overrides : ~ (x.route = r /\ x.client = o.client)} \cup {y}]
             \/ k = [c EXCEPT !.overrides =
                        {x \in c.overrides : ~ (x.route = r /\ x.client = o.client)}]
  BY DEF UpsertClientRouteOverride, DeleteClientRouteOverride, Contents, Consistent
<1>11. PICK row :
          /\ row = [client |-> o.client, route |-> r, enabled |-> o.enabled]
          /\ \/ k = [c EXCEPT !.overrides =
                        {x \in c.overrides : ~ (x.route = r /\ x.client = o.client)} \cup {row}]
             \/ k = [c EXCEPT !.overrides =
                        {x \in c.overrides : ~ (x.route = r /\ x.client = o.client)}]
  BY <1>1
<1>2. r \in IDsOf(c.routes) /\ r \in Rows(rev)
  <2>1. r \in IDsOf(c.routes)
    BY RouteInRevision
  <2> QED
    BY <2>1, Columns DEF Consistent, IDsOf, RouteRows
<1>3. row \in OverrideRows(rev) /\ row.route = r
  BY <1>11, <1>2, TrafficAssumption DEF OverrideRows
<1>4. PICK table : /\ k = [c EXCEPT !.overrides = table]
                   /\ table \subseteq c.overrides \cup {row}
  BY <1>11
<1>5. table \subseteq OverrideRows(rev)
  BY <1>3, <1>4, Columns DEF Consistent
<1>6. \A x \in table : x.route \in IDsOf(c.routes)
  BY <1>2, <1>3, <1>4 DEF Consistent, ForeignKeys
<1>7. k \in Contents(rev)
  BY <1>4, <1>5 DEF Contents, Consistent
<1>8. ForeignKeys(k)
  BY <1>4, <1>6 DEF ForeignKeys, Contents, Consistent
<1>9. UniqueNames(k)
  BY <1>4 DEF UniqueNames, Contents, Consistent
<1> QED
  BY <1>7, <1>8, <1>9 DEF Consistent

\* A scope of a bundle as it is stored: its names are references.
StoredScopes ==
    [route : Optional(Nat \X STRING), provider : Optional(Nat \X STRING), model : STRING,
     direction : STRING]
\* A rule of a bundle as it is submitted to the database.
StoredRules ==
    [key : STRING, enabled : BOOLEAN, action : Actions, detectors : SUBSET STRING,
     scopes : SUBSET StoredScopes]

\* policyBundleToPostgres makes references of the names in a scope.
LEMMA ScopesStored ==
    ASSUME NEW rev \in Nat, NEW rows \in Contents(rev),
           NEW scope \in [route : STRING, provider : STRING, model : STRING, direction : STRING]
    PROVE  ScopeIDs(rows, scope) \subseteq StoredScopes
<1>1. rows.routes \subseteq RouteRows(rev) /\ rows.providers \subseteq ProviderRows(rev)
  BY Columns
<1>2. /\ \A id \in IDsOf(rows.routes) : id \in Nat \X STRING
      /\ \A id \in IDsOf(rows.providers) : id \in Nat \X STRING
  BY <1>1 DEF IDsOf, RouteRows, ProviderRows, Rows
<1>3. /\ OptionalIDs(rows.routes, scope.route) \subseteq Optional(Nat \X STRING)
      /\ OptionalIDs(rows.providers, scope.provider) \subseteq Optional(Nat \X STRING)
  BY <1>2 DEF OptionalIDs, Named, IDsOf, Optional
<1>4. ASSUME NEW s \in ScopeIDs(rows, scope)
      PROVE  s \in StoredScopes
  <2>1. PICK x \in OptionalIDs(rows.routes, scope.route)
                       \X OptionalIDs(rows.providers, scope.provider) :
            s = [route |-> x[1], provider |-> x[2], model |-> scope.model,
                 direction |-> scope.direction]
    BY <1>4 DEF ScopeIDs
  <2> QED
    BY <1>3, <2>1 DEF StoredScopes
<1> QED
  BY <1>4

\* A bundle that Validate admits has storable rules.
LEMMA BundleStored ==
    ASSUME NEW rev \in Nat, NEW rows \in Contents(rev), NEW b \in Bundles, Validate(b)
    PROVE  LET B == PolicyBundleToPostgres(rows, b)
           IN  /\ B.key \in STRING /\ B.action \in Actions /\ B.detectors \subseteq STRING
               /\ B.rules \subseteq StoredRules
<1> DEFINE Stored(r) == [key |-> r.key, enabled |-> r.enabled, action |-> r.action,
                         detectors |-> r.detectors,
                         scopes |-> IF r.scope = NoScope THEN {} ELSE ScopeIDs(rows, r.scope)]
<1>1. b \in [key : STRING, action : STRING, detectors : SUBSET STRING,
             rules : SUBSET [key : STRING, enabled : BOOLEAN, action : STRING,
                             detectors : SUBSET STRING,
                             scope : [route : STRING, provider : STRING, model : STRING,
                                      direction : STRING]]]
  BY TrafficAssumption
<1>2. ASSUME NEW r \in b.rules
      PROVE  Stored(r) \in StoredRules
  <2>1. PICK scopes : scopes = IF r.scope = NoScope THEN {} ELSE ScopeIDs(rows, r.scope)
    OBVIOUS
  <2>2. scopes \subseteq StoredScopes
    BY <1>1, <2>1, ScopesStored
  <2>3. r.action \in Actions
    BY DEF Validate, ValidAction
  <2> QED
    BY <1>1, <2>1, <2>2, <2>3 DEF StoredRules
<1>3. PolicyBundleToPostgres(rows, b) = [b EXCEPT !.rules = {Stored(r) : r \in b.rules}]
  BY <1>1, Zenon DEF PolicyBundleToPostgres
<1> HIDE DEF Stored
<1>4. {Stored(r) : r \in b.rules} \subseteq StoredRules
  BY <1>2
<1>5. b.action \in Actions
  BY DEF Validate, ValidAction
<1> QED
  BY <1>1, <1>3, <1>4, <1>5

\* Every direction is stored as one that the schema knows.
LEMMA DirectionStored ==
    ASSUME NEW d
    PROVE  StorageDirection(d) \in {"request", "response", "both"}
BY Zenon DEF StorageDirection

\* The actions of policy are those of the schema.
LEMMA ActionsNamed == Actions = {"allow", "block", "redact", "shadow_log"}
BY DEF Actions, ActionPriorities

\* The upsert of a bundle keeps a revision consistent: the rows it deletes are
\* those of the bundle, with the rule detectors and scopes that refer to them, and
\* none that another bundle needs.
LEMMA BundleConsistent ==
    ASSUME NEW rev, NEW c, Consistent(rev, c), NEW B,
           B.key \in STRING, B.action \in Actions, B.detectors \subseteq STRING,
           B.rules \subseteq StoredRules, NEW k \in UpsertBundle(c, rev, B)
    PROVE  Consistent(rev, k)
<1> DEFINE RuleID(r) == <<rev, B.key, r.key>>
           Mine(x) == x[1] = rev /\ x[2] = B.key
<1>1. PICK id : id = <<rev, B.key>>
  OBVIOUS
<1>2. PICK bundles : bundles = Put(c.bundles, [id |-> id, enabled |-> TRUE, action |-> B.action])
  OBVIOUS
<1>3. PICK detectors :
          detectors = {d \in c.detectors : d.bundle # id} \cup
              {[id |-> <<rev, B.key, d>>, bundle |-> id, enabled |-> TRUE] : d \in B.detectors}
  OBVIOUS
<1>4. PICK rules :
          rules = {r \in c.rules : r.bundle # id} \cup
              {[id |-> RuleID(r), bundle |-> id, enabled |-> r.enabled, action |-> r.action] :
                  r \in B.rules}
  OBVIOUS
<1>5. PICK ruleDetectors :
          ruleDetectors = {x \in c.ruleDetectors : ~ Mine(x.rule)} \cup
              UNION {{[rule |-> RuleID(r), detector |-> <<rev, B.key, d>>] : d \in r.detectors} :
                          r \in B.rules}
  OBVIOUS
<1>6. PICK ruleScopes :
          ruleScopes = {x \in c.ruleScopes : ~ Mine(x.rule)} \cup
              UNION {{[rule |-> RuleID(r), route |-> s.route, provider |-> s.provider,
                       model |-> s.model, direction |-> StorageDirection(s.direction)] :
                          s \in r.scopes} : r \in B.rules}
  OBVIOUS
<1>7. /\ \A r \in B.rules : r.detectors \subseteq B.detectors
      /\ k = [c EXCEPT !.bundles = bundles, !.detectors = detectors, !.rules = rules,
                       !.ruleDetectors = ruleDetectors, !.ruleScopes = ruleScopes]
  <2>1. ~ (\/ \E r \in B.rules : ~ r.detectors \subseteq B.detectors
           \/ \E q, r \in B.rules : q.key = r.key /\ q # r)
    BY DEF UpsertBundle
  <2>2. /\ k \in {[c EXCEPT !.bundles = bundles, !.detectors = detectors, !.rules = rules,
                         !.ruleDetectors = ruleDetectors, !.ruleScopes = ruleScopes]}
    BY <1>1, <1>2, <1>3, <1>4, <1>5, <1>6, <2>1 DEF UpsertBundle
  <2> QED
    BY <2>1, <2>2
<1>8. /\ k.bundles = bundles /\ k.detectors = detectors /\ k.rules = rules
      /\ k.ruleDetectors = ruleDetectors /\ k.ruleScopes = ruleScopes
      /\ k.providers = c.providers /\ k.mappings = c.mappings /\ k.routes = c.routes
      /\ k.limits = c.limits /\ k.overrides = c.overrides
      /\ k.verdictProviders = c.verdictProviders /\ k.verdictBindings = c.verdictBindings
      /\ k.routeBindings = c.routeBindings /\ k.sinks = c.sinks /\ k.retention = c.retention
      /\ k.rawCapture = c.rawCapture
  BY <1>7 DEF Consistent, Contents
<1>9. id \in Rows(rev) /\ \A n \in STRING : <<rev, B.key, n>> \in Items(rev)
  BY <1>1 DEF Rows, Items
<1>10. IDsOf(c.bundles) \cup {id} \subseteq IDsOf(bundles)
  BY <1>2, PutIDs
<1>11. /\ bundles \subseteq BundleRows(rev)
       /\ detectors \subseteq DetectorRows(rev)
       /\ \A x \in detectors : x.bundle \in IDsOf(bundles) /\ x.bundle = <<x.id[1], x.id[2]>>
  <2>1. bundles \subseteq BundleRows(rev)
    <3>1. PICK row : row = [id |-> id, enabled |-> TRUE, action |-> B.action]
      OBVIOUS
    <3>2. row \in BundleRows(rev)
      BY <1>9, <3>1, ActionsNamed DEF BundleRows
    <3> QED
      BY <1>2, <3>1, <3>2, Columns DEF Put, Consistent
  <2>2. detectors \subseteq DetectorRows(rev)
    <3>1. \A d \in B.detectors :
              [id |-> <<rev, B.key, d>>, bundle |-> id, enabled |-> TRUE] \in DetectorRows(rev)
      BY <1>9 DEF DetectorRows
    <3>2. c.detectors \subseteq DetectorRows(rev)
      BY Columns DEF Consistent
    <3> QED
      BY <1>3, <3>1, <3>2
  <2>3. ASSUME NEW x \in detectors
        PROVE  x.bundle \in IDsOf(bundles) /\ x.bundle = <<x.id[1], x.id[2]>>
    BY <1>1, <1>3, <1>10 DEF Consistent, ForeignKeys
  <2> QED
    BY <2>1, <2>2, <2>3
<1>12. /\ rules \subseteq RuleRows(rev)
       /\ \A x \in rules : x.bundle \in IDsOf(bundles) /\ x.bundle = <<x.id[1], x.id[2]>>
       /\ \A r \in B.rules : RuleID(r) \in IDsOf(rules)
  <2>1. \A r \in B.rules : r.key \in STRING /\ r.enabled \in BOOLEAN /\ r.action \in Actions
    BY DEF StoredRules
  <2>2. rules \subseteq RuleRows(rev)
    BY <1>4, <1>9, <2>1, ActionsNamed, Columns DEF RuleRows, Consistent
  <2>3. ASSUME NEW x \in rules
        PROVE  x.bundle \in IDsOf(bundles) /\ x.bundle = <<x.id[1], x.id[2]>>
    BY <1>1, <1>4, <1>10 DEF Consistent, ForeignKeys
  <2>4. ASSUME NEW r \in B.rules
        PROVE  RuleID(r) \in IDsOf(rules)
    <3>1. PICK x : x = [id |-> RuleID(r), bundle |-> id, enabled |-> r.enabled,
                        action |-> r.action]
      OBVIOUS
    <3>2. x \in rules /\ x.id = RuleID(r)
      BY <1>4, <3>1
    <3> QED
      BY <3>2 DEF IDsOf
  <2> QED
    BY <2>2, <2>3, <2>4
<1>13. \A x \in IDsOf(c.rules) : ~ Mine(x) => x \in IDsOf(rules)
  <2> TAKE x \in IDsOf(c.rules)
  <2> HAVE ~ Mine(x)
  <2>1. PICK r \in c.rules : r.id = x
    BY DEF IDsOf
  <2>2. r.bundle = <<x[1], x[2]>>
    BY <2>1 DEF Consistent, ForeignKeys
  <2>3. r.bundle # id
    BY <1>1, <2>2
  <2> QED
    BY <1>4, <2>1, <2>3 DEF IDsOf
<1>14. \A x \in IDsOf(c.detectors) : ~ Mine(x) => x \in IDsOf(detectors)
  <2> TAKE x \in IDsOf(c.detectors)
  <2> HAVE ~ Mine(x)
  <2>1. PICK d \in c.detectors : d.id = x
    BY DEF IDsOf
  <2>2. d.bundle = <<x[1], x[2]>>
    BY <2>1 DEF Consistent, ForeignKeys
  <2>3. d.bundle # id
    BY <1>1, <2>2
  <2> QED
    BY <1>3, <2>1, <2>3 DEF IDsOf
<1>15. \A x \in ruleDetectors : /\ x \in RuleDetectorRows(rev)
                                /\ x.rule \in IDsOf(rules) /\ x.detector \in IDsOf(detectors)
                                /\ x.rule[2] = x.detector[2]
  <2> TAKE x \in ruleDetectors
  <2>1. CASE x \in c.ruleDetectors /\ ~ Mine(x.rule)
    <3>1. /\ x.rule \in IDsOf(c.rules) /\ x.detector \in IDsOf(c.detectors)
          /\ x.rule[2] = x.detector[2]
      BY <2>1 DEF Consistent, ForeignKeys
    <3>2. x \in RuleDetectorRows(rev)
      BY <2>1, Columns DEF Consistent
    <3>3. x.rule[1] = rev
      BY <3>2 DEF RuleDetectorRows, Items
    <3>4. ~ Mine(x.detector)
      BY <2>1, <3>1, <3>3
    <3> QED
      BY <1>13, <1>14, <2>1, <3>1, <3>2, <3>4
  <2>2. ASSUME NEW r \in B.rules, NEW d \in r.detectors,
               x = [rule |-> RuleID(r), detector |-> <<rev, B.key, d>>]
        PROVE  /\ x \in RuleDetectorRows(rev)
               /\ x.rule \in IDsOf(rules) /\ x.detector \in IDsOf(detectors)
               /\ x.rule[2] = x.detector[2]
    <3>1. d \in B.detectors /\ d \in STRING /\ r.key \in STRING
      BY <1>7, <2>2 DEF StoredRules
    <3>2. <<rev, B.key, d>> \in IDsOf(detectors)
      <4>1. PICK y : y = [id |-> <<rev, B.key, d>>, bundle |-> id, enabled |-> TRUE]
        OBVIOUS
      <4>2. y \in detectors /\ y.id = <<rev, B.key, d>>
        BY <1>3, <3>1, <4>1
      <4> QED
        BY <4>2 DEF IDsOf
    <3> QED
      BY <1>9, <1>12, <2>2, <3>1, <3>2 DEF RuleDetectorRows
  <2> QED
    BY <1>5, <2>1, <2>2
<1>16. \A x \in ruleScopes : x \in RuleScopeRows(rev) /\ x.rule \in IDsOf(rules)
  <2> TAKE x \in ruleScopes
  <2>1. CASE x \in c.ruleScopes /\ ~ Mine(x.rule)
    BY <1>13, <2>1, Columns DEF Consistent, ForeignKeys
  <2>2. ASSUME NEW r \in B.rules, NEW s \in r.scopes,
               x = [rule |-> RuleID(r), route |-> s.route, provider |-> s.provider,
                    model |-> s.model, direction |-> StorageDirection(s.direction)]
        PROVE  x \in RuleScopeRows(rev) /\ x.rule \in IDsOf(rules)
    <3>1. r.key \in STRING /\ s \in StoredScopes
      BY <2>2 DEF StoredRules
    <3>2. StorageDirection(s.direction) \in {"request", "response", "both"}
      BY DirectionStored
    <3> QED
      BY <1>9, <1>12, <2>2, <3>1, <3>2 DEF RuleScopeRows, StoredScopes
  <2> QED
    BY <1>6, <2>1, <2>2
<1>17. k \in Contents(rev)
  BY <1>7, <1>11, <1>12, <1>15, <1>16 DEF Consistent, Contents
<1>18. ForeignKeys(k)
  <2>1. \A b \in k.routeBindings : b.bundle \in IDsOf(k.bundles)
    BY <1>8, <1>10 DEF Consistent, ForeignKeys
  <2> QED
    BY <1>8, <1>11, <1>12, <1>15, <1>16, <2>1 DEF Consistent, ForeignKeys
<1>19. UniqueNames(k)
  BY BundleUnique DEF Consistent
<1> QED
  BY <1>17, <1>18, <1>19 DEF Consistent

-----------------------------------------------------------------------------
(* Every reachable revision is consistent.                                *)

\* The active revision and the draft are consistent, the draft is the next
\* revision, and revisions are counted by edits.
RowsInv ==
    /\ active.rev \in Nat \ {0} /\ Consistent(active.rev, active.rows)
    /\ \A d \in draft : /\ d.rev = active.rev + 1 /\ Consistent(d.rev, d.rows)
                        /\ draft = {d}
    /\ edits \in 0..MaxEdits
    /\ active.rev <= (IF draft = {} THEN edits + 1 ELSE edits)

\* Names in scopes are looked up in a revision that is consistent.
LEMMA CurrentConsistent ==
    ASSUME RowsInv
    PROVE  \E rev \in Nat : CurrentRows \in Contents(rev)
<1>1. CASE draft = {}
  BY <1>1 DEF RowsInv, CurrentRows, Consistent
<1>2. CASE draft # {}
  <2>1. PICK d : d = CHOOSE e \in draft : TRUE
    OBVIOUS
  <2>2. d \in draft
    BY <1>2, <2>1
  <2>3. d.rows \in Contents(d.rev) /\ d.rev \in Nat
    BY <2>2 DEF RowsInv, Consistent
  <2> QED
    BY <1>2, <2>1, <2>3 DEF CurrentRows
<1> QED
  BY <1>1, <1>2

\* ensureDraftRevision yields a consistent revision, also when it clones.
LEMMA DraftsConsistent ==
    ASSUME RowsInv, NEW d \in Drafts
    PROVE  d.rev = active.rev + 1 /\ Consistent(d.rev, d.rows)
<1>1. CASE draft # {}
  BY <1>1 DEF Drafts, RowsInv
<1>2. CASE draft = {}
  <2>1. PICK c : c = active.rows
    OBVIOUS
  <2>2. PICK k : k = CloneActive(c, active.rev + 1)
    OBVIOUS
  <2>3. d.rev = active.rev + 1 /\ d.rows = k /\ Whole(k)
    BY <1>2, <2>1, <2>2 DEF Drafts
  <2>4. active.rev + 1 \in Nat
    BY DEF RowsInv
  <2>5. ForeignKeys(c) /\ IsClone(c, k, active.rev, active.rev + 1)
    BY <2>1, <2>2, <2>3 DEF RowsInv, Consistent, IsClone
  <2>6. k \in Contents(active.rev + 1)
    BY <2>4, <2>5, ClonedContents
  <2>7. ForeignKeys(k)
    BY <2>5, ClonedForeignKeys
  <2>8. UniqueNames(k)
    BY <2>1, <2>5, ClonedUnique DEF RowsInv, Consistent
  <2> QED
    BY <2>3, <2>6, <2>7, <2>8 DEF Consistent
<1> QED
  BY <1>1, <1>2

\* An edit that leaves the draft consistent keeps the invariant.
LEMMA EditKeepsRows ==
    ASSUME RowsInv, NEW d \in Drafts, NEW contents, WithDraftRevision(d, contents),
           \A rows \in contents : Consistent(d.rev, rows)
    PROVE  RowsInv'
<1>1. PICK rows \in contents : draft' = {[rev |-> d.rev, rows |-> rows]}
  BY DEF WithDraftRevision
<1>2. d.rev = active.rev + 1
  BY DraftsConsistent
<1>3. active' = active /\ edits < MaxEdits /\ edits' = edits + 1
  BY DEF WithDraftRevision
<1>4. edits' \in 0..MaxEdits /\ active.rev <= edits'
  BY <1>3, TrafficAssumption DEF RowsInv
<1>5. Consistent(d.rev, rows)
  OBVIOUS
<1>6. /\ active'.rev \in Nat \ {0} /\ Consistent(active'.rev, active'.rows)
      /\ active'.rev <= (IF draft' = {} THEN edits' + 1 ELSE edits')
  BY <1>1, <1>3, <1>4 DEF RowsInv
<1>7. ASSUME NEW e \in draft'
      PROVE  e.rev = active'.rev + 1 /\ Consistent(e.rev, e.rows) /\ draft' = {e}
  BY <1>1, <1>2, <1>3, <1>5, <1>7
<1> QED
  BY <1>4, <1>6, <1>7 DEF RowsInv, Consistent

\* A step that leaves the revisions alone keeps the invariant.
LEMMA RowsKept ==
    ASSUME RowsInv, UNCHANGED <<active, draft, edits>>
    PROVE  RowsInv'
BY DEF RowsInv

\* CreatePolicyBundle keeps the invariant.
LEMMA BundleCreated ==
    ASSUME RowsInv, NEW b \in Bundles, CreatePolicyBundle(b)
    PROVE  RowsInv'
<1>1. PICK rows : rows = CurrentRows
  OBVIOUS
<1>2. PICK B : B = PolicyBundleToPostgres(rows, b)
  OBVIOUS
<1>3. PICK d \in Drafts : WithDraftRevision(d, UpsertBundle(d.rows, d.rev, B))
  BY <1>1, <1>2 DEF CreatePolicyBundle
<1>4. /\ B.key \in STRING /\ B.action \in Actions /\ B.detectors \subseteq STRING
      /\ B.rules \subseteq StoredRules
  <2>1. PICK rev \in Nat : rows \in Contents(rev)
    BY <1>1, CurrentConsistent
  <2>2. Validate(b)
    BY DEF CreatePolicyBundle
  <2> QED
    BY <1>2, <2>1, <2>2, BundleStored
<1>5. Consistent(d.rev, d.rows)
  BY DraftsConsistent
<1>6. \A k \in UpsertBundle(d.rows, d.rev, B) : Consistent(d.rev, k)
  BY <1>4, <1>5, BundleConsistent
<1> QED
  BY <1>3, <1>6, EditKeepsRows

\* ActivatePolicyBundles keeps the invariant.
LEMMA BundlesActivated ==
    ASSUME RowsInv, NEW keys, ActivatePolicyBundles(keys)
    PROVE  RowsInv'
<1>1. PICK d \in draft :
          active' = [rev |-> d.rev, rows |-> UpdateDraftBundleActivation(d.rows, keys)]
  BY DEF ActivatePolicyBundles
<1>2. Consistent(d.rev, UpdateDraftBundleActivation(d.rows, keys))
  <2>1. Consistent(d.rev, d.rows)
    BY DEF RowsInv
  <2> QED
    BY <2>1, ActivationConsistent
<1>3. d.rev = active.rev + 1 /\ draft' = {} /\ edits' = edits
  BY DEF ActivatePolicyBundles, RowsInv
<1>4. active'.rev = d.rev /\ active'.rows = UpdateDraftBundleActivation(d.rows, keys)
  BY <1>1
<1>5. active'.rev \in Nat \ {0} /\ active'.rev <= edits' + 1
  BY <1>3, <1>4 DEF RowsInv
<1>6. Consistent(active'.rev, active'.rows)
  BY <1>2, <1>4
<1> QED
  BY <1>3, <1>5, <1>6 DEF RowsInv, Consistent

\* Every step keeps the invariant.
LEMMA NextKeepsRows ==
    ASSUME RowsInv, [Next]_vars
    PROVE  RowsInv'
<1>1. ASSUME NEW b \in Bundles, CreatePolicyBundle(b) PROVE RowsInv'
  BY <1>1, BundleCreated
<1>2. ASSUME NEW m \in Mappings, PutModelMapping(m) PROVE RowsInv'
  <2>1. PICK d \in Drafts : WithDraftRevision(d, UpsertModelMapping(d.rows, d.rev, m))
    BY <1>2 DEF PutModelMapping
  <2>2. \A k \in UpsertModelMapping(d.rows, d.rev, m) : Consistent(d.rev, k)
    BY DraftsConsistent, MappingConsistent
  <2> QED
    BY <2>1, <2>2, EditKeepsRows
<1>3. ASSUME NEW v \in VerdictProviders, PutVerdictProvider(v) PROVE RowsInv'
  <2>1. PICK d \in Drafts :
            WithDraftRevision(d, {UpsertVerdictProvider(d.rows, d.rev, Filed(v))})
    BY <1>3 DEF PutVerdictProvider
  <2>2. \A k \in {UpsertVerdictProvider(d.rows, d.rev, Filed(v))} : Consistent(d.rev, k)
    BY DraftsConsistent, FiledRecord, VerdictProviderConsistent
  <2> QED
    BY <2>1, <2>2, EditKeepsRows
<1>4. ASSUME NEW l \in Limits, PutRouteLimit(l) PROVE RowsInv'
  <2>1. PICK d \in Drafts : \E route :
            WithDraftRevision(d, UpsertRoutePolicy(d.rows, route, l.enabled))
    BY <1>4 DEF PutRouteLimit
  <2>2. PICK route : WithDraftRevision(d, UpsertRoutePolicy(d.rows, route, l.enabled))
    BY <2>1
  <2>3. \A k \in UpsertRoutePolicy(d.rows, route, l.enabled) : Consistent(d.rev, k)
    BY DraftsConsistent, LimitConsistent
  <2> QED
    BY <2>2, <2>3, EditKeepsRows
<1>5. ASSUME NEW o \in Overrides, PutClientRouteLimit(o) PROVE RowsInv'
  <2>1. PICK d \in Drafts : \E route :
            WithDraftRevision(d, UpsertClientRouteOverride(d.rows, o.client, route, o.enabled))
    BY <1>5 DEF PutClientRouteLimit
  <2>2. PICK route :
            WithDraftRevision(d, UpsertClientRouteOverride(d.rows, o.client, route, o.enabled))
    BY <2>1
  <2>3. \A k \in UpsertClientRouteOverride(d.rows, o.client, route, o.enabled) :
            Consistent(d.rev, k)
    BY DraftsConsistent, OverrideConsistent
  <2> QED
    BY <2>2, <2>3, EditKeepsRows
<1>6. ASSUME NEW o \in Overrides, DeleteClientRouteLimit(o) PROVE RowsInv'
  <2>1. PICK d \in Drafts : \E route :
            WithDraftRevision(d, DeleteClientRouteOverride(d.rows, o.client, route))
    BY <1>6 DEF DeleteClientRouteLimit
  <2>2. PICK route : WithDraftRevision(d, DeleteClientRouteOverride(d.rows, o.client, route))
    BY <2>1
  <2>3. \A k \in DeleteClientRouteOverride(d.rows, o.client, route) : Consistent(d.rev, k)
    BY DraftsConsistent, OverrideConsistent
  <2> QED
    BY <2>2, <2>3, EditKeepsRows
<1>7. ASSUME NEW keys \in ActivationKeys, ActivatePolicyBundles(keys) PROVE RowsInv'
  BY <1>7, BundlesActivated
<1>8. CASE Reload
  BY <1>8, RowsKept DEF Reload
<1>9. CASE EvaluateSome
  BY <1>9, EvaluationServes, RowsKept
<1>10. CASE ExchangeEnds
  BY <1>10, RowsKept DEF ExchangeEnds
<1>11. CASE UNCHANGED vars
  BY <1>11, RowsKept DEF vars
<1> QED
  BY <1>1, <1>2, <1>3, <1>4, <1>5, <1>6, <1>7, <1>8, <1>9, <1>10, <1>11 DEF Next

\* RowsInv is an invariant.
LEMMA RowsConsistent == Spec => []RowsInv
<1>1. Init => RowsInv
  <2> SUFFICES ASSUME Init PROVE RowsInv
    OBVIOUS
  <2>1. active.rev = 1 /\ active.rows = Seed /\ draft = {} /\ edits = 0
    BY DEF Init
  <2>2. Consistent(1, Seed)
    BY TrafficAssumption DEF Consistent
  <2>3. 0 \in 0..MaxEdits
    BY TrafficAssumption
  <2> QED
    BY <2>1, <2>2, <2>3 DEF RowsInv
<1>2. RowsInv /\ [Next]_vars => RowsInv'
  BY NextKeepsRows
<1> QED
  BY <1>1, <1>2, PTL DEF Spec

-----------------------------------------------------------------------------
(* The strictest of several actions.                                      *)

\* Actions have different priorities.
LEMMA Priorities ==
    /\ \A a \in Actions : ActionPriority(a) \in 0..3
    /\ \A a, b \in Actions : ActionPriority(a) = ActionPriority(b) => a = b
<1>1. /\ ActionPriority("allow") = 0 /\ ActionPriority("shadow_log") = 1
      /\ ActionPriority("redact") = 2 /\ ActionPriority("block") = 3
  BY DEF ActionPriority, ActionPriorities, ValidAction, Actions
<1> QED
  BY <1>1, ActionsNamed

\* The strictest of some actions is the only one that no other exceeds.
LEMMA StrictestOf ==
    ASSUME NEW S, S \subseteq Actions, NEW a \in S,
           \A b \in S : ActionPriority(b) <= ActionPriority(a)
    PROVE  Strictest(S) = a
<1>1. PICK c : c = CHOOSE x \in S : \A b \in S : ActionPriority(b) <= ActionPriority(x)
  OBVIOUS
<1>2. c \in S /\ \A b \in S : ActionPriority(b) <= ActionPriority(c)
  BY <1>1
<1>3. ActionPriority(c) = ActionPriority(a)
  BY <1>2, Priorities
<1>4. c = a
  BY <1>2, <1>3, Priorities
<1> QED
  BY <1>1, <1>4 DEF Strictest

\* It exceeds or equals each of them.
LEMMA StrictestBounds ==
    ASSUME NEW S, S \subseteq Actions, S # {}
    PROVE  Strictest(S) \in S /\ \A b \in S : ActionPriority(b) <= ActionPriority(Strictest(S))
<1>1. /\ ActionPriority("allow") = 0 /\ ActionPriority("shadow_log") = 1
      /\ ActionPriority("redact") = 2 /\ ActionPriority("block") = 3
  BY DEF ActionPriority, ActionPriorities, ValidAction, Actions
<1>2. \E a \in S : \A b \in S : ActionPriority(b) <= ActionPriority(a)
  <2>1. CASE "block" \in S
    BY <1>1, <2>1, ActionsNamed
  <2>2. CASE "block" \notin S /\ "redact" \in S
    BY <1>1, <2>2, ActionsNamed
  <2>3. CASE "block" \notin S /\ "redact" \notin S /\ "shadow_log" \in S
    BY <1>1, <2>3, ActionsNamed
  <2>4. CASE "block" \notin S /\ "redact" \notin S /\ "shadow_log" \notin S
    <3>1. \A a \in S : a = "allow"
      BY <2>4, ActionsNamed
    <3>2. PICK a : a \in S
      OBVIOUS
    <3>3. \A b \in S : ActionPriority(b) <= ActionPriority(a)
      BY <1>1, <3>1, <3>2
    <3> QED
      BY <3>2, <3>3
  <2> QED
    BY <2>1, <2>2, <2>3, <2>4
<1>3. PICK a \in S : \A b \in S : ActionPriority(b) <= ActionPriority(a)
  BY <1>2
<1>4. Strictest(S) = a
  BY <1>3, StrictestOf
<1> QED
  BY <1>3, <1>4

\* Taking the strictest of some first does not change the strictest of all.
LEMMA StrictestFirst ==
    ASSUME NEW A, A \subseteq Actions, A # {}, NEW B, B \subseteq Actions
    PROVE  Strictest({Strictest(A)} \cup B) = Strictest(A \cup B)
<1>1. PICK a : a = Strictest(A)
  OBVIOUS
<1>2. a \in A /\ \A b \in A : ActionPriority(b) <= ActionPriority(a)
  BY <1>1, StrictestBounds
<1>3. PICK t : t = Strictest({a} \cup B)
  OBVIOUS
<1>4. t \in {a} \cup B /\ \A b \in {a} \cup B : ActionPriority(b) <= ActionPriority(t)
  BY <1>2, <1>3, StrictestBounds
<1>5. \A b \in A : ActionPriority(b) <= ActionPriority(t)
  <2> TAKE b \in A
  <2>1. ActionPriority(b) <= ActionPriority(a) /\ ActionPriority(a) <= ActionPriority(t)
    BY <1>2, <1>4
  <2>2. ActionPriority(a) \in Int /\ ActionPriority(b) \in Int /\ ActionPriority(t) \in Int
    BY <1>2, <1>4, Priorities
  <2> QED
    BY <2>1, <2>2
<1>6. Strictest(A \cup B) = t
  BY <1>2, <1>4, <1>5, StrictestOf
<1> QED
  BY <1>1, <1>3, <1>6

\* The action of a model is applied when it is valid and stricter.
LEMMA StrictestApplied ==
    ASSUME NEW A, A \subseteq Actions, A # {}, NEW local, local = Strictest(A), NEW model
    PROVE  (IF ValidAction(model) /\ ActionPriority(model) > ActionPriority(local)
            THEN model ELSE local) = Strictest(A \cup ({model} \cap Actions))
<1>1. local \in A /\ \A b \in A : ActionPriority(b) <= ActionPriority(local)
  BY StrictestBounds
<1>2. CASE model \notin Actions
  BY <1>2 DEF ValidAction
<1>3. CASE model \in Actions /\ ActionPriority(model) > ActionPriority(local)
  <2>1. \A b \in A \cup {model} : ActionPriority(b) <= ActionPriority(model)
    <3> TAKE b \in A \cup {model}
    <3>1. ActionPriority(b) \in Int /\ ActionPriority(model) \in Int
          /\ ActionPriority(local) \in Int
      BY <1>1, <1>3, Priorities
    <3> QED
      BY <1>1, <1>3, <3>1
  <2>2. Strictest(A \cup {model}) = model
    BY <1>3, <2>1, StrictestOf
  <2> QED
    BY <1>3, <2>2 DEF ValidAction
<1>4. CASE model \in Actions /\ ~ (ActionPriority(model) > ActionPriority(local))
  <2>1. ActionPriority(model) <= ActionPriority(local)
    BY <1>1, <1>4, Priorities
  <2>2. Strictest(A \cup {model}) = local
    BY <1>1, <1>4, <2>1, StrictestOf
  <2> QED
    BY <1>4, <2>2
<1> QED
  BY <1>2, <1>3, <1>4

-----------------------------------------------------------------------------
(* The action of an exchange is one of policy.                            *)

\* A snapshot whose actions policy knows.
ValidSnapshot(s) == s.default \in Actions /\ \A r \in s.rules : r.action \in Actions

\* Compilation refuses a bundle with another action.
LEMMA CompiledActions ==
    ASSUME NEW c, NEW clients, NEW config \in CompileGatewayRuntime(c, clients)
    PROVE  ValidSnapshot(config.snapshot)
<1>1. PICK bundles : bundles = ConvertPolicyBundles(c)
  OBVIOUS
<1>2. \A b \in bundles : Compilable(b)
  BY <1>1, CompiledFrom
<1>3. config.snapshot = CompileSnapshot(bundles)
  BY <1>1, CompiledFrom DEF BuildConfig
<1>4. \A b \in bundles : b.action \in Actions
  BY <1>2 DEF Compilable, ValidAction
<1>5. Strictest({"allow"} \cup {b.action : b \in bundles}) \in Actions
  BY <1>4, StrictestBounds, ActionsNamed
<1>6. ASSUME NEW b \in bundles, NEW r \in CompiledRules(b)
      PROVE  r.action \in Actions
  <2>1. PICK q \in ActiveRules(b) : r.action = q.action
    BY DEF CompiledRules
  <2> QED
    BY <1>2, <2>1 DEF Compilable, ValidAction
<1> QED
  BY <1>3, <1>5, <1>6 DEF CompileSnapshot, ValidSnapshot

\* Evaluating such a snapshot yields one of its actions or a valid one of the
\* model.
LEMMA EvaluatedAction ==
    ASSUME NEW s, ValidSnapshot(s), NEW req, NEW match, NEW signal
    PROVE  Evaluate(s, req, match, signal).action \in Actions
<1>1. PICK hits : hits = RuleHits(s, req, match)
  OBVIOUS
<1>2. \A r \in hits : r.action \in Actions
  BY <1>1 DEF RuleHits, CandidateRules, ValidSnapshot
<1>3. PICK local : local = Strictest({s.default} \cup {r.action : r \in hits})
  OBVIOUS
<1>4. local \in Actions
  BY <1>2, <1>3, StrictestBounds DEF ValidSnapshot
<1>5. \E model : Evaluate(s, req, match, signal).action
                    = IF ValidAction(model) /\ ActionPriority(model) > ActionPriority(local)
                      THEN model ELSE local
  BY <1>1, <1>3 DEF Evaluate
<1> QED
  BY <1>4, <1>5 DEF ValidAction

\* So does the evaluation of traffic, with whatever signal it asks for.
LEMMA TrafficAction ==
    ASSUME NEW s, ValidSnapshot(s), NEW req, NEW match, NEW route, NEW hasProvider, NEW verdict
    PROVE  EvaluateTraffic(s, req, match, route, hasProvider, verdict).action \in Actions
<1>1. \E signal : EvaluateTraffic(s, req, match, route, hasProvider, verdict)
                    = Evaluate(s, req, match, signal)
  BY Zenon DEF EvaluateTraffic, EvaluatePolicy
<1> QED
  BY <1>1, EvaluatedAction, Zenon

\* What TypeOK says of the gateway.
GatewayInv ==
    /\ \A s, t \in served : s = t
    /\ \A x, y \in exchange : x = y
    /\ \A x \in exchange : x.action \in Actions

\* A verdict provider is asked about traffic on the route.
Provided(s, route) == VerdictProviderFor(s.config, route) # ""

\* The spans that are to be redacted.
TrafficSpans(s, route, x) ==
    EvaluateTraffic(s.config.snapshot, x.req, x.match, route, Provided(s, route),
                    x.verdict).findings
        \cup MatchedSpans(route, Provided(s, route), x.verdict)

\* The exchange that an evaluation leaves has the action that policy decided, and this
\* action was enforced.
LEMMA Evaluated ==
    ASSUME NEW route, NEW model, NEW direction, NEW match, NEW verdict,
           EvaluateExchange(route, model, direction, match, verdict)
    PROVE  \E s \in served : \E x :
              /\ exchange' = {x}
              /\ x.req = [route |-> route.key, provider |-> route.provider, model |-> model,
                          direction |-> direction]
              /\ x.match = match /\ x.verdict = verdict
              /\ x.action = EvaluateTraffic(s.config.snapshot, x.req, match, route,
                                            Provided(s, route), verdict).action
              /\ x.result = Enforce(x.action, TrafficSpans(s, route, x)).result
              /\ x.texts = Enforce(x.action, TrafficSpans(s, route, x)).texts
<1> DEFINE Req == [route |-> route.key, provider |-> route.provider, model |-> model,
                   direction |-> direction]
           HasProvider(s) == VerdictProviderFor(s.config, route) # ""
           Decision(s) == EvaluateTraffic(s.config.snapshot, Req, match, route, HasProvider(s),
                                          verdict)
           Enforced(s) == Enforce(Decision(s).action,
                                  Decision(s).findings
                                    \cup MatchedSpans(route, HasProvider(s), verdict))
           Result(s) == [req |-> Req, match |-> match, verdict |-> verdict,
                         action |-> Decision(s).action, result |-> Enforced(s).result,
                         texts |-> Enforced(s).texts,
                         shadow |-> IF route.execution = "async_shadow" /\ HasProvider(s)
                                    THEN EvaluateShadow(s.config.snapshot, Req, match, route,
                                                        verdict).action
                                    ELSE ""]
<1>1. PICK s \in served : exchange' = {Result(s)}
  BY Zenon DEF EvaluateExchange
<1>2. /\ Result(s).action = Decision(s).action /\ Result(s).req = Req
      /\ Result(s).match = match /\ Result(s).verdict = verdict
      /\ Result(s).result = Enforced(s).result /\ Result(s).texts = Enforced(s).texts
  BY Zenon
<1>3. PICK x : x = Result(s)
  BY Zenon
<1>4. /\ exchange' = {x} /\ x.req = Req /\ x.match = match /\ x.verdict = verdict
      /\ x.action = EvaluateTraffic(s.config.snapshot, x.req, match, route,
                                    Provided(s, route), verdict).action
  BY <1>1, <1>2, <1>3, Zenon DEF Provided
<1>5. /\ x.result = Enforce(x.action, TrafficSpans(s, route, x)).result
      /\ x.texts = Enforce(x.action, TrafficSpans(s, route, x)).texts
  <2>1. /\ x.action = Decision(s).action /\ x.req = Req /\ x.match = match
        /\ x.verdict = verdict /\ x.result = Enforced(s).result /\ x.texts = Enforced(s).texts
    BY <1>2, <1>3, Zenon
  <2>2. TrafficSpans(s, route, x)
            = Decision(s).findings \cup MatchedSpans(route, HasProvider(s), verdict)
    BY <2>1, Zenon DEF TrafficSpans, Provided
  <2> QED
    BY <2>1, <2>2, Zenon
<1> QED
  BY <1>4, <1>5, Zenon

\* Every step keeps GatewayInv while what is served is compiled.
LEMMA GatewayKept ==
    ASSUME GatewayInv, ServedIsCompiled, [Next]_vars
    PROVE  GatewayInv'
<1>1. \A s, t \in served' : s = t
  <2>1. CASE served' = served
    BY <2>1 DEF GatewayInv
  <2>2. CASE \E config \in CompileGatewayRuntime(active.rows, Clients) :
                served' = {[rows |-> active.rows, config |-> config]}
    BY <2>2
  <2> QED
    BY <2>1, <2>2, NextServed
<1>2. (\A x, y \in exchange' : x = y) /\ (\A x \in exchange' : x.action \in Actions)
  <2>1. CASE exchange' = {}
    BY <2>1
  <2>2. CASE exchange' = exchange
    BY <2>2 DEF GatewayInv
  <2>3. CASE EvaluateSome
    <3>1. PICK route, model, direction, match, verdict :
              EvaluateExchange(route, model, direction, match, verdict)
      BY <2>3, Zenon DEF EvaluateSome
    <3>2. PICK s \in served : \E x :
              /\ exchange' = {x}
              /\ x.req = [route |-> route.key, provider |-> route.provider, model |-> model,
                          direction |-> direction]
              /\ x.match = match /\ x.verdict = verdict
              /\ x.action = EvaluateTraffic(s.config.snapshot, x.req, match, route,
                                            Provided(s, route), verdict).action
      BY <3>1, Evaluated
    <3>3. ValidSnapshot(s.config.snapshot)
      BY CompiledActions DEF ServedIsCompiled
    <3>4. PICK x : exchange' = {x} /\ x.action \in Actions
      BY <3>2, <3>3, TrafficAction, Zenon
    <3> QED
      BY <3>4
  <2>4. ASSUME NEW d, NEW contents, WithDraftRevision(d, contents) PROVE exchange' = {}
    BY <2>4 DEF WithDraftRevision
  <2> QED
    BY <2>1, <2>2, <2>3, <2>4
    DEF Next, CreatePolicyBundle, PutModelMapping, PutVerdictProvider, PutRouteLimit,
        PutClientRouteLimit, DeleteClientRouteLimit, ActivatePolicyBundles, Reload,
        ExchangeEnds, vars
<1> QED
  BY <1>1, <1>2 DEF GatewayInv

\* GatewayInv is an invariant.
LEMMA GatewayInvariant == Spec => []GatewayInv
<1>1. Init => GatewayInv
  BY DEF Init, GatewayInv
<1>2. GatewayInv /\ ServedIsCompiled /\ [Next]_vars => GatewayInv'
  BY GatewayKept
<1> QED
  BY <1>1, <1>2, ServedCompiled, PTL DEF Spec

\* A set whose members are equal has at most one.
LEMMA AtMostOne ==
    ASSUME NEW S, \A x, y \in S : x = y
    PROVE  Cardinality(S) <= 1
<1>1. CASE S = {}
  BY <1>1, FS_EmptySet
<1>2. CASE S # {}
  <2>1. PICK x : x \in S
    BY <1>2
  <2>2. S = {x}
    BY <2>1
  <2> QED
    BY <2>2, FS_Singleton
<1> QED
  BY <1>1, <1>2

\* Type correctness: revisions stay whole and in order, and the gateway never
\* enforces an action that policy does not know.
THEOREM TypeCorrect == Spec => []TypeOK
<1>1. RowsInv /\ GatewayInv => TypeOK
  <2> SUFFICES ASSUME RowsInv, GatewayInv PROVE TypeOK
    OBVIOUS
  <2>1. Whole(active.rows)
    BY ContentsWhole DEF RowsInv, Consistent
  <2>2. active.rev \in 1..(MaxEdits + 1) /\ edits \in 0..MaxEdits
    BY TrafficAssumption DEF RowsInv
  <2>3. Cardinality(draft) <= 1 /\ Cardinality(served) <= 1 /\ Cardinality(exchange) <= 1
    BY AtMostOne DEF RowsInv, GatewayInv
  <2>4. \A d \in draft : d.rev = active.rev + 1 /\ Whole(d.rows)
    BY ContentsWhole DEF RowsInv, Consistent
  <2>5. \A x \in exchange : ValidAction(x.action)
    BY DEF GatewayInv, ValidAction
  <2> QED
    BY <2>1, <2>2, <2>3, <2>4, <2>5 DEF TypeOK
<1> QED
  BY <1>1, RowsConsistent, GatewayInvariant, PTL

\* A draft starts as an exact copy: if it were activated at once, the gateway would
\* serve what it served before, and only a scope that refers to another revision
\* keeps it from being made (revision_clone_orchestration.go).
THEOREM CloneServes == Spec => []CloneServesTheSame
<1>1. RowsInv => CloneServesTheSame
  <2> SUFFICES ASSUME RowsInv PROVE CloneServesTheSame
    OBVIOUS
  <2>1. PICK c : c = active.rows
    OBVIOUS
  <2>2. PICK d : d = active.rev + 1
    OBVIOUS
  <2>3. PICK k : k = CloneActive(c, d)
    OBVIOUS
  <2>4. c \in Contents(active.rev) /\ ForeignKeys(c) /\ d \in Nat
    BY <2>1, <2>2 DEF RowsInv, Consistent
  <2>5. Intact(c) => Whole(k)
    <3> SUFFICES ASSUME Intact(c) PROVE Whole(k)
      OBVIOUS
    <3>1. IsClone(c, k, active.rev, d)
      BY <2>3, <2>4, IntactResolves DEF IsClone
    <3>2. k \in Contents(d)
      BY <2>4, <3>1, ClonedContents
    <3> QED
      BY <3>2, ContentsWhole
  <2>6. ASSUME Whole(k)
        PROVE  /\ CompileGatewayRuntime(k, Clients) = CompileGatewayRuntime(c, Clients)
               /\ ConvertSinks(k) = ConvertSinks(c)
               /\ ConvertRetentionPolicies(k) = ConvertRetentionPolicies(c)
    <3>1. IsClone(c, k, active.rev, d)
      BY <2>3, <2>4, <2>6 DEF IsClone
    <3> QED
      BY <3>1, ClonedRuntime, ClonedObservability
  <2> QED
    BY <2>1, <2>2, <2>3, <2>5, <2>6 DEF CloneServesTheSame
<1> QED
  BY <1>1, RowsConsistent, PTL

-----------------------------------------------------------------------------
(* What the rules hit and a verdict ask of policy.                        *)

\* The action of an evaluation is the strictest of the default, the rules hit and
\* the model's.
LEMMA EvaluatedStrictest ==
    ASSUME NEW s, ValidSnapshot(s), NEW req, NEW match, NEW signal
    PROVE  Evaluate(s, req, match, signal).action =
               Strictest({s.default} \cup {r.action : r \in RuleHits(s, req, match)}
                   \cup ({IF signal.fallbackUsed THEN signal.fallback ELSE signal.action}
                            \cap Actions))
<1>1. PICK A : A = {s.default} \cup {r.action : r \in RuleHits(s, req, match)}
  OBVIOUS
<1>2. A \subseteq Actions /\ A # {}
  BY <1>1 DEF RuleHits, CandidateRules, ValidSnapshot
<1>3. PICK local : local = Strictest(A)
  OBVIOUS
<1>4. PICK model : model = IF signal.fallbackUsed THEN signal.fallback ELSE signal.action
  OBVIOUS
<1>5. Evaluate(s, req, match, signal).action
          = IF ValidAction(model) /\ ActionPriority(model) > ActionPriority(local)
            THEN model ELSE local
  BY <1>1, <1>3, <1>4 DEF Evaluate
<1>6. Evaluate(s, req, match, signal).action = Strictest(A \cup ({model} \cap Actions))
  BY <1>2, <1>3, <1>5, StrictestApplied
<1> QED
  BY <1>1, <1>4, <1>6

\* What a verdict asks of an exchange on a route: VerdictAsks for a route at hand.
Asked(route, hasProvider, verdict) ==
    IF route.execution = "async_shadow" \/ ~ hasProvider THEN {}
    ELSE IF ~ (verdict.failed \/ verdict.fallbackUsed) THEN {verdict.action} \cap Actions
         ELSE IF route.fallback \in Actions THEN {route.fallback}
              ELSE IF verdict.failed THEN {"block"} ELSE {}

\* An action that policy does not know is none.
LEMMA KnownAction ==
    /\ "" \notin Actions
    /\ \A a : /\ {PolicyAction(a)} \cap Actions = {a} \cap Actions
              /\ PolicyAction(a) = "" <=> a \notin Actions
              /\ PolicyAction(a) \in Actions <=> a \in Actions
<1>1. "" \notin Actions
  BY ActionsNamed
<1> QED
  BY <1>1 DEF PolicyAction

\* The signal that policy evaluates asks for what the verdict does: a failed verdict
\* asks for the route's fallback, and without one for a block.
LEMMA SignalAsks ==
    ASSUME NEW verdict, NEW fallback, NEW signal, NEW told,
           told = ModelSignalFromVerdict(verdict, fallback),
           signal = IF told.fallback = ""
                    THEN [told EXCEPT !.fallback = PolicyAction(fallback)] ELSE told
    PROVE  {IF signal.fallbackUsed THEN signal.fallback ELSE signal.action} \cap Actions =
               IF ~ (verdict.failed \/ verdict.fallbackUsed) THEN {verdict.action} \cap Actions
               ELSE IF fallback \in Actions THEN {fallback}
                    ELSE IF verdict.failed THEN {"block"} ELSE {}
<1>1. PICK used \in BOOLEAN : used = TRUE <=> verdict.failed \/ verdict.fallbackUsed
  OBVIOUS
<1>2. PICK f : f = IF verdict.failed /\ PolicyAction(fallback) = ""
                   THEN "block" ELSE PolicyAction(fallback)
  OBVIOUS
<1>3. PICK model :
          model = [action |-> PolicyAction(verdict.action), fallbackUsed |-> used, fallback |-> f]
  OBVIOUS
<1>4. ModelSignalFromVerdict(verdict, fallback) = model
  <2>1. (verdict.failed \/ verdict.fallbackUsed) = used
    BY <1>1
  <2> QED
    BY <1>2, <1>3, <2>1 DEF ModelSignalFromVerdict
<1>5. signal = IF model.fallback = "" THEN [model EXCEPT !.fallback = PolicyAction(fallback)]
               ELSE model
  BY <1>4
<1>6. /\ signal.action = PolicyAction(verdict.action) /\ signal.fallbackUsed = used
      /\ signal.fallback = f
  <2>0. model.action = PolicyAction(verdict.action) /\ model.fallbackUsed = used
        /\ model.fallback = f
    BY <1>3
  <2>1. CASE f # ""
    BY <1>5, <2>0, <2>1
  <2>2. CASE f = ""
    <3>1. PolicyAction(fallback) = ""
      BY <1>2, <2>2
    <3>2. signal = [model EXCEPT !.fallback = ""]
      BY <1>5, <2>0, <2>2, <3>1
    <3> QED
      BY <1>3, <2>2, <3>2
  <2> QED
    BY <2>1, <2>2
<1>7. CASE ~ (verdict.failed \/ verdict.fallbackUsed)
  BY <1>1, <1>6, <1>7, KnownAction
<1>8. CASE verdict.failed \/ verdict.fallbackUsed
  <2>1. (IF signal.fallbackUsed THEN signal.fallback ELSE signal.action) = f
    BY <1>1, <1>6, <1>8
  <2>2. CASE fallback \in Actions
    <3>1. f = fallback
      BY <1>2, <2>2, KnownAction DEF PolicyAction
    <3> QED
      BY <1>8, <2>1, <2>2, <3>1
  <2>3. CASE fallback \notin Actions /\ verdict.failed
    <3>1. f = "block" /\ f \in Actions
      BY <1>2, <2>3, KnownAction, ActionsNamed
    <3> QED
      BY <1>8, <2>1, <2>3, <3>1
  <2>4. CASE fallback \notin Actions /\ ~ verdict.failed
    <3>1. f = "" /\ f \notin Actions
      BY <1>2, <2>4, KnownAction
    <3> QED
      BY <1>8, <2>1, <2>4, <3>1
  <2> QED
    BY <2>2, <2>3, <2>4
<1> QED
  BY <1>7, <1>8

\* So the action of traffic is the strictest of the default, the rules hit and what
\* the verdict asks for.
LEMMA TrafficStrictest ==
    ASSUME NEW s, ValidSnapshot(s), NEW req, NEW match, NEW route, NEW hasProvider, NEW verdict
    PROVE  EvaluateTraffic(s, req, match, route, hasProvider, verdict).action =
               Strictest({s.default} \cup {r.action : r \in RuleHits(s, req, match)}
                             \cup Asked(route, hasProvider, verdict))
<1> DEFINE Filled(m) == IF m.fallback = ""
                        THEN [m EXCEPT !.fallback = PolicyAction(route.fallback)] ELSE m
           Model(m) == IF m.fallbackUsed THEN m.fallback ELSE m.action
<1>1. CASE route.execution # "async_shadow" /\ hasProvider
  <2>1. PICK signal : signal = Filled(ModelSignalFromVerdict(verdict, route.fallback))
    OBVIOUS
  <2>2. EvaluateTraffic(s, req, match, route, hasProvider, verdict)
            = Evaluate(s, req, match, signal)
    BY <1>1, <2>1 DEF EvaluateTraffic, EvaluatePolicy
  <2>3. {Model(signal)} \cap Actions =
            IF ~ (verdict.failed \/ verdict.fallbackUsed) THEN {verdict.action} \cap Actions
            ELSE IF route.fallback \in Actions THEN {route.fallback}
                 ELSE IF verdict.failed THEN {"block"} ELSE {}
    <3>1. PICK told, fallback : /\ told = ModelSignalFromVerdict(verdict, fallback)
                                /\ fallback = route.fallback
      OBVIOUS
    <3>2. signal = IF told.fallback = ""
                   THEN [told EXCEPT !.fallback = PolicyAction(fallback)] ELSE told
      BY <2>1, <3>1
    <3>3. told = ModelSignalFromVerdict(verdict, fallback)
      BY <3>1
    <3>4. {IF signal.fallbackUsed THEN signal.fallback ELSE signal.action} \cap Actions =
               IF ~ (verdict.failed \/ verdict.fallbackUsed) THEN {verdict.action} \cap Actions
               ELSE IF fallback \in Actions THEN {fallback}
                    ELSE IF verdict.failed THEN {"block"} ELSE {}
      BY <3>2, <3>3, SignalAsks
    <3> QED
      BY <3>1, <3>4
  <2>4. {Model(signal)} \cap Actions = Asked(route, hasProvider, verdict)
    BY <1>1, <2>3 DEF Asked
  <2> QED
    BY <2>2, <2>4, EvaluatedStrictest
<1>2. CASE ~ (route.execution # "async_shadow" /\ hasProvider)
  <2>1. PICK signal : signal = Filled(NoSignal)
    OBVIOUS
  <2>2. EvaluateTraffic(s, req, match, route, hasProvider, verdict)
            = Evaluate(s, req, match, signal)
    BY <1>2, <2>1 DEF EvaluateTraffic, EvaluatePolicy
  <2>3. signal.action = "" /\ ~ signal.fallbackUsed
    BY <2>1 DEF NoSignal
  <2>4. {Model(signal)} \cap Actions = {} /\ Asked(route, hasProvider, verdict) = {}
    BY <1>2, <2>3, KnownAction DEF Asked
  <2> QED
    BY <2>2, <2>4, EvaluatedStrictest
<1> QED
  BY <1>1, <1>2

-----------------------------------------------------------------------------
(* The rules of a snapshot, told from the rows they are compiled from.    *)

\* A scope and a rule as the snapshot has them.
ServedScope(c, s) ==
    [route |-> NameIn(c.routes, s.route), provider |-> NameIn(c.providers, s.provider),
     model |-> s.model, direction |-> PolicyDirection(s.direction)]
ScopesOf(c, r) == {s \in c.ruleScopes : s.rule = r.id}
ServedScopes(c, r) ==
    IF ScopesOf(c, r) = {} THEN {NoScope} ELSE {ServedScope(c, s) : s \in ScopesOf(c, r)}
ServedRule(c, b, r, scope) ==
    [bundle |-> Name(b.id), action |-> r.action, scope |-> scope,
     detectors |-> {<<Name(b.id), d>> : d \in HydrateRuleDetectorKeys(c, r)}]

\* A bundle as it is loaded.
LoadedBundle(c, b) ==
    [key |-> Name(b.id), enabled |-> b.enabled, action |-> b.action,
     detectors |-> HydrateDetectors(c, b), rules |-> HydrateRules(c, b)]

\* A loaded rule is converted to one rule per scope.
LEMMA ConvertedRule ==
    ASSUME NEW c, NEW r
    PROVE  ConvertRule(c, HydratedRule(c, r)) =
               {[key |-> Name(r.id), enabled |-> r.enabled, action |-> r.action,
                 detectors |-> HydrateRuleDetectorKeys(c, r), scope |-> s] :
                   s \in ServedScopes(c, r)}
<1> DEFINE Loaded(s) == [route |-> s.route, provider |-> s.provider, model |-> s.model,
                         direction |-> PolicyDirection(s.direction)]
<1>1. HydrateRuleScopes(c, r) = {Loaded(s) : s \in ScopesOf(c, r)}
  BY DEF HydrateRuleScopes, ScopesOf
<1>2. HydrateRuleScopes(c, r) = {} <=> ScopesOf(c, r) = {}
  BY <1>1
<1>3. {ConvertScope(c, t) : t \in HydrateRuleScopes(c, r)} =
          {ServedScope(c, s) : s \in ScopesOf(c, r)}
  <2>1. \A s : ConvertScope(c, Loaded(s)) = ServedScope(c, s)
    BY DEF ConvertScope, ServedScope
  <2> HIDE DEF Loaded
  <2> QED
    BY <1>1, <2>1
<1> QED
  BY <1>2, <1>3 DEF ConvertRule, HydratedRule, ServedScopes

\* The compiled rules of a bundle are those of its enabled rules, one per scope.
LEMMA ServedBundle ==
    ASSUME NEW c, NEW b, NEW B, B = ConvertPolicyBundle(c, LoadedBundle(c, b))
    PROVE  /\ B.key = Name(b.id) /\ B.action = FirstNonEmpty(b.action, "allow")
           /\ \A q : q \in CompiledRules(B) <=>
                 \E r \in c.rules : /\ r.bundle = b.id /\ r.enabled
                                    /\ \E scope \in ServedScopes(c, r) :
                                          q = ServedRule(c, b, r, scope)
<1> DEFINE Own == {r \in c.rules : r.bundle = b.id}
           Split(r, s) == [key |-> Name(r.id), enabled |-> r.enabled, action |-> r.action,
                           detectors |-> HydrateRuleDetectorKeys(c, r), scope |-> s]
           Compiled(key, r) == [bundle |-> key, action |-> r.action, scope |-> r.scope,
                                detectors |-> {<<key, d>> : d \in r.detectors}]
<1>1. PICK loaded : loaded = LoadedBundle(c, b)
  OBVIOUS
<1>2. /\ loaded.key = Name(b.id) /\ loaded.action = b.action
      /\ loaded.rules = {HydratedRule(c, r) : r \in Own}
  BY <1>1 DEF LoadedBundle, HydrateRules, HydratedRule
<1>3. /\ B.key = Name(b.id) /\ B.action = FirstNonEmpty(b.action, "allow")
      /\ B.rules = UNION {ConvertRule(c, r) : r \in {s \in loaded.rules : s.enabled}}
  BY <1>1, <1>2 DEF ConvertPolicyBundle
<1>4. \A r : HydratedRule(c, r).enabled = r.enabled
  BY DEF HydratedRule
<1>5. \A p : p \in B.rules <=>
          \E r \in Own : r.enabled /\ p \in ConvertRule(c, HydratedRule(c, r))
  BY <1>2, <1>3, <1>4
<1>6. \A p : p \in B.rules <=>
          \E r \in Own : r.enabled /\ \E s \in ServedScopes(c, r) : p = Split(r, s)
  BY <1>5, ConvertedRule
<1>7. \A r, s : Split(r, s).enabled = r.enabled
  OBVIOUS
<1>8. CompiledRules(B) = {Compiled(B.key, p) : p \in {q \in B.rules : q.enabled}}
  BY DEF CompiledRules, ActiveRules
<1>9. \A r, s : Compiled(Name(b.id), Split(r, s)) = ServedRule(c, b, r, s)
  BY DEF ServedRule
<1> HIDE DEF Split, Compiled
<1>10. \A p : (p \in B.rules /\ p.enabled) <=>
           \E r \in Own : r.enabled /\ \E s \in ServedScopes(c, r) : p = Split(r, s)
  BY <1>6, <1>7
<1>11. ASSUME NEW q \in CompiledRules(B)
       PROVE  \E r \in Own : r.enabled /\ \E s \in ServedScopes(c, r) :
                                             q = ServedRule(c, b, r, s)
  <2>1. PICK p \in B.rules : p.enabled /\ q = Compiled(B.key, p)
    BY <1>8, <1>11
  <2>2. PICK r \in Own : r.enabled /\ \E s \in ServedScopes(c, r) : p = Split(r, s)
    BY <1>10, <2>1
  <2> QED
    BY <1>3, <1>9, <2>1, <2>2
<1>12. ASSUME NEW r \in Own, r.enabled, NEW s \in ServedScopes(c, r)
       PROVE  ServedRule(c, b, r, s) \in CompiledRules(B)
  <2>1. Split(r, s) \in B.rules /\ Split(r, s).enabled
    BY <1>10, <1>12
  <2>2. Compiled(B.key, Split(r, s)) \in CompiledRules(B)
    BY <1>8, <2>1
  <2> QED
    BY <1>3, <1>9, <2>2
<1> QED
  BY <1>3, <1>11, <1>12

\* The rules of the snapshot are those of the enabled rules of the active bundles.
ServesRules(snapshot, c) ==
    \A q : q \in snapshot.rules <=>
        \E b \in c.bundles, r \in c.rules :
           /\ b.enabled /\ r.bundle = b.id /\ r.enabled
           /\ \E scope \in ServedScopes(c, r) : q = ServedRule(c, b, r, scope)

\* The rules and the default of a snapshot, told from the rows.
LEMMA ServedRules ==
    ASSUME NEW c, NEW snapshot, snapshot = CompileSnapshot(ConvertPolicyBundles(c))
    PROVE  /\ snapshot.default =
                 Strictest({"allow"} \cup
                     {FirstNonEmpty(b.action, "allow") : b \in {a \in c.bundles : a.enabled}})
           /\ ServesRules(snapshot, c)
<1> DEFINE Active == {a \in c.bundles : a.enabled}
           Converted(b) == ConvertPolicyBundle(c, LoadedBundle(c, b))
<1>1. LoadBundles(c) = {LoadedBundle(c, b) : b \in c.bundles}
  BY DEF LoadBundles, LoadedBundle
<1>2. \A b : LoadedBundle(c, b).enabled = b.enabled
  BY DEF LoadedBundle
<1>3. ConvertPolicyBundles(c) = {Converted(b) : b \in Active}
  BY <1>1, <1>2 DEF ConvertPolicyBundles
<1>4. \A b : Converted(b).action = FirstNonEmpty(b.action, "allow")
  BY ServedBundle
<1>5. \A b, q : q \in CompiledRules(Converted(b)) <=>
          \E r \in c.rules : /\ r.bundle = b.id /\ r.enabled
                             /\ \E scope \in ServedScopes(c, r) : q = ServedRule(c, b, r, scope)
  BY ServedBundle
<1> HIDE DEF Converted
<1>6. {x.action : x \in ConvertPolicyBundles(c)}
          = {FirstNonEmpty(b.action, "allow") : b \in Active}
  BY <1>3, <1>4
<1>7. snapshot.default =
          Strictest({"allow"} \cup {FirstNonEmpty(b.action, "allow") : b \in Active})
  BY <1>6 DEF CompileSnapshot
<1>8. snapshot.rules = UNION {CompiledRules(x) : x \in ConvertPolicyBundles(c)}
  BY DEF CompileSnapshot
<1>9. \A q : q \in snapshot.rules <=> \E b \in Active : q \in CompiledRules(Converted(b))
  BY <1>3, <1>8
<1>10. ServesRules(snapshot, c)
  BY <1>5, <1>9 DEF ServesRules
<1> QED
  BY <1>7, <1>10

-----------------------------------------------------------------------------
(* The rules that are hit are those an operator expects to apply.         *)

\* The detectors of a served rule are those of its row.
LEMMA ServedDetectors ==
    ASSUME NEW rev, NEW c, Consistent(rev, c), NEW b \in c.bundles, NEW r \in c.rules,
           r.bundle = b.id, NEW scope
    PROVE  ServedRule(c, b, r, scope).detectors =
               {<<x.detector[2], x.detector[3]>> : x \in {y \in c.ruleDetectors : y.rule = r.id}}
<1> DEFINE Mine == {y \in c.ruleDetectors : y.rule = r.id}
<1>1. b.id \in Rows(rev) /\ \A x \in c.ruleDetectors : x.detector \in Items(rev)
  BY Columns DEF Consistent, BundleRows, RuleDetectorRows
<1>2. Name(b.id) = b.id[2] /\ \A x \in c.ruleDetectors : Name(x.detector) = x.detector[3]
  BY <1>1, RowID, ItemID
<1>3. b.id[2] = r.id[2]
  BY DEF Consistent, ForeignKeys
<1>4. \A x \in Mine : x.detector[2] = r.id[2]
  BY DEF Consistent, ForeignKeys
<1>5. \A x \in Mine : <<Name(b.id), Name(x.detector)>> = <<x.detector[2], x.detector[3]>>
  BY <1>2, <1>3, <1>4
<1>6. ServedRule(c, b, r, scope).detectors =
          {<<Name(b.id), Name(x.detector)>> : x \in Mine}
  BY DEF ServedRule, HydrateRuleDetectorKeys
<1> QED
  BY <1>5, <1>6

\* Where no two detectors share a cache key, each finds what it finds itself.
LEMMA FoundTheSame ==
    ASSUME NEW rev, NEW c, Consistent(rev, c), ToldApart(c),
           NEW snapshot, snapshot = CompileSnapshot(ConvertPolicyBundles(c)),
           NEW b \in c.bundles, NEW r \in c.rules, b.enabled, r.bundle = b.id, r.enabled,
           NEW scope \in ServedScopes(c, r), NEW match
    PROVE  MatchRule(snapshot, ServedRule(c, b, r, scope), match) = FoundBy(c, r, match)
<1> DEFINE Mine == {y \in c.ruleDetectors : y.rule = r.id}
           Pair(x) == <<x.detector[2], x.detector[3]>>
<1>0. ServesRules(snapshot, c)
  BY ServedRules
<1>1. PICK q : q = ServedRule(c, b, r, scope)
  OBVIOUS
<1>2. q \in snapshot.rules /\ q.detectors = {Pair(x) : x \in Mine}
  BY <1>0, <1>1, ServedDetectors DEF ServesRules
<1>3. \A p \in snapshot.rules : \A e \in p.detectors : \E y \in c.ruleDetectors : e = Pair(y)
  <2> TAKE p \in snapshot.rules
  <2>1. PICK a \in c.bundles, t \in c.rules :
            /\ a.enabled /\ t.bundle = a.id /\ t.enabled
            /\ \E s \in ServedScopes(c, t) : p = ServedRule(c, a, t, s)
    BY <1>0 DEF ServesRules
  <2>2. p.detectors = {Pair(x) : x \in {y \in c.ruleDetectors : y.rule = t.id}}
    BY <2>1, ServedDetectors
  <2> QED
    BY <2>2
<1>4. ASSUME NEW x \in Mine
      PROVE  Cached(snapshot, Pair(x), match) = FoundIn(match, Pair(x))
  <2>1. PICK d : d = Pair(x)
    OBVIOUS
  <2>2. PICK sharing : sharing = {e \in UNION {p.detectors : p \in snapshot.rules} :
                                     CacheKey(e[1], e[2]) = CacheKey(d[1], d[2])}
    OBVIOUS
  <2>3. d \in sharing
    BY <1>2, <2>1, <2>2
  <2>4. ASSUME NEW e \in sharing
        PROVE  e = d
    <3>1. PICK y \in c.ruleDetectors : e = Pair(y)
      BY <1>3, <2>2
    <3>2. CacheKey(y.detector[2], y.detector[3]) = CacheKey(x.detector[2], x.detector[3])
      BY <2>1, <2>2, <3>1
    <3>3. y.detector = x.detector
      BY <3>2 DEF ToldApart
    <3> QED
      BY <2>1, <3>1, <3>3
  <2>5. sharing = {d}
    BY <2>3, <2>4
  <2>6. (CHOOSE e \in sharing : TRUE) = d
    BY <2>5
  <2>7. Cached(snapshot, d, match) = FoundIn(match, CHOOSE e \in sharing : TRUE)
    BY <2>2, Zenon DEF Cached
  <2> QED
    BY <2>1, <2>6, <2>7
<1>5. MatchRule(snapshot, q, match) = UNION {Cached(snapshot, Pair(x), match) : x \in Mine}
  <2> HIDE DEF Pair, Mine
  <2>1. MatchRule(snapshot, q, match) = UNION {Cached(snapshot, d, match) : d \in q.detectors}
    BY Zenon DEF MatchRule
  <2>2. {Cached(snapshot, d, match) : d \in q.detectors} = {Cached(snapshot, Pair(x), match) : x \in Mine}
    BY <1>2
  <2> QED
    BY <2>1, <2>2
<1>6. FoundBy(c, r, match) = UNION {FoundIn(match, Pair(x)) : x \in Mine}
  BY DEF FoundBy
<1> HIDE DEF Pair, Mine
<1>7. UNION {Cached(snapshot, Pair(x), match) : x \in Mine}
          = UNION {FoundIn(match, Pair(x)) : x \in Mine}
  BY <1>4
<1> QED
  BY <1>1, <1>5, <1>6, <1>7

\* The index and matchesScope admit a scope.
Admits(scope, req) ==
    /\ scope.route \in ScopeValues(req.route) /\ scope.provider \in ScopeValues(req.provider)
    /\ scope.model \in ScopeValues(req.model) /\ scope.direction \in ScopeValues(req.direction)
    /\ MatchesScope(scope, req)

\* A scope whose references resolve admits the traffic it covers.
LEMMA ScopeServed ==
    ASSUME NEW rev, NEW c, Consistent(rev, c), Intact(c), ToldApart(c), NEW s \in c.ruleScopes,
           NEW req, req.direction \in {"input", "output"}
    PROVE  Admits(ServedScope(c, s), req) <=> ScopeCovers(c, s, req)
<1>1. PICK sc : sc = ServedScope(c, s)
  OBVIOUS
<1>2. /\ sc.route = NameIn(c.routes, s.route) /\ sc.provider = NameIn(c.providers, s.provider)
      /\ sc.model = s.model /\ sc.direction = PolicyDirection(s.direction)
  BY <1>1 DEF ServedScope
<1>3. c.routes \subseteq RouteRows(rev) /\ c.providers \subseteq ProviderRows(rev)
      /\ s \in RuleScopeRows(rev)
  BY Columns DEF Consistent
<1>4. IDsOf(c.routes) \subseteq Rows(rev) /\ IDsOf(c.providers) \subseteq Rows(rev)
  BY <1>3 DEF IDsOf, RouteRows, ProviderRows
<1>5. NoID \notin IDsOf(c.routes) /\ NoID \notin IDsOf(c.providers)
  BY <1>4, RowID
<1>6. /\ \A id \in IDsOf(c.routes) : Name(id) # ""
      /\ \A id \in IDsOf(c.providers) : Name(id) # ""
  BY DEF ToldApart, IDsOf
<1>7. s.route \in IDsOf(c.routes) \cup {NoID} /\ s.provider \in IDsOf(c.providers) \cup {NoID}
  BY DEF Intact
<1>8. /\ s.route = NoID => sc.route = ""
      /\ s.route # NoID => sc.route = Name(s.route) /\ Name(s.route) # ""
      /\ s.provider = NoID => sc.provider = ""
      /\ s.provider # NoID => sc.provider = Name(s.provider) /\ Name(s.provider) # ""
  BY <1>2, <1>5, <1>6, <1>7 DEF NameIn
<1>9. s.direction \in {"request", "response", "both"}
  BY <1>3 DEF RuleScopeRows
<1>10. /\ s.direction = "request" => sc.direction = "input"
       /\ s.direction = "response" => sc.direction = "output"
       /\ s.direction = "both" => sc.direction = ""
  BY <1>2, Zenon DEF PolicyDirection
<1>11. /\ req.direction = "input" => StorageDirection(req.direction) = "request"
       /\ req.direction = "output" => StorageDirection(req.direction) = "response"
  BY Zenon DEF StorageDirection
<1>12. Admits(sc, req) <=> /\ sc.route \in {req.route, ""} /\ sc.provider \in {req.provider, ""}
                           /\ sc.model \in {req.model, ""}
                           /\ sc.direction \in {req.direction, ""}
  BY DEF Admits, ScopeValues, MatchesScope
<1>13. sc.direction \in {req.direction, ""} <=>
           s.direction = "both" \/ s.direction = StorageDirection(req.direction)
  <2>1. CASE s.direction = "request"
    BY <1>10, <1>11, <2>1
  <2>2. CASE s.direction = "response"
    BY <1>10, <1>11, <2>2
  <2>3. CASE s.direction = "both"
    BY <1>10, <2>3
  <2> QED
    BY <1>9, <2>1, <2>2, <2>3
<1> QED
  BY <1>1, <1>2, <1>8, <1>12, <1>13 DEF ScopeCovers

\* A rule without a scope admits all traffic.
LEMMA NoScopeServed ==
    ASSUME NEW req
    PROVE  Admits(NoScope, req)
BY DEF Admits, NoScope, ScopeValues, MatchesScope

\* The rules that a snapshot of c hits ask for the actions of the rules that apply and
\* find what these do.
HitsAsExpected(snapshot, c, x) ==
    /\ {q.action : q \in RuleHits(snapshot, x.req, x.match)}
           = {r.action : r \in RulesThatApply(c, x)}
    /\ UNION {MatchRule(snapshot, q, x.match) : q \in RuleHits(snapshot, x.req, x.match)}
           = UNION {FoundBy(c, r, x.match) : r \in RulesThatApply(c, x)}

\* The actions and findings of the rules hit are those of the rules that apply.
LEMMA HitActions ==
    ASSUME NEW rev, NEW c, Consistent(rev, c), Intact(c), ToldApart(c),
           NEW snapshot, snapshot = CompileSnapshot(ConvertPolicyBundles(c)),
           NEW x, x.req.direction \in {"input", "output"}
    PROVE  HitsAsExpected(snapshot, c, x)
<1>0. ServesRules(snapshot, c)
  BY ServedRules
<1>1. \A q : q \in RuleHits(snapshot, x.req, x.match) <=>
          q \in snapshot.rules /\ Admits(q.scope, x.req) /\ MatchRule(snapshot, q, x.match) # {}
  BY DEF RuleHits, CandidateRules, Admits
<1>2. \A b, r, scope : /\ ServedRule(c, b, r, scope).scope = scope
                       /\ ServedRule(c, b, r, scope).action = r.action
  BY DEF ServedRule
<1>3. ASSUME NEW q \in RuleHits(snapshot, x.req, x.match)
      PROVE  \E r \in RulesThatApply(c, x) :
                 q.action = r.action /\ MatchRule(snapshot, q, x.match) = FoundBy(c, r, x.match)
  <2>1. q \in snapshot.rules /\ Admits(q.scope, x.req) /\ MatchRule(snapshot, q, x.match) # {}
    BY <1>1, <1>3
  <2>2. PICK b \in c.bundles, r \in c.rules :
            /\ b.enabled /\ r.bundle = b.id /\ r.enabled
            /\ \E scope \in ServedScopes(c, r) : q = ServedRule(c, b, r, scope)
    BY <1>0, <2>1 DEF ServesRules
  <2>3. PICK scope \in ServedScopes(c, r) : q = ServedRule(c, b, r, scope)
    BY <2>2
  <2>4. /\ MatchRule(snapshot, q, x.match) = FoundBy(c, r, x.match)
        /\ FoundBy(c, r, x.match) # {}
    BY <2>1, <2>2, <2>3, FoundTheSame
  <2>5. Admits(scope, x.req)
    BY <1>2, <2>1, <2>3
  <2>6. \/ \A s \in c.ruleScopes : s.rule # r.id
        \/ \E s \in c.ruleScopes : s.rule = r.id /\ ScopeCovers(c, s, x.req)
    <3>1. CASE ScopesOf(c, r) = {}
      BY <3>1 DEF ScopesOf
    <3>2. CASE ScopesOf(c, r) # {}
      <4>1. PICK s \in ScopesOf(c, r) : scope = ServedScope(c, s)
        BY <3>2 DEF ServedScopes
      <4>2. s \in c.ruleScopes /\ s.rule = r.id
        BY DEF ScopesOf
      <4>3. ScopeCovers(c, s, x.req)
        BY <2>5, <4>1, <4>2, ScopeServed
      <4> QED
        BY <4>2, <4>3
    <3> QED
      BY <3>1, <3>2
  <2>7. r \in RulesThatApply(c, x)
    BY <2>2, <2>4, <2>6 DEF RulesThatApply
  <2> QED
    BY <1>2, <2>3, <2>4, <2>7
<1>4. ASSUME NEW r \in RulesThatApply(c, x)
      PROVE  \E q \in RuleHits(snapshot, x.req, x.match) :
                 q.action = r.action /\ MatchRule(snapshot, q, x.match) = FoundBy(c, r, x.match)
  <2>1. /\ r \in c.rules /\ r.enabled /\ FoundBy(c, r, x.match) # {}
        /\ \E b \in c.bundles : b.id = r.bundle /\ b.enabled
        /\ \/ \A s \in c.ruleScopes : s.rule # r.id
           \/ \E s \in c.ruleScopes : s.rule = r.id /\ ScopeCovers(c, s, x.req)
    BY DEF RulesThatApply
  <2>2. PICK b \in c.bundles : b.id = r.bundle /\ b.enabled
    BY <2>1
  <2>3. PICK scope \in ServedScopes(c, r) : Admits(scope, x.req)
    <3>1. CASE \A s \in c.ruleScopes : s.rule # r.id
      <4>1. ServedScopes(c, r) = {NoScope}
        BY <3>1 DEF ServedScopes, ScopesOf
      <4> QED
        BY <4>1, NoScopeServed
    <3>2. ASSUME NEW s \in c.ruleScopes, s.rule = r.id, ScopeCovers(c, s, x.req)
          PROVE  \E scope \in ServedScopes(c, r) : Admits(scope, x.req)
      <4>1. s \in ScopesOf(c, r)
        BY <3>2 DEF ScopesOf
      <4>2. ServedScope(c, s) \in ServedScopes(c, r)
        BY <4>1 DEF ServedScopes
      <4>3. Admits(ServedScope(c, s), x.req)
        BY <3>2, ScopeServed
      <4> QED
        BY <4>2, <4>3
    <3> QED
      BY <2>1, <3>1, <3>2
  <2>4. PICK q : q = ServedRule(c, b, r, scope)
    OBVIOUS
  <2>5. q \in snapshot.rules
    BY <1>0, <2>1, <2>2, <2>3, <2>4 DEF ServesRules
  <2>6. /\ MatchRule(snapshot, q, x.match) = FoundBy(c, r, x.match)
        /\ MatchRule(snapshot, q, x.match) # {}
    BY <2>1, <2>2, <2>4, FoundTheSame
  <2>7. q \in RuleHits(snapshot, x.req, x.match)
    BY <1>1, <1>2, <2>3, <2>4, <2>5, <2>6
  <2> QED
    BY <1>2, <2>4, <2>6, <2>7
<1>5. {q.action : q \in RuleHits(snapshot, x.req, x.match)}
          = {r.action : r \in RulesThatApply(c, x)}
  BY <1>3, <1>4
<1>6. UNION {MatchRule(snapshot, q, x.match) : q \in RuleHits(snapshot, x.req, x.match)}
          = UNION {FoundBy(c, r, x.match) : r \in RulesThatApply(c, x)}
  BY <1>3, <1>4
<1> QED
  BY <1>5, <1>6 DEF HitsAsExpected

-----------------------------------------------------------------------------
(* The action of an exchange is the strictest that anything asks for.     *)

\* The served routes have different keys, as the stored ones have names.
LEMMA RoutesToldApart ==
    ASSUME NEW rev, NEW c, Consistent(rev, c), NEW clients,
           NEW config \in CompileGatewayRuntime(c, clients)
    PROVE  \A r, t \in config.routes : r.key = t.key => r = t
<1> DEFINE Converted(r) ==
               [key |-> Name(r.id), provider |-> r.provider, execution |-> r.execution,
                fallback |-> r.fallback, disabled |-> ~ r.enabled,
                models |-> IF RouteModel(c, r) = {}
                           THEN [requested |-> "", mapped |-> "", upstream |-> r.upstream]
                           ELSE LET m == CHOOSE m \in RouteModel(c, r) : TRUE
                                IN  [requested |-> m, mapped |-> m,
                                     upstream |-> FirstNonEmpty(m, r.upstream)]]
<1>1. ConvertRoutes(c) = {Converted(r) : r \in c.routes}
  BY Zenon DEF ConvertRoutes
<1>2. \A r : Converted(r).key = Name(r.id)
  OBVIOUS
<1> HIDE DEF Converted
<1>3. \A r, t \in c.routes : Name(r.id) = Name(t.id) => r = t
  <2> TAKE r, t \in c.routes
  <2> HAVE Name(r.id) = Name(t.id)
  <2>1. r.id \in Rows(rev) /\ t.id \in Rows(rev)
    BY Columns DEF Consistent, RouteRows
  <2>2. r.id = <<rev, Name(r.id)>> /\ t.id = <<rev, Name(t.id)>>
    BY <2>1, RowID
  <2> QED
    BY <2>2 DEF Consistent, UniqueNames, Unique
<1>4. \A r, t \in ConvertRoutes(c) : r.key = t.key => r = t
  BY <1>1, <1>2, <1>3
<1>5. PICK f \in BindingChoices(c) : config = BuildConfig(c, clients, f)
  BY CompiledFrom
<1>6. config.routes = {GatewayRoute(c, clients, f, r) : r \in {s \in ConvertRoutes(c) : ~ s.disabled}}
  BY <1>5 DEF BuildConfig
<1>7. \A r : GatewayRoute(c, clients, f, r).key = r.key
  BY DEF GatewayRoute
<1> QED
  BY <1>4, <1>6, <1>7

\* The gateway serves consistent revisions.
ServedInv == \A s \in served : \E rev : Consistent(rev, s.rows)

\* ServedInv is an invariant.
LEMMA ServedConsistent == Spec => []ServedInv
<1>1. Init => ServedInv
  BY DEF Init, ServedInv
<1>2. ServedInv /\ RowsInv /\ [Next]_vars => ServedInv'
  <2> SUFFICES ASSUME ServedInv, RowsInv, [Next]_vars PROVE ServedInv'
    OBVIOUS
  <2>1. CASE served' = served
    BY <2>1 DEF ServedInv
  <2>2. ASSUME NEW config \in CompileGatewayRuntime(active.rows, Clients),
               served' = {[rows |-> active.rows, config |-> config]}
        PROVE  ServedInv'
    <3>1. Consistent(active.rev, active.rows)
      BY DEF RowsInv
    <3>2. \A s \in served' : s.rows = active.rows
      BY <2>2
    <3> QED
      BY <3>1, <3>2 DEF ServedInv
  <2> QED
    BY <2>1, <2>2, NextServed
<1> QED
  BY <1>1, <1>2, RowsConsistent, PTL DEF Spec

\* x was decided by policy for a route of what is served.
Decided(s, x) ==
    \E route \in s.config.routes :
        /\ x.req.route = route.key /\ x.req.direction \in {"input", "output"}
        /\ x.action = EvaluateTraffic(s.config.snapshot, x.req, x.match, route,
                                      Provided(s, route), x.verdict).action
        /\ x.match \in Matches /\ x.verdict \in Verdicts
        /\ x.result = Enforce(x.action, TrafficSpans(s, route, x)).result
        /\ x.texts = Enforce(x.action, TrafficSpans(s, route, x)).texts
DecidedInv == \A s \in served, x \in exchange : Decided(s, x)

\* An evaluation decides by the one configuration that is served.
LEMMA EvaluationDecides ==
    ASSUME GatewayInv, EvaluateSome
    PROVE  DecidedInv'
<1>1. PICK s \in served : \E route \in s.config.routes, requested \in Models :
          \E model \in ResolveModel(route.models, requested),
             direction \in {"input", "output"}, match \in Matches, verdict \in Verdicts :
              EvaluateExchange(route, model, direction, match, verdict)
  BY Zenon DEF EvaluateSome
<1>2. PICK route \in s.config.routes : \E direction \in {"input", "output"} :
          \E match \in Matches, verdict \in Verdicts : \E model :
              EvaluateExchange(route, model, direction, match, verdict)
  BY <1>1
<1>3. PICK direction \in {"input", "output"} :
          \E match \in Matches, verdict \in Verdicts : \E model :
              EvaluateExchange(route, model, direction, match, verdict)
  BY <1>2
<1>4. PICK match \in Matches, verdict \in Verdicts : \E model :
          EvaluateExchange(route, model, direction, match, verdict)
  BY <1>3
<1>41. PICK model : EvaluateExchange(route, model, direction, match, verdict)
  BY <1>4
<1>5. PICK t \in served : \E x :
          /\ exchange' = {x}
          /\ x.req = [route |-> route.key, provider |-> route.provider, model |-> model,
                      direction |-> direction]
          /\ x.match = match /\ x.verdict = verdict
          /\ x.action = EvaluateTraffic(t.config.snapshot, x.req, match, route,
                                        Provided(t, route), verdict).action
          /\ x.result = Enforce(x.action, TrafficSpans(t, route, x)).result
          /\ x.texts = Enforce(x.action, TrafficSpans(t, route, x)).texts
  BY <1>41, Evaluated
<1>6. PICK x :
          /\ exchange' = {x}
          /\ x.req = [route |-> route.key, provider |-> route.provider, model |-> model,
                      direction |-> direction]
          /\ x.match = match /\ x.verdict = verdict
          /\ x.action = EvaluateTraffic(t.config.snapshot, x.req, match, route,
                                        Provided(t, route), verdict).action
          /\ x.result = Enforce(x.action, TrafficSpans(t, route, x)).result
          /\ x.texts = Enforce(x.action, TrafficSpans(t, route, x)).texts
  BY <1>5
<1>7. t = s /\ served' = served /\ \A u \in served : u = s
  BY EvaluationServes DEF GatewayInv
<1>8. x.req.route = route.key /\ x.req.direction \in {"input", "output"}
  BY <1>6
<1>9. x.action = EvaluateTraffic(s.config.snapshot, x.req, x.match, route,
                                 Provided(s, route), x.verdict).action
  BY <1>6, <1>7
<1>91. /\ x.match \in Matches /\ x.verdict \in Verdicts
       /\ x.result = Enforce(x.action, TrafficSpans(s, route, x)).result
       /\ x.texts = Enforce(x.action, TrafficSpans(s, route, x)).texts
  BY <1>6, <1>7
<1>10. Decided(s, x)
  BY <1>8, <1>9, <1>91, Zenon DEF Decided
<1> QED
  BY <1>6, <1>7, <1>10 DEF DecidedInv

\* DecidedInv is an invariant: whatever changes what is served ends the exchange.
LEMMA ExchangesDecided == Spec => []DecidedInv
<1>1. Init => DecidedInv
  BY DEF Init, DecidedInv
<1>2. DecidedInv /\ GatewayInv /\ [Next]_vars => DecidedInv'
  <2> SUFFICES ASSUME DecidedInv, GatewayInv, [Next]_vars PROVE DecidedInv'
    OBVIOUS
  <2>1. CASE exchange' = {}
    BY <2>1 DEF DecidedInv
  <2>2. CASE UNCHANGED vars
    BY <2>2 DEF DecidedInv, Decided, vars
  <2>3. CASE EvaluateSome
    BY <2>3, EvaluationDecides
  <2>4. ASSUME NEW d, NEW contents, WithDraftRevision(d, contents) PROVE exchange' = {}
    BY <2>4 DEF WithDraftRevision
  <2> QED
    BY <2>1, <2>2, <2>3, <2>4
    DEF Next, CreatePolicyBundle, PutModelMapping, PutVerdictProvider, PutRouteLimit,
        PutClientRouteLimit, DeleteClientRouteLimit, ActivatePolicyBundles, Reload,
        ExchangeEnds
<1> QED
  BY <1>1, <1>2, GatewayInvariant, PTL DEF Spec

\* What policy decides for an exchange is what its rows lead one to expect.
LEMMA DecidedAsExpected ==
    ASSUME NEW s, NEW x, NEW rev, Consistent(rev, s.rows),
           s.config \in CompileGatewayRuntime(s.rows, Clients),
           Decided(s, x), Intact(s.rows), ToldApart(s.rows)
    PROVE  x.action = ExpectedAction(s, x)
<1>1. PICK route \in s.config.routes :
          /\ x.req.route = route.key /\ x.req.direction \in {"input", "output"}
          /\ x.action = EvaluateTraffic(s.config.snapshot, x.req, x.match, route,
                                        Provided(s, route), x.verdict).action
  BY Zenon DEF Decided
<1>2. PICK asks : asks = Asked(route, Provided(s, route), x.verdict)
  OBVIOUS
<1>3. VerdictAsks(s, x) = asks
  <2>1. \A r \in s.config.routes : r.key = x.req.route => r = route
    BY <1>1, RoutesToldApart
  <2>2. (CHOOSE r \in s.config.routes : r.key = x.req.route) = route
    BY <1>1, <2>1
  <2> QED
    BY <1>2, <2>2 DEF VerdictAsks, Asked, Provided
<1>4. PICK c : c = s.rows
  OBVIOUS
<1>41. Consistent(rev, c) /\ c \in Contents(rev) /\ Intact(c) /\ ToldApart(c)
  BY <1>4 DEF Consistent
<1>5. PICK snapshot : snapshot = CompileSnapshot(ConvertPolicyBundles(c))
  OBVIOUS
<1>6. s.config.snapshot = snapshot /\ ValidSnapshot(snapshot)
  <2>1. s.config.snapshot = snapshot
    BY <1>4, <1>5, CompiledFrom DEF BuildConfig
  <2> QED
    BY <2>1, CompiledActions
<1>7. PICK hits : hits = {r.action : r \in RulesThatApply(c, x)}
  OBVIOUS
<1>8. {q.action : q \in RuleHits(snapshot, x.req, x.match)} = hits
  <2>1. x.req.direction \in {"input", "output"}
    BY <1>1
  <2>2. HitsAsExpected(snapshot, c, x)
    BY <1>41, <1>5, <2>1, HitActions
  <2> QED
    BY <1>7, <2>2 DEF HitsAsExpected
<1>9. x.action = Strictest({snapshot.default} \cup hits \cup asks)
  BY <1>1, <1>2, <1>6, <1>8, TrafficStrictest
<1>10. PICK defaults : defaults = {"allow"} \cup {b.action : b \in {a \in c.bundles : a.enabled}}
  OBVIOUS
<1>11. \A b \in c.bundles : b.action \in Actions /\ FirstNonEmpty(b.action, "allow") = b.action
  <2>1. c.bundles \subseteq BundleRows(rev)
    BY <1>41, Columns
  <2>2. \A b \in BundleRows(rev) : b.action \in Actions
    BY ActionsNamed DEF BundleRows
  <2>3. \A a \in Actions : FirstNonEmpty(a, "allow") = a
    BY KnownAction DEF FirstNonEmpty
  <2> QED
    BY <2>1, <2>2, <2>3
<1>12. snapshot.default = Strictest(defaults)
  <2>1. {FirstNonEmpty(b.action, "allow") : b \in {a \in c.bundles : a.enabled}}
            = {b.action : b \in {a \in c.bundles : a.enabled}}
    BY <1>11
  <2> QED
    BY <1>5, <1>10, <2>1, ServedRules
<1>13. defaults \subseteq Actions /\ defaults # {}
  BY <1>10, <1>11, ActionsNamed
<1>14. hits \subseteq Actions /\ asks \subseteq Actions
  <2>1. \A q \in RuleHits(snapshot, x.req, x.match) : q.action \in Actions
    BY <1>6 DEF ValidSnapshot, RuleHits, CandidateRules
  <2> QED
    BY <1>2, <1>8, <2>1, ActionsNamed DEF Asked
<1>15. Strictest({Strictest(defaults)} \cup (hits \cup asks)) = Strictest(defaults \cup (hits \cup asks))
  BY <1>13, <1>14, StrictestFirst
<1>16. {snapshot.default} \cup hits \cup asks = {Strictest(defaults)} \cup (hits \cup asks)
  BY <1>12
<1>17. defaults \cup (hits \cup asks) = defaults \cup hits \cup asks
  OBVIOUS
<1>18. x.action = Strictest(defaults \cup hits \cup asks)
  BY <1>9, <1>15, <1>16, <1>17
<1> QED
  BY <1>3, <1>4, <1>7, <1>10, <1>18 DEF ExpectedAction

\* End to end: the action of an exchange is the strictest that the active bundles'
\* defaults, their matching rules and the verdict ask for, whatever clones,
\* activations and failed verdicts came before (snapshot.go).
THEOREM DecisionStrictest == Spec => []DecisionIsStrictest
<1>1. ServedIsCompiled /\ ServedInv /\ DecidedInv => DecisionIsStrictest
  <2> SUFFICES ASSUME ServedIsCompiled, ServedInv, DecidedInv,
                      NEW s \in served, NEW x \in exchange,
                      Intact(s.rows), ToldApart(s.rows)
               PROVE  x.action = ExpectedAction(s, x)
    BY DEF DecisionIsStrictest
  <2>1. PICK rev : Consistent(rev, s.rows)
    BY DEF ServedInv
  <2> QED
    BY <2>1, DecidedAsExpected DEF ServedIsCompiled, DecidedInv
<1> QED
  BY <1>1, ServedCompiled, ServedConsistent, ExchangesDecided, PTL

\* Induction up to n over a set: the least number that is missing cannot be.
LEMMA UpTo ==
    ASSUME NEW n \in Nat, NEW S, 0 \in S, \A i \in 0..n : i \in S /\ i # n => i + 1 \in S
    PROVE  \A i \in 0..n : i \in S
<1> DEFINE Rest == {i \in 0..n : i \notin S}
           R == OpToRel(<, Nat)
<1>1. IsWellFoundedOn(R, Nat)
  BY NatLessThanWellFounded
<1>2. Rest \subseteq Nat
  OBVIOUS
<1>3. ASSUME Rest # {} PROVE FALSE
  <2>1. PICK m \in Rest : \A i \in Rest : ~ (<<i, m>> \in R)
    <3> HIDE DEF R, Rest
    <3> QED
      BY <1>1, <1>2, <1>3, WFMin
  <2>2. \A i \in Rest : ~ (i < m)
    <3> HIDE DEF Rest
    <3> QED
      BY <1>2, <2>1 DEF R, OpToRel
  <2> HIDE DEF R
  <2>3. m \in 0..n /\ m \notin S
    OBVIOUS
  <2>4. m - 1 \in 0..n /\ m - 1 < m /\ m - 1 # n
    BY <2>3
  <2>5. m - 1 \notin Rest
    BY <2>2, <2>4
  <2>6. (m - 1) + 1 \in S
    BY <2>4, <2>5
  <2> QED
    BY <2>3, <2>6
<1> QED
  BY <1>3

\* f[i] is what i steps make of base.
IsFold(f, base, step, n) ==
    f = [i \in 0..n |-> IF i = 0 THEN base ELSE step[<<f[i - 1], i>>]]

\* A step that stays in D can be repeated n times, and every result is in D.
LEMMA FoldExists ==
    ASSUME NEW n \in Nat, NEW D, NEW base \in D, NEW step \in [D \X (1..n) -> D]
    PROVE  \E f : IsFold(f, base, step, n) /\ f \in [0..n -> D]
<1> DEFINE S == {k \in 0..n : \E f : IsFold(f, base, step, k) /\ f \in [0..k -> D]}
<1>1. 0 \in S
  <2> DEFINE f == [i \in 0..0 |-> base]
  <2>1. f = [i \in 0..0 |-> IF i = 0 THEN base ELSE step[<<f[i - 1], i>>]]
    OBVIOUS
  <2>2. IsFold(f, base, step, 0) /\ f \in [0..0 -> D]
    BY <2>1 DEF IsFold
  <2> QED
    BY <2>2
<1>2. ASSUME NEW k \in 0..n, k \in S, k # n PROVE k + 1 \in S
  <2>1. PICK f : IsFold(f, base, step, k) /\ f \in [0..k -> D]
    BY <1>2
  <2>2. f = [i \in 0..k |-> IF i = 0 THEN base ELSE step[<<f[i - 1], i>>]]
    BY <2>1 DEF IsFold
  <2> DEFINE g == [i \in 0..(k + 1) |-> IF i = k + 1 THEN step[<<f[k], k + 1>>] ELSE f[i]]
  <2>3. step[<<f[k], k + 1>>] \in D
    BY <1>2, <2>1
  <2>4. g \in [0..(k + 1) -> D]
    BY <2>1, <2>3
  <2>5. ASSUME NEW i \in 0..(k + 1)
        PROVE  g[i] = IF i = 0 THEN base ELSE step[<<g[i - 1], i>>]
    <3>1. CASE i = k + 1
      <4>1. i - 1 = k /\ i # 0 /\ k \in 0..(k + 1) /\ k # k + 1
        BY <3>1
      <4>2. g[k] = f[k] /\ g[i] = step[<<f[k], k + 1>>]
        BY <3>1, <4>1
      <4> HIDE DEF g
      <4>3. g[i - 1] = f[k]
        BY <4>1, <4>2
      <4> QED
        BY <3>1, <4>1, <4>2, <4>3, Zenon
    <3>2. CASE i # k + 1 /\ i # 0
      <4>1. g[i] = f[i] /\ g[i - 1] = f[i - 1]
        BY <3>2
      <4> QED
        BY <2>2, <3>2, <4>1
    <3>3. CASE i = 0
      BY <2>2, <3>3
    <3> QED
      BY <3>1, <3>2, <3>3
  <2>6. IsFold(g, base, step, k + 1)
    <3>1. g = [i \in 0..(k + 1) |-> g[i]]
      OBVIOUS
    <3> HIDE DEF g
    <3> QED
      BY <2>5, <3>1 DEF IsFold
  <2> QED
    BY <1>2, <2>4, <2>6
<1> HIDE DEF S
<1>3. \A k \in 0..n : k \in S
  BY <1>1, <1>2, UpTo
<1> QED
  BY <1>3 DEF S

-----------------------------------------------------------------------------
(* A text without some of its bytes.                                      *)

\* f[i] is what is left of the first i bytes.
IsWithout(f, text, bytes) ==
    /\ f \in [0..Len(text) -> Seq(Int)] /\ f[0] = <<>>
    /\ \A i \in 1..Len(text) :
          f[i] = IF text[i] \in bytes THEN f[i - 1] ELSE Append(f[i - 1], text[i])

\* Without is such a function's last told.
LEMMA WithoutFold ==
    ASSUME NEW text \in Seq(Int), NEW bytes
    PROVE  \E f : IsWithout(f, text, bytes) /\ Without(text, bytes) = f[Len(text)]
<1> DEFINE Left(acc, i) == IF text[i] \in bytes THEN acc ELSE Append(acc, text[i])
           step == [p \in Seq(Int) \X (1..Len(text)) |-> Left(p[1], p[2])]
           Def(f) == f = [i \in 0..Len(text) |-> IF i = 0 THEN <<>> ELSE Left(f[i - 1], i)]
<1>1. Len(text) \in Nat /\ \A i \in 1..Len(text) : text[i] \in Int
  BY LenProperties, ElementOfSeq
<1>2. \A acc \in Seq(Int), i \in 1..Len(text) :
          Left(acc, i) \in Seq(Int) /\ step[<<acc, i>>] = Left(acc, i)
  <2> TAKE acc \in Seq(Int), i \in 1..Len(text)
  <2>1. Append(acc, text[i]) \in Seq(Int)
    BY <1>1, AppendProperties
  <2>2. <<acc, i>> \in Seq(Int) \X (1..Len(text))
    OBVIOUS
  <2>3. <<acc, i>>[1] = acc /\ <<acc, i>>[2] = i
    OBVIOUS
  <2> QED
    BY <2>1, <2>2, <2>3
<1>3. step \in [Seq(Int) \X (1..Len(text)) -> Seq(Int)]
  BY <1>2
<1> HIDE DEF Left, step
<1>4. <<>> \in Seq(Int)
  BY EmptySeq
<1>5. PICK f : IsFold(f, <<>>, step, Len(text)) /\ f \in [0..Len(text) -> Seq(Int)]
  BY <1>1, <1>3, <1>4, FoldExists
<1>6. f = [i \in 0..Len(text) |-> IF i = 0 THEN <<>> ELSE step[<<f[i - 1], i>>]]
  BY <1>5 DEF IsFold
<1>7. \A i \in 0..Len(text) : f[i] = IF i = 0 THEN <<>> ELSE Left(f[i - 1], i)
  <2> TAKE i \in 0..Len(text)
  <2>1. CASE i = 0
    BY <1>6, <2>1
  <2>2. CASE i # 0
    <3>1. i - 1 \in 0..Len(text) /\ i \in 1..Len(text)
      BY <1>1, <2>2
    <3>2. f[i - 1] \in Seq(Int)
      BY <1>5, <3>1
    <3> QED
      BY <1>2, <1>6, <2>2, <3>1, <3>2
  <2> QED
    BY <2>1, <2>2
<1>8. \E g : Def(g)
  <2>1. f = [i \in 0..Len(text) |-> f[i]]
    BY <1>6
  <2>2. f = [i \in 0..Len(text) |-> IF i = 0 THEN <<>> ELSE Left(f[i - 1], i)]
    BY <1>7, <2>1
  <2> QED
    BY <2>2
<1>9. PICK g : g = CHOOSE h : Def(h)
  OBVIOUS
<1>10. Def(g)
  BY <1>8, <1>9
<1>11. Without(text, bytes) = g[Len(text)]
  BY <1>9 DEF Without, Left
<1>12. /\ g[0] = <<>>
       /\ \A i \in 1..Len(text) : g[i] = Left(g[i - 1], i)
  <2>1. g = [i \in 0..Len(text) |-> IF i = 0 THEN <<>> ELSE Left(g[i - 1], i)]
    BY <1>10
  <2> HIDE DEF Def
  <2>2. \A i \in 0..Len(text) : g[i] = IF i = 0 THEN <<>> ELSE Left(g[i - 1], i)
    BY <2>1, Zenon
  <2>3. 0 \in 0..Len(text) /\ \A i \in 1..Len(text) : i \in 0..Len(text) /\ i # 0
    BY <1>1
  <2> QED
    BY <2>2, <2>3, Zenon
<1>13. \A i \in 0..Len(text) : g[i] \in Seq(Int)
  <2> DEFINE S == {i \in 0..Len(text) : g[i] \in Seq(Int)}
  <2>1. 0 \in S
    <3>1. 0 \in 0..Len(text)
      BY <1>1
    <3> QED
      BY <1>4, <1>12, <3>1, Zenon
  <2>2. ASSUME NEW i \in 0..Len(text), i \in S, i # Len(text) PROVE i + 1 \in S
    <3>1. i + 1 \in 1..Len(text) /\ i + 1 \in 0..Len(text) /\ (i + 1) - 1 = i
      BY <1>1, <2>2
    <3>2. g[i + 1] = Left(g[i], i + 1)
      BY <1>12, <3>1
    <3> QED
      BY <1>2, <2>2, <3>1, <3>2
  <2> HIDE DEF S
  <2>3. \A i \in 0..Len(text) : i \in S
    BY <1>1, <2>1, <2>2, UpTo
  <2> QED
    BY <2>3 DEF S
<1>14. g \in [0..Len(text) -> Seq(Int)]
  BY <1>10, <1>13
<1>15. IsWithout(g, text, bytes)
  BY <1>12, <1>14 DEF IsWithout, Left
<1> QED
  BY <1>11, <1>15

\* There is one such function.
LEMMA WithoutIs ==
    ASSUME NEW text \in Seq(Int), NEW bytes, NEW f, IsWithout(f, text, bytes)
    PROVE  Without(text, bytes) = f[Len(text)]
<1>1. PICK g : IsWithout(g, text, bytes) /\ Without(text, bytes) = g[Len(text)]
  BY WithoutFold
<1> DEFINE S == {i \in 0..Len(text) : f[i] = g[i]}
<1>2. Len(text) \in Nat
  BY LenProperties
<1>3. 0 \in S
  BY <1>1, <1>2 DEF IsWithout
<1>4. ASSUME NEW i \in 0..Len(text), i \in S, i # Len(text) PROVE i + 1 \in S
  <2>1. i + 1 \in 1..Len(text) /\ i + 1 \in 0..Len(text) /\ (i + 1) - 1 = i
    BY <1>2, <1>4
  <2> QED
    BY <1>1, <1>4, <2>1 DEF IsWithout
<1> HIDE DEF S
<1>5. \A i \in 0..Len(text) : i \in S
  BY <1>2, <1>3, <1>4, UpTo
<1>6. Len(text) \in S
  BY <1>2, <1>5
<1> QED
  BY <1>1, <1>6 DEF S

\* A byte is appended to the second of two texts.
LEMMA AppendConcat ==
    ASSUME NEW a \in Seq(Int), NEW b \in Seq(Int), NEW x \in Int
    PROVE  a \o Append(b, x) = Append(a \o b, x)
<1>1. PICK m \in Nat, n \in Nat : m = Len(a) /\ n = Len(b)
  BY LenProperties
<1>2. PICK c : c = Append(b, x)
  OBVIOUS
<1>3. c \in Seq(Int) /\ Len(c) = n + 1 /\ (\A i \in 1..n : c[i] = b[i]) /\ c[n + 1] = x
  BY <1>1, <1>2, AppendProperties
<1>4. PICK d : d = a \o b
  OBVIOUS
<1>5. /\ d \in Seq(Int) /\ Len(d) = m + n
      /\ \A i \in 1..m + n : d[i] = IF i <= m THEN a[i] ELSE b[i - m]
  BY <1>1, <1>4, ConcatProperties
<1>6. PICK l : l = a \o c
  OBVIOUS
<1>7. /\ l \in Seq(Int) /\ Len(l) = m + (n + 1)
      /\ \A i \in 1..m + (n + 1) : l[i] = IF i <= m THEN a[i] ELSE c[i - m]
  <2>1. /\ a \o c \in Seq(Int) /\ Len(a \o c) = Len(a) + Len(c)
        /\ \A i \in 1..Len(a) + Len(c) : (a \o c)[i] = IF i <= Len(a) THEN a[i]
                                                         ELSE c[i - Len(a)]
    BY <1>3, ConcatProperties
  <2>2. Len(a) = m /\ Len(c) = n + 1
    BY <1>1, <1>3
  <2> QED
    BY <1>6, <2>1, <2>2, Zenon
<1>8. PICK r : r = Append(d, x)
  OBVIOUS
<1>9. /\ r \in Seq(Int) /\ Len(r) = m + n + 1
      /\ (\A i \in 1..m + n : r[i] = d[i]) /\ r[m + n + 1] = x
  <2>1. /\ Append(d, x) \in Seq(Int) /\ Len(Append(d, x)) = Len(d) + 1
        /\ \A i \in 1..Len(d) : Append(d, x)[i] = d[i]
        /\ Append(d, x)[Len(d) + 1] = x
    <3>1. d \in Seq(Int)
      BY <1>5
    <3> QED
      BY <3>1, AppendProperties
  <2>2. Len(d) = m + n
    BY <1>5
  <2> QED
    BY <1>8, <2>1, <2>2, Zenon
<1>10. ASSUME NEW i \in 1..Len(l) PROVE l[i] = r[i]
  <2>1. i \in 1..m + (n + 1)
    BY <1>7
  <2>2. CASE i <= m
    <3>1. i \in 1..m + n
      BY <2>1, <2>2
    <3>2. l[i] = a[i] /\ r[i] = d[i] /\ d[i] = a[i]
      BY <1>5, <1>7, <1>9, <2>1, <2>2, <3>1
    <3> QED
      BY <3>2
  <2>3. CASE ~ (i <= m) /\ i # m + n + 1
    <3>1. i \in 1..m + n /\ i - m \in 1..n
      BY <2>1, <2>3
    <3> QED
      BY <1>3, <1>5, <1>7, <1>9, <2>1, <2>3, <3>1
  <2>4. CASE i = m + n + 1
    <3>1. i - m = n + 1 /\ ~ (i <= m)
      BY <2>4
    <3> QED
      BY <1>3, <1>7, <1>9, <2>1, <2>4, <3>1
  <2> QED
    BY <2>2, <2>3, <2>4
<1>11. Len(l) = Len(r)
  BY <1>7, <1>9
<1>12. l = r
  BY <1>7, <1>9, <1>10, <1>11, SeqEqual
<1> QED
  BY <1>2, <1>4, <1>6, <1>8, <1>12

\* What is left is a text, in each part for itself.
LEMMA WithoutText ==
    ASSUME NEW text \in Seq(Int), NEW bytes
    PROVE  Without(text, bytes) \in Seq(Int)
<1>1. PICK f : IsWithout(f, text, bytes) /\ Without(text, bytes) = f[Len(text)]
  BY WithoutFold
<1>2. Len(text) \in 0..Len(text)
  BY LenProperties
<1> QED
  BY <1>1, <1>2 DEF IsWithout

LEMMA WithoutConcat ==
    ASSUME NEW s \in Seq(Int), NEW t \in Seq(Int), NEW bytes
    PROVE  Without(s \o t, bytes) = Without(s, bytes) \o Without(t, bytes)
<1>1. PICK f : IsWithout(f, s, bytes) /\ Without(s, bytes) = f[Len(s)]
  BY WithoutFold
<1>2. PICK g : IsWithout(g, t, bytes) /\ Without(t, bytes) = g[Len(t)]
  BY WithoutFold
<1>3. Len(s) \in Nat /\ Len(t) \in Nat
  BY LenProperties
<1>4. PICK n \in Nat, m \in Nat : n = Len(s) /\ m = Len(t)
  BY <1>3
<1>5. PICK u : u = s \o t
  OBVIOUS
<1>6. /\ u \in Seq(Int) /\ Len(u) = n + m
      /\ \A i \in 1..n + m : u[i] = IF i <= n THEN s[i] ELSE t[i - n]
  BY <1>4, <1>5, ConcatProperties
<1>7. /\ f \in [0..n -> Seq(Int)] /\ f[0] = <<>>
      /\ \A i \in 1..n : f[i] = IF s[i] \in bytes THEN f[i - 1] ELSE Append(f[i - 1], s[i])
      /\ g \in [0..m -> Seq(Int)] /\ g[0] = <<>>
      /\ \A i \in 1..m : g[i] = IF t[i] \in bytes THEN g[i - 1] ELSE Append(g[i - 1], t[i])
  BY <1>1, <1>2, <1>4 DEF IsWithout
<1>8. PICK h : h = [i \in 0..(n + m) |-> IF i <= n THEN f[i] ELSE f[n] \o g[i - n]]
  OBVIOUS
<1>9. \A j \in 0..m : h[n + j] = f[n] \o g[j]
  <2> TAKE j \in 0..m
  <2>1. n + j \in 0..(n + m) /\ (n + j) - n = j /\ n \in 0..n
    OBVIOUS
  <2>2. CASE j = 0
    <3>1. h[n + j] = f[n] /\ f[n] \in Seq(Int) /\ g[j] = <<>>
      BY <1>7, <1>8, <2>1, <2>2
    <3> QED
      BY <3>1, ConcatEmptySeq
  <2>3. CASE j # 0
    <3>1. ~ (n + j <= n)
      BY <2>3
    <3> QED
      BY <1>8, <2>1, <3>1
  <2> QED
    BY <2>2, <2>3
<1>10. \A i \in 0..n : h[i] = f[i]
  BY <1>8
<1>11. IsWithout(h, u, bytes)
  <2>1. h \in [0..(n + m) -> Seq(Int)]
    <3>1. ASSUME NEW i \in 0..(n + m) PROVE h[i] \in Seq(Int)
      <4>1. CASE i <= n
        <5>1. i \in 0..n
          BY <4>1
        <5> QED
          BY <1>7, <1>10, <5>1
      <4>2. CASE ~ (i <= n)
        <5>1. i - n \in 0..m /\ n + (i - n) = i /\ n \in 0..n
          BY <4>2
        <5>2. h[i] = f[n] \o g[i - n]
          BY <1>9, <5>1
        <5>3. f[n] \in Seq(Int) /\ g[i - n] \in Seq(Int)
          BY <1>7, <5>1
        <5> QED
          BY <5>2, <5>3, ConcatProperties
      <4> QED
        BY <4>1, <4>2
    <3> QED
      BY <1>8, <3>1
  <2>2. h[0] = <<>>
    BY <1>7, <1>10
  <2>3. ASSUME NEW i \in 1..(n + m)
        PROVE  h[i] = IF u[i] \in bytes THEN h[i - 1] ELSE Append(h[i - 1], u[i])
    <3>1. CASE i <= n
      <4>1. i \in 1..n /\ i \in 0..n /\ i - 1 \in 0..n
        BY <3>1
      <4>2. u[i] = s[i] /\ h[i] = f[i] /\ h[i - 1] = f[i - 1]
        BY <1>6, <1>10, <3>1, <4>1
      <4> QED
        BY <1>7, <4>1, <4>2
    <3>2. CASE ~ (i <= n)
      <4>1. PICK j \in 1..m : i = n + j
        <5>1. i - n \in 1..m /\ i = n + (i - n)
          BY <3>2
        <5> QED
          BY <5>1
      <4>2. i - n = j /\ j \in 0..m /\ j - 1 \in 0..m /\ i - 1 = n + (j - 1) /\ n \in 0..n
        BY <4>1
      <4>3. u[i] = t[j] /\ h[i] = f[n] \o g[j] /\ h[i - 1] = f[n] \o g[j - 1]
        BY <1>6, <1>9, <3>2, <4>1, <4>2
      <4>4. f[n] \in Seq(Int) /\ g[j - 1] \in Seq(Int) /\ t[j] \in Int
        <5>1. t[j] \in Int
          BY <1>4, <4>1, ElementOfSeq
        <5> QED
          BY <1>7, <4>2, <5>1
      <4>5. f[n] \o Append(g[j - 1], t[j]) = Append(f[n] \o g[j - 1], t[j])
        BY <4>4, AppendConcat
      <4>6. g[j] = IF t[j] \in bytes THEN g[j - 1] ELSE Append(g[j - 1], t[j])
        BY <1>7, <4>1
      <4> QED
        BY <4>3, <4>5, <4>6
    <3> QED
      BY <3>1, <3>2
  <2> QED
    BY <1>6, <2>1, <2>2, <2>3 DEF IsWithout
<1>12. Without(u, bytes) = h[n + m]
  BY <1>6, <1>11, WithoutIs
<1>13. h[n + m] = f[n] \o g[m]
  <2>1. m \in 0..m
    OBVIOUS
  <2> QED
    BY <1>9, <2>1, Zenon
<1> QED
  BY <1>1, <1>2, <1>4, <1>5, <1>12, <1>13, Zenon

\* Nothing goes if no byte is to go, and everything if all are.
LEMMA WithoutNone ==
    ASSUME NEW text \in Seq(Int), NEW bytes, \A i \in 1..Len(text) : text[i] \notin bytes
    PROVE  Without(text, bytes) = text
<1>1. Len(text) \in Nat /\ \A i \in 1..Len(text) : text[i] \in Int
  BY LenProperties, ElementOfSeq
<1>2. PICK f : f = [i \in 0..Len(text) |-> SubSeq(text, 1, i)]
  OBVIOUS
<1>3. f \in [0..Len(text) -> Seq(Int)]
  <2>1. ASSUME NEW i \in 0..Len(text) PROVE SubSeq(text, 1, i) \in Seq(Int)
    <3>1. \A j \in 1..i : text[j] \in Int
      BY <1>1
    <3>2. i \in Int /\ 1 \in Int
      BY <1>1
    <3> QED
      BY <3>1, <3>2, SubSeqProperties
  <2> QED
    BY <1>2, <2>1
<1>4. f[0] = <<>>
  <2>1. f[0] = SubSeq(text, 1, 0)
    BY <1>1, <1>2
  <2> QED
    BY <2>1, SubSeqEmpty
<1>5. ASSUME NEW i \in 1..Len(text)
      PROVE  f[i] = Append(f[i - 1], text[i])
  <2>1. i \in 0..Len(text) /\ i - 1 \in 0..Len(text) /\ 1 \in 1..Len(text) /\ i \in 1..Len(text)
    BY <1>1
  <2>2. SubSeq(text, 1, i) = SubSeq(text, 1, i - 1) \o <<text[i]>>
    BY <2>1, SubSeqRecursiveSecond
  <2>3. f[i - 1] \in Seq(Int)
    BY <1>3, <2>1
  <2>4. Append(f[i - 1], text[i]) = f[i - 1] \o <<text[i]>>
    BY <1>1, <2>3, AppendIsConcat
  <2> QED
    BY <1>2, <2>1, <2>2, <2>4
<1>6. IsWithout(f, text, bytes)
  BY <1>3, <1>4, <1>5 DEF IsWithout
<1>7. f[Len(text)] = text
  <2>1. f[Len(text)] = SubSeq(text, 1, Len(text))
    BY <1>1, <1>2
  <2> QED
    BY <2>1, SubSeqFull
<1> QED
  BY <1>6, <1>7, WithoutIs

LEMMA WithoutAll ==
    ASSUME NEW text \in Seq(Int), NEW bytes, \A i \in 1..Len(text) : text[i] \in bytes
    PROVE  Without(text, bytes) = <<>>
<1>1. PICK f : f = [i \in 0..Len(text) |-> <<>>]
  OBVIOUS
<1>2. <<>> \in Seq(Int) /\ Len(text) \in Nat
  BY EmptySeq, LenProperties
<1>3. IsWithout(f, text, bytes)
  BY <1>1, <1>2 DEF IsWithout
<1> QED
  BY <1>1, <1>2, <1>3, WithoutIs

-----------------------------------------------------------------------------
(* The segments of a body.                                                *)

SegmentAt(start, length) ==
    [start |-> start, end |-> start + length, text |-> [i \in 1..length |-> start + i - 1]]
SegmentSet == {SegmentAt(start, length) : start \in Nat, length \in Nat}

\* A segment's text are the bytes from its start to its end.
LEMMA SegmentBytes ==
    ASSUME NEW seg \in SegmentSet
    PROVE  /\ seg.start \in Nat /\ seg.end \in Nat /\ seg.start <= seg.end
           /\ seg.text \in Seq(Int) /\ Len(seg.text) = seg.end - seg.start
           /\ \A i \in 1..Len(seg.text) : seg.text[i] = seg.start + i - 1
<1>1. PICK start \in Nat, length \in Nat : seg = SegmentAt(start, length)
  BY DEF SegmentSet
<1>2. PICK t : t = [i \in 1..length |-> start + i - 1]
  OBVIOUS
<1>3. seg.start = start /\ seg.end = start + length /\ seg.text = t
  BY <1>1, <1>2 DEF SegmentAt
<1>4. t \in [1..length -> Int]
  BY <1>2
<1>5. t \in Seq(Int) /\ Len(t) = length
  BY <1>4
<1> QED
  BY <1>2, <1>3, <1>5

\* A text that is added is a segment.
LEMMA SegmentAdded ==
    ASSUME NEW acc \in Seq(SegmentSet), NEW length \in Nat
    PROVE  AddSegment(acc, length) \in Seq(SegmentSet)
<1>1. CASE length = 0
  BY <1>1 DEF AddSegment
<1>2. CASE length # 0
  <2>1. PICK start : start = IF acc = <<>> THEN 0 ELSE acc[Len(acc)].end + 1
    OBVIOUS
  <2>2. start \in Nat
    <3>1. CASE acc = <<>>
      BY <2>1, <3>1
    <3>2. CASE acc # <<>>
      <4>1. Len(acc) \in 1..Len(acc)
        BY <3>2, EmptySeq
      <4>2. acc[Len(acc)] \in SegmentSet
        BY <4>1, ElementOfSeq
      <4>3. acc[Len(acc)].end \in Nat
        BY <4>2, SegmentBytes
      <4> QED
        BY <2>1, <3>2, <4>3
    <3> QED
      BY <3>1, <3>2
  <2>3. AddSegment(acc, length) = Append(acc, SegmentAt(start, length))
    BY <1>2, <2>1 DEF AddSegment, SegmentAt
  <2>4. SegmentAt(start, length) \in SegmentSet
    BY <2>2 DEF SegmentSet
  <2> QED
    BY <2>3, <2>4, AppendProperties
<1> QED
  BY <1>1, <1>2

\* So a body has segments.
LEMMA SegmentsTyped ==
    ASSUME NEW lengths \in Seq(Nat)
    PROVE  Segments(lengths) \in Seq(SegmentSet)
<1> DEFINE Def(f) == f = [i \in 0..Len(lengths) |->
                            IF i = 0 THEN <<>> ELSE AddSegment(f[i - 1], lengths[i])]
           step == [p \in Seq(SegmentSet) \X (1..Len(lengths)) |-> AddSegment(p[1], lengths[p[2]])]
<1>1. Len(lengths) \in Nat /\ \A i \in 1..Len(lengths) : lengths[i] \in Nat
  BY LenProperties, ElementOfSeq
<1>2. \A acc \in Seq(SegmentSet), i \in 1..Len(lengths) :
          /\ AddSegment(acc, lengths[i]) \in Seq(SegmentSet)
          /\ step[<<acc, i>>] = AddSegment(acc, lengths[i])
  BY <1>1, SegmentAdded
<1>3. step \in [Seq(SegmentSet) \X (1..Len(lengths)) -> Seq(SegmentSet)]
  BY <1>2
<1> HIDE DEF step
<1>4. <<>> \in Seq(SegmentSet)
  BY EmptySeq
<1>5. PICK f : IsFold(f, <<>>, step, Len(lengths)) /\ f \in [0..Len(lengths) -> Seq(SegmentSet)]
  BY <1>1, <1>3, <1>4, FoldExists
<1>6. f = [i \in 0..Len(lengths) |-> IF i = 0 THEN <<>> ELSE step[<<f[i - 1], i>>]]
  BY <1>5 DEF IsFold
<1>7. \A i \in 0..Len(lengths) : f[i] = IF i = 0 THEN <<>> ELSE AddSegment(f[i - 1], lengths[i])
  <2> TAKE i \in 0..Len(lengths)
  <2>1. CASE i = 0
    BY <1>6, <2>1
  <2>2. CASE i # 0
    <3>1. i - 1 \in 0..Len(lengths) /\ i \in 1..Len(lengths)
      BY <1>1, <2>2
    <3>2. f[i - 1] \in Seq(SegmentSet)
      BY <1>5, <3>1
    <3> QED
      BY <1>2, <1>6, <2>2, <3>1, <3>2
  <2> QED
    BY <2>1, <2>2
<1>8. \E g : Def(g)
  <2>1. f = [i \in 0..Len(lengths) |-> f[i]]
    BY <1>6
  <2>2. f = [i \in 0..Len(lengths) |-> IF i = 0 THEN <<>> ELSE AddSegment(f[i - 1], lengths[i])]
    BY <1>7, <2>1
  <2> QED
    BY <2>2
<1>9. PICK g : g = CHOOSE h : Def(h)
  OBVIOUS
<1>10. g = [i \in 0..Len(lengths) |-> IF i = 0 THEN <<>> ELSE AddSegment(g[i - 1], lengths[i])]
  BY <1>8, <1>9
<1>11. Segments(lengths) = g[Len(lengths)]
  BY <1>9 DEF Segments
<1>12. \A i \in 0..Len(lengths) : g[i] = IF i = 0 THEN <<>> ELSE AddSegment(g[i - 1], lengths[i])
  BY <1>10, Zenon
<1> DEFINE S == {i \in 0..Len(lengths) : g[i] \in Seq(SegmentSet)}
<1>13. 0 \in S
  <2>1. 0 \in 0..Len(lengths)
    BY <1>1
  <2>2. g[0] = <<>>
    BY <1>12, <2>1
  <2> QED
    BY <1>4, <2>1, <2>2, Zenon
<1>14. ASSUME NEW i \in 0..Len(lengths), i \in S, i # Len(lengths) PROVE i + 1 \in S
  <2>1. i + 1 \in 1..Len(lengths) /\ i + 1 \in 0..Len(lengths) /\ (i + 1) - 1 = i /\ i + 1 # 0
    BY <1>1, <1>14
  <2>2. g[i + 1] = AddSegment(g[i], lengths[i + 1])
    BY <1>12, <2>1
  <2> QED
    BY <1>2, <1>14, <2>1, <2>2
<1> HIDE DEF S
<1>15. \A i \in 0..Len(lengths) : i \in S
  BY <1>1, <1>13, <1>14, UpTo
<1>16. Len(lengths) \in S
  BY <1>1, <1>15
<1> QED
  BY <1>11, <1>16 DEF S

-----------------------------------------------------------------------------
(* Spans of a text are sorted and merged.                                 *)

\* The spans of a text of this length.
SpanSet(length) == {p \in (0..length) \X (0..length) : p[1] < p[2]}
Covers(p, b) == p[1] <= b /\ b < p[2]

\* A sequence of spans by start.
ByStart(s, spans) ==
    /\ s \in Surjection(1..Cardinality(spans), spans)
    /\ \A i, j \in DOMAIN s : i < j => s[i][1] <= s[j][1]

\* One of the spans starts last.
LEMMA StartsLast ==
    ASSUME NEW length \in Nat, NEW spans \in SUBSET SpanSet(length), spans # {}
    PROVE  \E p \in spans : \A q \in spans : q[1] <= p[1]
<1> DEFINE R == OpToRel(<, Nat)
           Left == {length - p[1] : p \in spans}
<1>1. IsWellFoundedOn(R, Nat)
  BY NatLessThanWellFounded
<1>2. \A p \in spans : p[1] \in 0..length
  BY DEF SpanSet
<1>3. Left \subseteq Nat /\ Left # {}
  BY <1>2
<1>4. PICK m \in Left : \A k \in Left : ~ (<<k, m>> \in R)
  <2> HIDE DEF R, Left
  <2> QED
    BY <1>1, <1>3, WFMin
<1>5. \A k \in Left : ~ (k < m)
  <2> HIDE DEF Left
  <2> QED
    BY <1>3, <1>4 DEF R, OpToRel
<1>6. PICK p \in spans : m = length - p[1]
  OBVIOUS
<1>7. ASSUME NEW q \in spans PROVE q[1] <= p[1]
  <2>1. ~ (length - q[1] < length - p[1])
    BY <1>5, <1>6
  <2> QED
    BY <1>2, <2>1
<1> QED
  BY <1>7

\* Finitely many spans can be sorted.
LEMMA SortExists ==
    ASSUME NEW length \in Nat, NEW spans \in SUBSET SpanSet(length)
    PROVE  IsFiniteSet(spans) /\ Cardinality(spans) \in Nat /\ \E s : ByStart(s, spans)
<1>1. IsFiniteSet(spans) /\ Cardinality(spans) \in Nat
  <2>1. IsFiniteSet(0..length)
    BY FS_Interval
  <2>2. IsFiniteSet((0..length) \X (0..length))
    BY <2>1, FS_Product
  <2>3. spans \in SUBSET ((0..length) \X (0..length))
    BY DEF SpanSet
  <2>4. IsFiniteSet(spans)
    BY <2>2, <2>3, FS_Subset
  <2> QED
    BY <2>4, FS_CardinalityType
<1>2. PICK n \in Nat : n = Cardinality(spans)
  BY <1>1
<1> DEFINE S == {k \in 0..n : \A W \in SUBSET spans : Cardinality(W) = k => \E s : ByStart(s, W)}
<1>3. \A W \in SUBSET spans : IsFiniteSet(W) /\ W \in SUBSET SpanSet(length)
  BY <1>1, FS_Subset
<1>4. 0 \in S
  <2>1. ASSUME NEW W \in SUBSET spans, Cardinality(W) = 0
        PROVE  \E s : ByStart(s, W)
    <3>1. W = {}
      BY <1>3, <2>1, FS_EmptySet
    <3>2. PICK s : s = [i \in 1..0 |-> i]
      OBVIOUS
    <3>3. s \in Surjection(1..Cardinality(W), W)
      BY <2>1, <3>1, <3>2 DEF Surjection
    <3>4. DOMAIN s = {}
      BY <3>2
    <3> QED
      BY <3>3, <3>4 DEF ByStart
  <2> QED
    BY <2>1
<1>5. ASSUME NEW k \in 0..n, k \in S, k # n PROVE k + 1 \in S
  <2>1. ASSUME NEW W \in SUBSET spans, Cardinality(W) = k + 1
        PROVE  \E s : ByStart(s, W)
    <3>1. IsFiniteSet(W) /\ W \in SUBSET SpanSet(length) /\ W # {}
      <4>1. Cardinality({}) = 0
        BY FS_EmptySet
      <4> QED
        BY <1>3, <2>1, <4>1
    <3>2. PICK p \in W : \A q \in W : q[1] <= p[1]
      BY <3>1, StartsLast
    <3>3. PICK rest : rest = W \ {p}
      OBVIOUS
    <3>4. Cardinality(rest) = k /\ rest \in SUBSET spans
      <4>1. Cardinality(W \ {p}) = Cardinality(W) - 1
        BY <3>1, <3>2, FS_RemoveElement
      <4> QED
        BY <2>1, <3>3, <4>1
    <3>5. PICK t : ByStart(t, rest)
      BY <1>5, <3>4
    <3>6. /\ t \in [1..k -> rest] /\ \A q \in rest : \E i \in 1..k : t[i] = q
          /\ \A i, j \in 1..k : i < j => t[i][1] <= t[j][1]
      BY <3>4, <3>5 DEF ByStart, Surjection
    <3>7. PICK s : s = [i \in 1..(k + 1) |-> IF i = k + 1 THEN p ELSE t[i]]
      OBVIOUS
    <3>8. (\A i \in 1..k : s[i] = t[i]) /\ s[k + 1] = p
      BY <3>7
    <3>9. s \in [1..(k + 1) -> W]
      <4>1. ASSUME NEW i \in 1..(k + 1) PROVE s[i] \in W
        <5>1. CASE i = k + 1
          BY <3>8, <5>1
        <5>2. CASE i # k + 1
          <6>1. i \in 1..k
            BY <5>2
          <6> QED
            BY <3>3, <3>6, <3>8, <6>1
        <5> QED
          BY <5>1, <5>2
      <4> QED
        BY <3>7, <4>1
    <3>10. ASSUME NEW q \in W PROVE \E i \in 1..(k + 1) : s[i] = q
      <4>1. CASE q = p
        <5>1. k + 1 \in 1..(k + 1)
          OBVIOUS
        <5> QED
          BY <3>8, <4>1, <5>1
      <4>2. CASE q # p
        <5>1. PICK i \in 1..k : t[i] = q
          BY <3>3, <3>6, <4>2
        <5>2. i \in 1..(k + 1) /\ s[i] = q
          BY <3>8, <5>1
        <5> QED
          BY <5>2
      <4> QED
        BY <4>1, <4>2
    <3>11. ASSUME NEW i \in 1..(k + 1), NEW j \in 1..(k + 1), i < j
           PROVE  s[i][1] <= s[j][1]
      <4>1. CASE j = k + 1
        <5>1. s[i] \in W
          BY <3>9
        <5> QED
          BY <3>2, <3>8, <4>1, <5>1
      <4>2. CASE j # k + 1
        <5>1. i \in 1..k /\ j \in 1..k
          BY <3>11, <4>2
        <5> QED
          BY <3>6, <3>8, <3>11, <5>1
      <4> QED
        BY <4>1, <4>2
    <3>12. s \in Surjection(1..Cardinality(W), W) /\ DOMAIN s = 1..(k + 1)
      BY <2>1, <3>9, <3>10 DEF Surjection
    <3> QED
      BY <3>11, <3>12 DEF ByStart
  <2> QED
    BY <1>5, <2>1
<1> HIDE DEF S
<1>6. n \in S
  BY <1>2, <1>4, <1>5, UpTo
<1> QED
  BY <1>1, <1>2, <1>6 DEF S

\* SortedByStart is a sequence of exactly these spans, by start.
LEMMA SpansSorted ==
    ASSUME NEW length \in Nat, NEW spans \in SUBSET SpanSet(length), NEW s,
           s = SortedByStart(spans)
    PROVE  /\ s \in Seq(SpanSet(length))
           /\ \A p \in spans : \E i \in 1..Len(s) : s[i] = p
           /\ \A i \in 1..Len(s) : s[i] \in spans
           /\ \A i, j \in 1..Len(s) : i < j => s[i][1] <= s[j][1]
<1>1. PICK n \in Nat : n = Cardinality(spans)
  BY SortExists
<1>2. \E t : ByStart(t, spans)
  BY SortExists
<1>3. \E t \in Surjection(1..Cardinality(spans), spans) :
          \A i, j \in DOMAIN t : i < j => t[i][1] <= t[j][1]
  BY <1>2 DEF ByStart
<1>4. ByStart(s, spans)
  BY <1>3, Zenon DEF ByStart, SortedByStart
<1>5. s \in [1..n -> spans] /\ (\A p \in spans : \E i \in 1..n : s[i] = p)
  BY <1>1, <1>4 DEF ByStart, Surjection
<1>6. s \in Seq(SpanSet(length)) /\ Len(s) = n
  <2>1. s \in [1..n -> SpanSet(length)]
    BY <1>5
  <2> QED
    BY <2>1
<1> QED
  BY <1>4, <1>5, <1>6 DEF ByStart

\* Merged spans: each ends before the next one starts.
Disjoint(m) == \A i \in 1..(Len(m) - 1) : m[i][2] < m[i + 1][1]
CoversAny(m, b) == \E i \in 1..Len(m) : Covers(m[i], b)

\* A span that starts no earlier than the last of them is added to what they cover.
LEMMA SpanMerged ==
    ASSUME NEW length \in Nat, NEW m \in Seq(SpanSet(length)), Disjoint(m),
           NEW p \in SpanSet(length), m # <<>> => m[Len(m)][1] <= p[1],
           NEW n, n = MergeSpan(m, p)
    PROVE  /\ n \in Seq(SpanSet(length)) /\ Disjoint(n)
           /\ n # <<>> /\ n[Len(n)][1] <= p[1]
           /\ \A b \in Int : CoversAny(n, b) <=> CoversAny(m, b) \/ Covers(p, b)
<1>1. PICK k \in Nat : k = Len(m)
  BY LenProperties
<1>2. \A i \in 1..k : m[i] \in SpanSet(length)
  BY <1>1, ElementOfSeq
<1>3. \A q \in SpanSet(length) :
          q[1] \in Nat /\ q[2] \in Nat /\ q[1] < q[2] /\ q[2] <= length /\ q = <<q[1], q[2]>>
  BY DEF SpanSet
<1>4. CASE m = <<>> \/ p[1] > m[Len(m)][2]
  <2>1. n = Append(m, p)
    BY <1>4 DEF MergeSpan
  <2>2. /\ n \in Seq(SpanSet(length)) /\ n # <<>> /\ Len(n) = k + 1
        /\ \A i \in 1..k : n[i] = m[i]
        /\ n[k + 1] = p
    BY <1>1, <2>1, AppendProperties
  <2>3. Disjoint(n)
    <3>1. ASSUME NEW i \in 1..(Len(n) - 1) PROVE n[i][2] < n[i + 1][1]
      <4>1. i \in 1..k
        BY <2>2, <3>1
      <4>2. CASE i = k
        <5>1. m # <<>>
          BY <1>1, <4>1, EmptySeq
        <5>2. p[1] > m[k][2] /\ n[i] = m[k] /\ n[i + 1] = p
          BY <1>1, <1>4, <2>2, <4>1, <4>2, <5>1
        <5>3. m[k] \in SpanSet(length)
          BY <1>2, <4>1, <4>2
        <5> QED
          BY <1>3, <5>2, <5>3
      <4>3. CASE i # k
        <5>1. i \in 1..(k - 1) /\ i + 1 \in 1..k
          BY <4>1, <4>3
        <5>2. n[i] = m[i] /\ n[i + 1] = m[i + 1]
          BY <2>2, <4>1, <5>1
        <5> QED
          BY <1>1, <5>1, <5>2 DEF Disjoint
      <4> QED
        BY <4>2, <4>3
    <3> QED
      BY <3>1 DEF Disjoint
  <2>4. ASSUME NEW b \in Int
        PROVE  CoversAny(n, b) <=> CoversAny(m, b) \/ Covers(p, b)
    <3>1. CoversAny(n, b) => CoversAny(m, b) \/ Covers(p, b)
      <4> SUFFICES ASSUME NEW i \in 1..Len(n), Covers(n[i], b)
                   PROVE  CoversAny(m, b) \/ Covers(p, b)
        BY DEF CoversAny
      <4>1. i \in 1..k \/ i = k + 1
        BY <2>2
      <4> QED
        BY <1>1, <2>2, <4>1 DEF CoversAny
    <3>2. CoversAny(m, b) => CoversAny(n, b)
      <4> SUFFICES ASSUME NEW i \in 1..Len(m), Covers(m[i], b)
                   PROVE  CoversAny(n, b)
        BY DEF CoversAny
      <4>1. i \in 1..k /\ i \in 1..Len(n)
        BY <1>1, <2>2
      <4> QED
        BY <2>2, <4>1 DEF CoversAny
    <3>3. Covers(p, b) => CoversAny(n, b)
      <4>1. k + 1 \in 1..Len(n)
        BY <2>2
      <4> QED
        BY <2>2, <4>1 DEF CoversAny
    <3> QED
      BY <3>1, <3>2, <3>3
  <2>5. n[Len(n)][1] <= p[1]
    BY <1>3, <2>2
  <2> QED
    BY <2>2, <2>3, <2>4, <2>5
<1>5. CASE ~ (m = <<>> \/ p[1] > m[Len(m)][2])
  <2>1. k \in 1..k /\ k # 0
    <3>1. Len(m) # 0
      BY <1>5, EmptySeq
    <3> QED
      BY <1>1, <3>1
  <2>2. PICK last \in SpanSet(length) : last = m[k]
    BY <1>2, <2>1
  <2>3. /\ last[1] \in Nat /\ last[2] \in Nat /\ p[1] \in Nat /\ p[2] \in Nat
        /\ last[1] <= p[1] /\ p[1] <= last[2] /\ p[1] < p[2] /\ last[1] < last[2]
        /\ p[2] <= length /\ last[2] <= length
    BY <1>1, <1>3, <1>5, <2>2
  <2>4. PICK q \in SpanSet(length) :
            /\ n = [m EXCEPT ![k] = q] /\ q[1] = last[1]
            /\ \A b \in Int : Covers(q, b) <=> Covers(last, b) \/ Covers(p, b)
    <3>1. CASE p[2] > last[2]
      <4>1. PICK q : q = <<last[1], p[2]>>
        OBVIOUS
      <4>2. q \in SpanSet(length) /\ q[1] = last[1] /\ q[2] = p[2]
        BY <2>3, <4>1 DEF SpanSet
      <4>3. n = [m EXCEPT ![k] = q]
        <5>1. n = [m EXCEPT ![k] = <<@[1], p[2]>>]
          BY <1>1, <1>5, <2>2, <3>1 DEF MergeSpan
        <5> QED
          BY <2>2, <4>1, <5>1
      <4>4. \A b \in Int : Covers(q, b) <=> Covers(last, b) \/ Covers(p, b)
        BY <2>3, <3>1, <4>2 DEF Covers
      <4> QED
        BY <4>2, <4>3, <4>4
    <3>2. CASE ~ (p[2] > last[2])
      <4>1. n = m
        BY <1>1, <1>5, <2>2, <3>2 DEF MergeSpan
      <4>2. m = [m EXCEPT ![k] = last]
        <5>1. m \in [1..k -> SpanSet(length)]
          BY <1>1, LenProperties
        <5> QED
          BY <2>1, <2>2, <5>1
      <4>3. \A b \in Int : Covers(last, b) <=> Covers(last, b) \/ Covers(p, b)
        BY <2>3, <3>2 DEF Covers
      <4> QED
        BY <4>1, <4>2, <4>3
    <3> QED
      BY <3>1, <3>2
  <2>5. /\ n \in Seq(SpanSet(length)) /\ Len(n) = k
        /\ \A i \in 1..k : n[i] = IF i = k THEN q ELSE m[i]
    BY <1>1, <2>1, <2>4, ExceptSeq
  <2>6. Disjoint(n)
    <3>1. ASSUME NEW i \in 1..(Len(n) - 1) PROVE n[i][2] < n[i + 1][1]
      <4>1. i \in 1..(k - 1) /\ i \in 1..k /\ i + 1 \in 1..k /\ i # k
        BY <2>5, <3>1
      <4>2. n[i] = m[i] /\ n[i + 1][1] = m[i + 1][1]
        BY <2>2, <2>4, <2>5, <4>1
      <4>3. m[i][2] < m[i + 1][1]
        BY <1>1, <4>1 DEF Disjoint
      <4> QED
        BY <4>2, <4>3
    <3> QED
      BY <3>1 DEF Disjoint
  <2>7. n # <<>> /\ n[Len(n)][1] <= p[1]
    <3>1. n # <<>>
      BY <2>1, <2>5, EmptySeq
    <3> QED
      BY <2>1, <2>3, <2>4, <2>5, <3>1
  <2>8. ASSUME NEW b \in Int
        PROVE  CoversAny(n, b) <=> CoversAny(m, b) \/ Covers(p, b)
    <3>1. CoversAny(n, b) => CoversAny(m, b) \/ Covers(p, b)
      <4> SUFFICES ASSUME NEW i \in 1..Len(n), Covers(n[i], b)
                   PROVE  CoversAny(m, b) \/ Covers(p, b)
        BY DEF CoversAny
      <4>1. i \in 1..k
        BY <2>5
      <4>2. CASE i = k
        <5>1. Covers(m[k], b) \/ Covers(p, b)
          BY <2>1, <2>2, <2>4, <2>5, <4>2
        <5> QED
          BY <1>1, <2>1, <5>1 DEF CoversAny
      <4>3. CASE i # k
        BY <1>1, <2>5, <4>1, <4>3 DEF CoversAny
      <4> QED
        BY <4>2, <4>3
    <3>2. CoversAny(m, b) => CoversAny(n, b)
      <4> SUFFICES ASSUME NEW i \in 1..Len(m), Covers(m[i], b)
                   PROVE  CoversAny(n, b)
        BY DEF CoversAny
      <4>1. i \in 1..k /\ i \in 1..Len(n)
        BY <1>1, <2>5
      <4>2. Covers(n[i], b)
        BY <2>2, <2>4, <2>5, <4>1
      <4> QED
        BY <4>1, <4>2 DEF CoversAny
    <3>3. Covers(p, b) => CoversAny(n, b)
      <4>1. k \in 1..Len(n) /\ n[k] = q
        BY <2>1, <2>5
      <4> QED
        BY <2>4, <4>1 DEF CoversAny
    <3> QED
      BY <3>1, <3>2, <3>3
  <2> QED
    BY <2>5, <2>6, <2>7, <2>8
<1> QED
  BY <1>4, <1>5

\* In whatever order they come, merged spans are spans.
LEMMA MergeTyped ==
    ASSUME NEW length \in Nat, NEW m \in Seq(SpanSet(length)), NEW p \in SpanSet(length)
    PROVE  MergeSpan(m, p) \in Seq(SpanSet(length))
<1>1. CASE m = <<>> \/ p[1] > m[Len(m)][2]
  BY <1>1, AppendProperties DEF MergeSpan
<1>2. CASE ~ (m = <<>> \/ p[1] > m[Len(m)][2]) /\ p[2] > m[Len(m)][2]
  <2>1. Len(m) \in 1..Len(m)
    BY <1>2, EmptySeq
  <2>2. m[Len(m)] \in SpanSet(length)
    BY <2>1, ElementOfSeq
  <2>3. PICK q : q = <<m[Len(m)][1], p[2]>>
    OBVIOUS
  <2>4. q \in SpanSet(length)
    BY <1>2, <2>2, <2>3 DEF SpanSet
  <2>5. MergeSpan(m, p) = [m EXCEPT ![Len(m)] = q]
    BY <1>2, <2>3 DEF MergeSpan
  <2> QED
    BY <2>1, <2>4, <2>5, ExceptSeq
<1>3. CASE ~ (m = <<>> \/ p[1] > m[Len(m)][2]) /\ ~ (p[2] > m[Len(m)][2])
  BY <1>3 DEF MergeSpan
<1> QED
  BY <1>1, <1>2, <1>3

\* Merging takes the sorted spans one by one.
LEMMA MergeFold ==
    ASSUME NEW length \in Nat, NEW spans \in SUBSET SpanSet(length), NEW s,
           s = SortedByStart(spans)
    PROVE  \E f : /\ f[0] = <<>> /\ \A i \in 1..Len(s) : f[i] = MergeSpan(f[i - 1], s[i])
                  /\ MergeSpans(spans) = f[Len(s)]
<1> DEFINE Def(f) == f = [i \in 0..Len(s) |->
                            IF i = 0 THEN <<>> ELSE MergeSpan(f[i - 1], s[i])]
           step == [p \in Seq(SpanSet(length)) \X (1..Len(s)) |-> MergeSpan(p[1], s[p[2]])]
<1>1. Len(s) \in Nat /\ \A i \in 1..Len(s) : s[i] \in SpanSet(length)
  <2>1. s \in Seq(SpanSet(length))
    BY SpansSorted
  <2> QED
    BY <2>1, LenProperties, ElementOfSeq
<1>2. \A acc \in Seq(SpanSet(length)), i \in 1..Len(s) :
          /\ MergeSpan(acc, s[i]) \in Seq(SpanSet(length))
          /\ step[<<acc, i>>] = MergeSpan(acc, s[i])
  BY <1>1, MergeTyped
<1>3. step \in [Seq(SpanSet(length)) \X (1..Len(s)) -> Seq(SpanSet(length))]
  BY <1>2
<1> HIDE DEF step
<1>4. <<>> \in Seq(SpanSet(length))
  BY EmptySeq
<1>5. PICK f : IsFold(f, <<>>, step, Len(s)) /\ f \in [0..Len(s) -> Seq(SpanSet(length))]
  BY <1>1, <1>3, <1>4, FoldExists
<1>6. f = [i \in 0..Len(s) |-> IF i = 0 THEN <<>> ELSE step[<<f[i - 1], i>>]]
  BY <1>5 DEF IsFold
<1>7. \A i \in 0..Len(s) : f[i] = IF i = 0 THEN <<>> ELSE MergeSpan(f[i - 1], s[i])
  <2> TAKE i \in 0..Len(s)
  <2>1. CASE i = 0
    BY <1>6, <2>1
  <2>2. CASE i # 0
    <3>1. i - 1 \in 0..Len(s) /\ i \in 1..Len(s)
      BY <1>1, <2>2
    <3>2. f[i - 1] \in Seq(SpanSet(length))
      BY <1>5, <3>1
    <3> QED
      BY <1>2, <1>6, <2>2, <3>1, <3>2
  <2> QED
    BY <2>1, <2>2
<1>8. \E g : Def(g)
  <2>1. f = [i \in 0..Len(s) |-> f[i]]
    BY <1>6
  <2>2. f = [i \in 0..Len(s) |-> IF i = 0 THEN <<>> ELSE MergeSpan(f[i - 1], s[i])]
    BY <1>7, <2>1
  <2> QED
    BY <2>2
<1>9. PICK g : g = CHOOSE h : Def(h)
  OBVIOUS
<1>10. g = [i \in 0..Len(s) |-> IF i = 0 THEN <<>> ELSE MergeSpan(g[i - 1], s[i])]
  BY <1>8, <1>9
<1>11. MergeSpans(spans) = g[Len(s)]
  BY <1>9 DEF MergeSpans
<1>12. \A i \in 0..Len(s) : g[i] = IF i = 0 THEN <<>> ELSE MergeSpan(g[i - 1], s[i])
  BY <1>10, Zenon
<1>13. 0 \in 0..Len(s) /\ \A i \in 1..Len(s) : i \in 0..Len(s) /\ i # 0
  BY <1>1
<1>14. g[0] = <<>> /\ \A i \in 1..Len(s) : g[i] = MergeSpan(g[i - 1], s[i])
  BY <1>12, <1>13, Zenon
<1> QED
  BY <1>11, <1>14

\* Merged spans are apart and cover what the spans do.
LEMMA SpansMerged ==
    ASSUME NEW length \in Nat, NEW spans \in SUBSET SpanSet(length), NEW m,
           m = MergeSpans(spans)
    PROVE  /\ m \in Seq(SpanSet(length)) /\ Disjoint(m)
           /\ \A b \in Int : CoversAny(m, b) <=> \E p \in spans : Covers(p, b)
<1>1. PICK s : s = SortedByStart(spans)
  OBVIOUS
<1>2. /\ s \in Seq(SpanSet(length))
      /\ \A p \in spans : \E i \in 1..Len(s) : s[i] = p
      /\ \A i \in 1..Len(s) : s[i] \in spans
      /\ \A i, j \in 1..Len(s) : i < j => s[i][1] <= s[j][1]
  BY <1>1, SpansSorted
<1>3. PICK n \in Nat : n = Len(s)
  BY <1>2, LenProperties
<1>4. PICK f : /\ f[0] = <<>> /\ \A i \in 1..n : f[i] = MergeSpan(f[i - 1], s[i])
               /\ MergeSpans(spans) = f[n]
  BY <1>1, <1>3, MergeFold
<1> DEFINE Merged(k) ==
              /\ f[k] \in Seq(SpanSet(length)) /\ Disjoint(f[k])
              /\ f[k] # <<>> => k # 0 /\ f[k][Len(f[k])][1] <= s[k][1]
              /\ \A b \in Int : CoversAny(f[k], b) <=> \E i \in 1..k : Covers(s[i], b)
           S == {k \in 0..n : Merged(k)}
<1>5. 0 \in S
  <2>1. <<>> \in Seq(SpanSet(length)) /\ Len(<<>>) = 0
    BY EmptySeq
  <2>2. Disjoint(<<>>)
    BY <2>1 DEF Disjoint
  <2>3. \A b \in Int : CoversAny(<<>>, b) <=> \E i \in 1..0 : Covers(s[i], b)
    BY <2>1 DEF CoversAny
  <2>4. Merged(0)
    BY <1>4, <2>1, <2>2, <2>3
  <2> QED
    BY <2>4
<1>6. ASSUME NEW k \in 0..n, k \in S, k # n PROVE k + 1 \in S
  <2>1. Merged(k)
    BY <1>6
  <2>2. k + 1 \in 1..n /\ k + 1 \in 0..n /\ (k + 1) - 1 = k
    BY <1>6
  <2>3. PICK a, c, p : a = f[k] /\ c = f[k + 1] /\ p = s[k + 1]
    OBVIOUS
  <2>4. c = MergeSpan(a, p)
    BY <1>4, <2>2, <2>3
  <2>5. p \in SpanSet(length)
    BY <1>2, <1>3, <2>2, <2>3, ElementOfSeq
  <2>6. a \in Seq(SpanSet(length)) /\ Disjoint(a)
    BY <2>1, <2>3
  <2>7. ASSUME a # <<>> PROVE a[Len(a)][1] <= p[1]
    <3>1. k \in 1..n /\ k < k + 1 /\ a[Len(a)][1] <= s[k][1]
      BY <1>6, <2>1, <2>3, <2>7
    <3>2. s[k][1] <= p[1]
      BY <1>2, <1>3, <2>2, <2>3, <3>1
    <3>3. a[Len(a)][1] \in Int /\ s[k][1] \in Int /\ p[1] \in Int
      <4>1. Len(a) \in 1..Len(a)
        BY <2>6, <2>7, EmptySeq
      <4>2. a[Len(a)] \in SpanSet(length) /\ s[k] \in SpanSet(length)
        BY <1>2, <1>3, <2>6, <3>1, <4>1, ElementOfSeq
      <4> QED
        BY <2>5, <4>2 DEF SpanSet
    <3> QED
      BY <3>1, <3>2, <3>3
  <2>8. /\ c \in Seq(SpanSet(length)) /\ Disjoint(c)
        /\ c # <<>> /\ c[Len(c)][1] <= p[1]
        /\ \A b \in Int : CoversAny(c, b) <=> CoversAny(a, b) \/ Covers(p, b)
    BY <2>4, <2>5, <2>6, <2>7, SpanMerged
  <2>9. ASSUME NEW b \in Int
        PROVE  CoversAny(c, b) <=> \E i \in 1..(k + 1) : Covers(s[i], b)
    <3>1. CoversAny(a, b) <=> \E i \in 1..k : Covers(s[i], b)
      BY <2>1, <2>3
    <3>2. \A i : i \in 1..(k + 1) <=> i \in 1..k \/ i = k + 1
      BY <1>6
    <3> QED
      BY <2>3, <2>8, <3>1, <3>2, Zenon
  <2>10. Merged(k + 1)
    <3>1. k + 1 # 0
      BY <1>6
    <3> QED
      BY <2>3, <2>8, <2>9, <3>1, Zenon
  <2> QED
    BY <2>2, <2>10
<1> HIDE DEF S, Merged
<1>7. n \in S
  BY <1>5, <1>6, UpTo
<1>8. Merged(n)
  BY <1>7 DEF S
<1>9. ASSUME NEW b \in Int
      PROVE  (\E i \in 1..n : Covers(s[i], b)) <=> \E p \in spans : Covers(p, b)
  BY <1>2, <1>3
<1> QED
  BY <1>4, <1>8, <1>9 DEF Merged

-----------------------------------------------------------------------------
(* A token replaces each merged span.                                     *)

\* Merged spans are in order and apart, not only next to each other.
LEMMA DisjointAll ==
    ASSUME NEW length \in Nat, NEW m \in Seq(SpanSet(length)), Disjoint(m)
    PROVE  \A i, j \in 1..Len(m) : i < j => m[i][2] < m[j][1]
<1>1. PICK n \in Nat : n = Len(m)
  BY LenProperties
<1>2. \A i \in 1..n : m[i][1] \in Nat /\ m[i][2] \in Nat /\ m[i][1] < m[i][2]
  <2> TAKE i \in 1..n
  <2>1. m[i] \in SpanSet(length)
    BY <1>1, ElementOfSeq
  <2> QED
    BY <2>1 DEF SpanSet
<1> DEFINE S == {j \in 0..n : \A i \in 1..n : i < j => m[i][2] < m[j][1]}
<1>3. 0 \in S
  OBVIOUS
<1>4. ASSUME NEW j \in 0..n, j \in S, j # n PROVE j + 1 \in S
  <2>1. j + 1 \in 0..n
    BY <1>4
  <2>2. ASSUME NEW i \in 1..n, i < j + 1 PROVE m[i][2] < m[j + 1][1]
    <3>1. j \in 1..n /\ j + 1 \in 1..n /\ j \in 1..(n - 1)
      BY <1>4, <2>1, <2>2
    <3>2. m[j][2] < m[j + 1][1]
      BY <1>1, <3>1 DEF Disjoint
    <3>3. CASE i = j
      BY <3>2, <3>3
    <3>4. CASE i # j
      <4>1. m[i][2] < m[j][1]
        BY <1>4, <2>2, <3>4
      <4> QED
        BY <1>2, <3>1, <3>2, <4>1
    <3> QED
      BY <3>3, <3>4
  <2> QED
    BY <2>1, <2>2
<1> HIDE DEF S
<1>5. \A j \in 0..n : j \in S
  BY <1>3, <1>4, UpTo
<1>6. \A j \in 1..n : j \in S
  BY <1>5
<1> QED
  BY <1>1, <1>6 DEF S

\* A part of a text.
LEMMA PartOfText ==
    ASSUME NEW text \in Seq(Int), NEW i \in 0..Len(text), NEW j \in 0..Len(text)
    PROVE  /\ SubSeq(text, i + 1, j) \in Seq(Int)
           /\ \A l \in 1..Len(SubSeq(text, i + 1, j)) :
                 i + l \in 1..Len(text) /\ i + l <= j /\ SubSeq(text, i + 1, j)[l] = text[i + l]
<1>1. PICK n \in Nat : n = Len(text)
  BY LenProperties
<1>2. \A l \in (i + 1)..j : text[l] \in Int
  <2> TAKE l \in (i + 1)..j
  <2>1. l \in 1..Len(text)
    BY <1>1
  <2> QED
    BY <2>1, ElementOfSeq
<1>3. i + 1 \in Int /\ j \in Int
  BY <1>1
<1>4. PICK t : t = SubSeq(text, i + 1, j)
  OBVIOUS
<1>5. /\ t \in Seq(Int) /\ Len(t) = IF i + 1 <= j THEN j - (i + 1) + 1 ELSE 0
      /\ \A l \in 1..(j - (i + 1) + 1) : t[l] = text[(i + 1) + l - 1]
  BY <1>2, <1>3, <1>4, SubSeqProperties
<1>6. ASSUME NEW l \in 1..Len(t)
      PROVE  i + l \in 1..Len(text) /\ i + l <= j /\ t[l] = text[i + l]
  <2>1. l \in 1..(j - (i + 1) + 1) /\ (i + 1) + l - 1 = i + l
    BY <1>1, <1>5
  <2> QED
    BY <1>1, <1>5, <2>1
<1> QED
  BY <1>4, <1>5, <1>6

Built(length) == [out : Seq(Int), offset : 0..length]

\* What is built from a text is text.
LEMMA ReplaceTyped ==
    ASSUME NEW text \in Seq(Int), NEW p \in SpanSet(Len(text)), NEW acc \in Built(Len(text))
    PROVE  ReplaceSpan(text, acc, p) \in Built(Len(text))
<1>1. acc.out \in Seq(Int) /\ acc.offset \in 0..Len(text)
  BY DEF Built
<1>2. p[1] \in 0..Len(text) /\ p[2] \in 0..Len(text)
  BY DEF SpanSet
<1>3. SubSeq(text, acc.offset + 1, p[1]) \in Seq(Int)
  BY <1>1, <1>2, PartOfText
<1>4. <<Token>> \in Seq(Int)
  BY DEF Token
<1>5. acc.out \o SubSeq(text, acc.offset + 1, p[1]) \in Seq(Int)
  BY <1>1, <1>3, ConcatProperties
<1>6. acc.out \o SubSeq(text, acc.offset + 1, p[1]) \o <<Token>> \in Seq(Int)
  BY <1>4, <1>5, ConcatProperties
<1> QED
  BY <1>2, <1>6 DEF ReplaceSpan, Built

\* Replacing takes the merged spans one by one.
LEMMA ReplaceFold ==
    ASSUME NEW text \in Seq(Int), NEW m \in Seq(SpanSet(Len(text)))
    PROVE  \E f : /\ f[0] = [out |-> <<>>, offset |-> 0]
                  /\ \A i \in 1..Len(m) : f[i] = ReplaceSpan(text, f[i - 1], m[i])
                  /\ \A i \in 0..Len(m) : f[i] \in Built(Len(text))
                  /\ Replace(text, m) =
                        f[Len(m)].out \o SubSeq(text, f[Len(m)].offset + 1, Len(text))
<1> DEFINE base == [out |-> <<>>, offset |-> 0]
           Def(f) == f = [i \in 0..Len(m) |->
                            IF i = 0 THEN [out |-> <<>>, offset |-> 0]
                            ELSE ReplaceSpan(text, f[i - 1], m[i])]
           D == Built(Len(text))
           step == [p \in D \X (1..Len(m)) |-> ReplaceSpan(text, p[1], m[p[2]])]
<1>1. Len(m) \in Nat /\ \A i \in 1..Len(m) : m[i] \in SpanSet(Len(text))
  BY LenProperties, ElementOfSeq
<1>2. \A acc \in D, i \in 1..Len(m) :
          /\ ReplaceSpan(text, acc, m[i]) \in D
          /\ step[<<acc, i>>] = ReplaceSpan(text, acc, m[i])
  BY <1>1, ReplaceTyped
<1>3. step \in [D \X (1..Len(m)) -> D]
  BY <1>2
<1> HIDE DEF step
<1>4. base \in D
  BY EmptySeq, LenProperties DEF Built
<1> HIDE DEF D
<1>5. PICK f : IsFold(f, base, step, Len(m)) /\ f \in [0..Len(m) -> D]
  BY <1>1, <1>3, <1>4, FoldExists
<1>6. f = [i \in 0..Len(m) |-> IF i = 0 THEN base ELSE step[<<f[i - 1], i>>]]
  BY <1>5 DEF IsFold
<1>7. \A i \in 0..Len(m) : f[i] = IF i = 0 THEN base ELSE ReplaceSpan(text, f[i - 1], m[i])
  <2> HIDE DEF base
  <2> TAKE i \in 0..Len(m)
  <2>1. CASE i = 0
    BY <1>6, <2>1
  <2>2. CASE i # 0
    <3>1. i - 1 \in 0..Len(m) /\ i \in 1..Len(m)
      BY <1>1, <2>2
    <3>2. f[i - 1] \in D
      BY <1>5, <3>1
    <3> QED
      BY <1>2, <1>6, <2>2, <3>1, <3>2
  <2> QED
    BY <2>1, <2>2
<1>8. \E g : Def(g)
  <2>1. f = [i \in 0..Len(m) |-> f[i]]
    BY <1>6
  <2>2. f = [i \in 0..Len(m) |-> IF i = 0 THEN base ELSE ReplaceSpan(text, f[i - 1], m[i])]
    <3> HIDE DEF base
    <3> QED
      BY <1>7, <2>1
  <2> QED
    BY <2>2
<1>9. PICK g : g = CHOOSE h : Def(h)
  OBVIOUS
<1>10. Def(g)
  BY <1>8, <1>9
<1>101. g = [i \in 0..Len(m) |-> IF i = 0 THEN base ELSE ReplaceSpan(text, g[i - 1], m[i])]
  BY <1>10
<1>11. Replace(text, m) = g[Len(m)].out \o SubSeq(text, g[Len(m)].offset + 1, Len(text))
  BY <1>9 DEF Replace
<1> HIDE DEF base, Def
<1>12. \A i \in 0..Len(m) : g[i] = IF i = 0 THEN base ELSE ReplaceSpan(text, g[i - 1], m[i])
  BY <1>101, Zenon
<1>13. 0 \in 0..Len(m) /\ \A i \in 1..Len(m) : i \in 0..Len(m) /\ i # 0
  BY <1>1
<1>14. g[0] = base /\ \A i \in 1..Len(m) : g[i] = ReplaceSpan(text, g[i - 1], m[i])
  BY <1>12, <1>13, Zenon
<1> DEFINE S == {i \in 0..Len(m) : g[i] \in D}
<1>15. 0 \in S
  BY <1>4, <1>13, <1>14, Zenon
<1>16. ASSUME NEW i \in 0..Len(m), i \in S, i # Len(m) PROVE i + 1 \in S
  <2>1. i + 1 \in 1..Len(m) /\ i + 1 \in 0..Len(m) /\ (i + 1) - 1 = i
    BY <1>1, <1>16
  <2>2. g[i + 1] = ReplaceSpan(text, g[i], m[i + 1])
    BY <1>14, <2>1
  <2> QED
    BY <1>2, <1>16, <2>1, <2>2
<1> HIDE DEF S
<1>17. \A i \in 0..Len(m) : i \in S
  BY <1>1, <1>15, <1>16, UpTo
<1>18. \A i \in 0..Len(m) : g[i] \in Built(Len(text))
  BY <1>17 DEF S, D
<1>19. g[0] = [out |-> <<>>, offset |-> 0]
  BY <1>14 DEF base
<1> QED
  BY <1>11, <1>14, <1>18, <1>19

\* A part that no span covers stays as it is.
LEMMA PartKept ==
    ASSUME NEW text \in Seq(Int), \A i \in 1..Len(text) : text[i] # Token,
           NEW bytes, NEW i \in 0..Len(text), NEW j \in 0..Len(text),
           \A l \in 1..Len(text) : i < l /\ l <= j => text[l] \notin bytes
    PROVE  Without(SubSeq(text, i + 1, j), {Token}) = Without(SubSeq(text, i + 1, j), bytes)
<1>1. PICK t : t = SubSeq(text, i + 1, j)
  OBVIOUS
<1>2. t \in Seq(Int) /\ Len(t) \in Nat
  BY <1>1, PartOfText, LenProperties
<1>3. \A l \in 1..Len(t) : t[l] \notin {Token} /\ t[l] \notin bytes
  <2> TAKE l \in 1..Len(t)
  <2>1. i + l \in 1..Len(text) /\ i + l <= j /\ t[l] = text[i + l]
    BY <1>1, PartOfText
  <2>2. i < i + l
    BY <1>2
  <2> QED
    BY <2>1, <2>2
<1>4. Without(t, {Token}) = t /\ Without(t, bytes) = t
  BY <1>2, <1>3, WithoutNone
<1> QED
  BY <1>1, <1>4

\* What is left of the replaced text without its tokens is the text without the bytes
\* that the spans cover.
LEMMA Replaced ==
    ASSUME NEW text \in Seq(Int), \A i \in 1..Len(text) : text[i] # Token,
           NEW m \in Seq(SpanSet(Len(text))), Disjoint(m), NEW bytes,
           \A i \in 1..Len(text) : text[i] \in bytes <=> CoversAny(m, i - 1)
    PROVE  Without(Replace(text, m), {Token}) = Without(text, bytes)
<1>1. PICK length \in Nat, n \in Nat : length = Len(text) /\ n = Len(m)
  BY LenProperties
<1>2. PICK f :
          /\ f[0] = [out |-> <<>>, offset |-> 0]
          /\ \A i \in 1..n : f[i] = ReplaceSpan(text, f[i - 1], m[i])
          /\ \A i \in 0..n : f[i] \in Built(length)
          /\ Replace(text, m) = f[n].out \o SubSeq(text, f[n].offset + 1, length)
  BY <1>1, ReplaceFold
<1>3. \A i \in 1..n : /\ m[i][1] \in 0..length /\ m[i][2] \in 0..length
                      /\ m[i][1] < m[i][2]
  <2> TAKE i \in 1..n
  <2>1. m[i] \in SpanSet(length)
    BY <1>1, ElementOfSeq
  <2> QED
    BY <2>1 DEF SpanSet
<1>4. \A i, j \in 1..n : i < j => m[i][2] < m[j][1]
  BY <1>1, DisjointAll
<1>5. \A i \in 0..n : f[i].offset = IF i = 0 THEN 0 ELSE m[i][2]
  <2> TAKE i \in 0..n
  <2>1. CASE i = 0
    BY <1>2, <2>1
  <2>2. CASE i # 0
    <3>1. i \in 1..n
      BY <2>2
    <3>2. f[i] = ReplaceSpan(text, f[i - 1], m[i])
      BY <1>2, <3>1
    <3>3. ReplaceSpan(text, f[i - 1], m[i]).offset = m[i][2]
      BY Zenon DEF ReplaceSpan
    <3> QED
      BY <2>2, <3>2, <3>3
  <2> QED
    BY <2>1, <2>2
<1> DEFINE S == {k \in 0..n : Without(f[k].out, {Token}) = Without(SubSeq(text, 1, f[k].offset), bytes)}
<1>6. 0 \in S
  <2>1. f[0].out = <<>> /\ f[0].offset = 0
    BY <1>2
  <2>2. SubSeq(text, 1, 0) = <<>>
    BY SubSeqEmpty
  <2>3. Without(<<>>, {Token}) = <<>> /\ Without(<<>>, bytes) = <<>>
    <3>1. <<>> \in Seq(Int) /\ Len(<<>>) = 0
      BY EmptySeq
    <3>2. \A i \in 1..Len(<<>>) : <<>>[i] \notin {Token} /\ <<>>[i] \notin bytes
      BY <3>1
    <3> QED
      BY <3>1, <3>2, WithoutNone
  <2>4. 0 \in 0..n
    OBVIOUS
  <2>5. Without(f[0].out, {Token}) = Without(SubSeq(text, 1, f[0].offset), bytes)
    BY <2>1, <2>2, <2>3, Zenon
  <2> QED
    BY <2>4, <2>5, Zenon
<1>7. ASSUME NEW k \in 0..n, k \in S, k # n PROVE k + 1 \in S
  <2>1. k + 1 \in 1..n /\ k + 1 \in 0..n /\ (k + 1) - 1 = k
    BY <1>7
  <2>2. PICK p, off : p = m[k + 1] /\ off = f[k].offset
    OBVIOUS
  <2>3. p[1] \in 0..length /\ p[2] \in 0..length /\ p[1] < p[2]
    BY <1>3, <2>1, <2>2
  <2>4. off \in 0..length /\ off <= p[1]
    <3>1. off \in 0..length
      BY <1>2, <2>2 DEF Built
    <3>2. CASE k = 0
      BY <1>5, <2>2, <2>3, <3>2
    <3>3. CASE k # 0
      <4>1. k \in 1..n /\ k < k + 1 /\ off = m[k][2]
        BY <1>5, <2>2, <3>3
      <4>2. m[k][2] < m[k + 1][1]
        BY <1>4, <2>1, <4>1
      <4> QED
        BY <2>2, <2>3, <3>1, <4>1, <4>2
    <3> QED
      BY <3>1, <3>2, <3>3
  <2>5. PICK before, kept, gone :
            /\ before = SubSeq(text, 1, off) /\ kept = SubSeq(text, off + 1, p[1])
            /\ gone = SubSeq(text, p[1] + 1, p[2])
    OBVIOUS
  <2>6. before \in Seq(Int) /\ kept \in Seq(Int) /\ gone \in Seq(Int)
    <3>1. 0 \in 0..Len(text) /\ 0 + 1 = 1
      BY <1>1
    <3>2. SubSeq(text, 0 + 1, off) \in Seq(Int)
      BY <1>1, <2>4, <3>1, PartOfText
    <3> QED
      BY <1>1, <2>3, <2>4, <2>5, <3>1, <3>2, PartOfText
  <2>7. SubSeq(text, 1, p[2]) = (before \o kept) \o gone
    <3>1. SubSeq(text, 1, p[1]) = before \o kept
      <4>1. 1 \in 1..Len(text) + 1 /\ off \in (1 - 1)..Len(text) /\ p[1] \in off..Len(text)
        BY <1>1, <2>3, <2>4
      <4> QED
        BY <2>5, <4>1, ConcatAdjacentSubSeq
    <3>2. SubSeq(text, 1, p[2]) = SubSeq(text, 1, p[1]) \o gone
      <4>1. /\ 1 \in 1..Len(text) + 1 /\ p[1] \in (1 - 1)..Len(text)
            /\ p[2] \in p[1]..Len(text)
        BY <1>1, <2>3
      <4> QED
        BY <2>5, <4>1, ConcatAdjacentSubSeq
    <3> QED
      BY <3>1, <3>2
  <2>8. Without(kept, {Token}) = Without(kept, bytes)
    <3>1. ASSUME NEW l \in 1..Len(text), off < l, l <= p[1]
          PROVE  text[l] \notin bytes
      <4>1. ASSUME NEW j \in 1..n, Covers(m[j], l - 1) PROVE FALSE
        <5>1. m[j][1] <= l - 1 /\ l - 1 < m[j][2]
          BY <4>1 DEF Covers
        <5>2. CASE j = k + 1
          <6>1. p[1] <= l - 1 /\ l \in Int /\ p[1] \in Int
            BY <1>1, <2>2, <2>3, <5>1, <5>2
          <6> QED
            BY <3>1, <6>1
        <5>3. CASE j > k + 1
          <6>1. p[2] < m[j][1]
            BY <1>4, <2>1, <2>2, <5>3
          <6>2. p[1] \in Int /\ p[2] \in Int /\ p[1] < p[2] /\ m[j][1] \in Int /\ l \in Int
            BY <1>1, <1>3, <2>3
          <6> QED
            BY <3>1, <5>1, <6>1, <6>2
        <5>4. CASE j = k
          <6>1. off = m[j][2]
            BY <1>5, <2>2, <5>4
          <6> QED
            BY <1>1, <1>3, <3>1, <5>1, <6>1
        <5>5. CASE j < k
          <6>1. k \in 1..n /\ off = m[k][2]
            BY <1>5, <2>2, <5>5
          <6>2. m[j][2] < m[k][1] /\ m[k][1] < m[k][2]
            BY <1>3, <1>4, <5>5, <6>1
          <6>3. m[j][2] \in Int /\ m[k][1] \in Int /\ m[k][2] \in Int /\ l \in Int
            BY <1>1, <1>3, <6>1
          <6> QED
            BY <3>1, <5>1, <6>1, <6>2, <6>3
        <5> QED
          BY <5>2, <5>3, <5>4, <5>5
      <4> QED
        BY <1>1, <4>1 DEF CoversAny
    <3> QED
      BY <1>1, <2>3, <2>4, <2>5, <3>1, PartKept
  <2>9. Without(gone, bytes) = <<>>
    <3>1. ASSUME NEW l \in 1..Len(gone) PROVE gone[l] \in bytes
      <4>1. p[1] + l \in 1..Len(text) /\ p[1] + l <= p[2] /\ gone[l] = text[p[1] + l]
        BY <1>1, <2>3, <2>5, PartOfText
      <4>2. Covers(p, (p[1] + l) - 1)
        <5>1. l \in Nat /\ l >= 1
          BY <2>6, LenProperties
        <5>2. p[1] <= (p[1] + l) - 1 /\ (p[1] + l) - 1 < p[2]
          <6>1. p[1] \in Int /\ p[2] \in Int /\ p[1] + l <= p[2]
            BY <2>3, <4>1
          <6> QED
            BY <5>1, <6>1
        <5> QED
          BY <5>2, Zenon DEF Covers
      <4>3. CoversAny(m, (p[1] + l) - 1)
        BY <1>1, <2>1, <2>2, <4>2 DEF CoversAny
      <4> QED
        BY <4>1, <4>3
    <3> QED
      BY <2>6, <3>1, WithoutAll
  <2>10. Without(SubSeq(text, 1, p[2]), bytes)
             = Without(before, bytes) \o Without(kept, bytes)
    <3>1. before \o kept \in Seq(Int)
      BY <2>6, ConcatProperties
    <3>2. Without((before \o kept) \o gone, bytes)
              = Without(before \o kept, bytes) \o Without(gone, bytes)
      BY <2>6, <3>1, WithoutConcat
    <3>3. Without(before \o kept, bytes) = Without(before, bytes) \o Without(kept, bytes)
      BY <2>6, WithoutConcat
    <3>4. Without(before \o kept, bytes) \o <<>> = Without(before \o kept, bytes)
      BY <3>1, WithoutText, ConcatEmptySeq
    <3> QED
      BY <2>7, <2>9, <3>2, <3>3, <3>4, Zenon
  <2>11. PICK out : out = f[k].out /\ out \in Seq(Int)
    BY <1>2 DEF Built
  <2>12. f[k + 1].out = out \o kept \o <<Token>> /\ f[k + 1].offset = p[2]
    <3>1. f[k + 1] = ReplaceSpan(text, f[k], p)
      BY <1>2, <2>1, <2>2
    <3>2. /\ ReplaceSpan(text, f[k], p).out =
                f[k].out \o SubSeq(text, f[k].offset + 1, p[1]) \o <<Token>>
          /\ ReplaceSpan(text, f[k], p).offset = p[2]
      BY Zenon DEF ReplaceSpan
    <3> QED
      BY <2>2, <2>5, <2>11, <3>1, <3>2, Zenon
  <2>13. Without(f[k + 1].out, {Token}) = Without(out, {Token}) \o Without(kept, {Token})
    <3>1. out \o kept \in Seq(Int) /\ <<Token>> \in Seq(Int) /\ Len(<<Token>>) = 1
      BY <2>6, <2>11, ConcatProperties DEF Token
    <3>2. Without((out \o kept) \o <<Token>>, {Token})
              = Without(out \o kept, {Token}) \o Without(<<Token>>, {Token})
      BY <3>1, WithoutConcat
    <3>3. Without(<<Token>>, {Token}) = <<>>
      <4>1. \A i \in 1..Len(<<Token>>) : <<Token>>[i] \in {Token}
        BY <3>1
      <4> QED
        BY <3>1, <4>1, WithoutAll
    <3>4. Without(out \o kept, {Token}) = Without(out, {Token}) \o Without(kept, {Token})
      BY <2>6, <2>11, WithoutConcat
    <3>5. Without(out \o kept, {Token}) \o <<>> = Without(out \o kept, {Token})
      BY <3>1, WithoutText, ConcatEmptySeq
    <3> QED
      BY <2>12, <3>2, <3>3, <3>4, <3>5, Zenon
  <2>14. Without(out, {Token}) = Without(before, bytes)
    BY <1>7, <2>2, <2>5, <2>11
  <2>15. Without(f[k + 1].out, {Token}) = Without(SubSeq(text, 1, f[k + 1].offset), bytes)
    BY <2>8, <2>10, <2>12, <2>13, <2>14, Zenon
  <2> QED
    BY <2>1, <2>15
<1> HIDE DEF S
<1>8. n \in S
  <2>1. \A k \in 0..n : k \in S
    BY <1>6, <1>7, UpTo
  <2>2. n \in 0..n
    OBVIOUS
  <2> QED
    BY <2>1, <2>2, Zenon
<1>9. PICK off, out, rest :
          off = f[n].offset /\ out = f[n].out /\ rest = SubSeq(text, off + 1, length)
  OBVIOUS
<1>10. Without(out, {Token}) = Without(SubSeq(text, 1, off), bytes)
  BY <1>8, <1>9 DEF S
<1>11. off \in 0..length /\ out \in Seq(Int)
  BY <1>2, <1>9 DEF Built
<1>12. rest \in Seq(Int) /\ SubSeq(text, 1, off) \in Seq(Int)
  <2>1. 0 \in 0..Len(text) /\ 0 + 1 = 1 /\ length \in 0..Len(text)
    BY <1>1
  <2>2. SubSeq(text, 0 + 1, off) \in Seq(Int)
    BY <1>1, <1>11, <2>1, PartOfText
  <2> QED
    BY <1>1, <1>9, <1>11, <2>1, <2>2, PartOfText
<1>13. text = SubSeq(text, 1, off) \o rest
  <2>1. 1 \in 1..Len(text) + 1 /\ off \in (1 - 1)..Len(text) /\ length \in off..Len(text)
    BY <1>1, <1>11
  <2>2. SubSeq(text, 1, off) \o rest = SubSeq(text, 1, length)
    BY <1>9, <2>1, ConcatAdjacentSubSeq
  <2> QED
    BY <1>1, <2>2, SubSeqFull
<1>14. Without(rest, {Token}) = Without(rest, bytes)
  <2>1. ASSUME NEW l \in 1..Len(text), off < l PROVE text[l] \notin bytes
    <3>1. ASSUME NEW j \in 1..n, Covers(m[j], l - 1) PROVE FALSE
      <4>1. n \in 1..n /\ off = m[n][2]
        BY <1>5, <1>9
      <4>2. m[j][2] <= m[n][2]
        <5>1. CASE j = n
          BY <1>3, <4>1, <5>1
        <5>2. CASE j # n
          <6>1. m[j][2] < m[n][1] /\ m[n][1] < m[n][2]
            <7>1. j < n
              BY <5>2
            <7> QED
              BY <1>3, <1>4, <4>1, <7>1
          <6>2. m[j][2] \in Int /\ m[n][1] \in Int /\ m[n][2] \in Int
            BY <1>3, <4>1
          <6> QED
            BY <6>1, <6>2
        <5> QED
          BY <5>1, <5>2
      <4>3. l - 1 < m[j][2]
        BY <3>1 DEF Covers
      <4> QED
        BY <1>1, <1>3, <2>1, <4>1, <4>2, <4>3
    <3> QED
      BY <1>1, <3>1 DEF CoversAny
  <2>2. length \in 0..Len(text)
    BY <1>1
  <2> QED
    BY <1>1, <1>9, <1>11, <2>1, <2>2, PartKept
<1>15. Without(out \o rest, {Token}) = Without(out, {Token}) \o Without(rest, {Token})
  BY <1>11, <1>12, WithoutConcat
<1>16. Without(SubSeq(text, 1, off) \o rest, bytes)
           = Without(SubSeq(text, 1, off), bytes) \o Without(rest, bytes)
  BY <1>12, WithoutConcat
<1>17. Replace(text, m) = out \o rest
  BY <1>2, <1>9
<1> QED
  BY <1>10, <1>13, <1>14, <1>15, <1>16, <1>17, Zenon

-----------------------------------------------------------------------------
(* A segment loses exactly the bytes that the spans of the body cover.    *)

\* The bytes that spans of the joined text point at.
BytesOf(spans) == UNION {p[1] .. (p[2] - 1) : p \in spans}

\* The spans of a segment cover, counted from its start, what the spans of the body do.
LEMMA SpansInSegment ==
    ASSUME NEW seg \in SegmentSet, NEW spans \in SUBSET (Int \X Int), NEW valid,
           valid = {s \in SpansForSegment(seg, spans) :
                       s[1] >= 0 /\ s[2] <= Len(seg.text) /\ s[1] < s[2]}
    PROVE  /\ valid \in SUBSET SpanSet(Len(seg.text))
           /\ \A i \in 1..Len(seg.text) :
                 seg.text[i] \in BytesOf(spans) <=> \E p \in valid : Covers(p, i - 1)
<1>1. PICK start \in Nat, end \in Nat : start = seg.start /\ end = seg.end /\ start <= end
  BY SegmentBytes
<1>2. PICK n \in Nat : n = Len(seg.text) /\ n = end - start
  BY <1>1, SegmentBytes
<1>3. \A i \in 1..n : seg.text[i] = start + i - 1
  BY <1>1, <1>2, SegmentBytes
<1> DEFINE Start(s) == IF s[1] > start THEN s[1] ELSE start
           End(s) == IF s[2] < end THEN s[2] ELSE end
           Local(s) == <<Start(s) - start, End(s) - start>>
<1>4. SpansForSegment(seg, spans) = {Local(s) : s \in {t \in spans : Start(t) < End(t)}}
  BY <1>1 DEF SpansForSegment
<1>5. \A s \in spans : s[1] \in Int /\ s[2] \in Int
  OBVIOUS
<1>6. \A s : Local(s)[1] = Start(s) - start /\ Local(s)[2] = End(s) - start
  OBVIOUS
<1>7. \A s \in spans : Start(s) \in Int /\ End(s) \in Int
  BY <1>5
<1>8. \A p \in valid : \E s \in spans : p = Local(s) /\ Start(s) < End(s)
  BY <1>4
<1>9. ASSUME NEW p \in valid PROVE p \in SpanSet(n)
  <2>1. PICK s \in spans : p = Local(s)
    BY <1>8
  <2>2. p = <<p[1], p[2]>> /\ p[1] \in Int /\ p[2] \in Int
    BY <1>6, <1>7, <2>1
  <2>3. p[1] >= 0 /\ p[2] <= n /\ p[1] < p[2]
    BY <1>2
  <2>4. p[1] \in 0..n /\ p[2] \in 0..n
    BY <2>2, <2>3
  <2> QED
    BY <2>2, <2>3, <2>4 DEF SpanSet
<1>10. ASSUME NEW i \in 1..n, NEW s \in spans, s[1] <= start + i - 1, start + i - 1 < s[2]
       PROVE  \E p \in valid : Covers(p, i - 1)
  <2>1. start <= start + i - 1 /\ start + i - 1 < end
    BY <1>2
  <2>2. Start(s) <= start + i - 1 /\ start + i - 1 < End(s) /\ Start(s) < End(s)
        /\ start <= Start(s) /\ End(s) <= end
    BY <1>5, <1>10, <2>1
  <2>3. PICK p : p = Local(s)
    OBVIOUS
  <2>4. p[1] = Start(s) - start /\ p[2] = End(s) - start
    BY <1>6, <2>3
  <2>5. p \in SpansForSegment(seg, spans)
    BY <1>4, <2>2, <2>3
  <2> HIDE DEF Start, End, Local
  <2>6. p[1] >= 0 /\ p[2] <= n /\ p[1] < p[2] /\ p[1] <= i - 1 /\ i - 1 < p[2]
    BY <1>2, <1>7, <2>2, <2>4
  <2>7. p \in valid
    BY <1>2, <2>5, <2>6
  <2> QED
    BY <2>6, <2>7 DEF Covers
<1>11. ASSUME NEW i \in 1..n, NEW p \in valid, Covers(p, i - 1)
       PROVE  \E s \in spans : s[1] <= start + i - 1 /\ start + i - 1 < s[2]
  <2>1. PICK s \in spans : p = Local(s)
    BY <1>8
  <2>2. Start(s) - start <= i - 1 /\ i - 1 < End(s) - start
    BY <1>6, <1>11, <2>1 DEF Covers
  <2>3. s[1] <= Start(s) /\ End(s) <= s[2]
    BY <1>5
  <2>4. s[1] \in Int /\ s[2] \in Int /\ Start(s) \in Int /\ End(s) \in Int
    BY <1>5, <1>7
  <2> HIDE DEF Start, End
  <2> QED
    BY <2>2, <2>3, <2>4
<1>12. ASSUME NEW i \in 1..n
       PROVE  seg.text[i] \in BytesOf(spans) <=>
                  \E s \in spans : s[1] <= start + i - 1 /\ start + i - 1 < s[2]
  <2>1. \A s \in spans : start + i - 1 \in s[1] .. (s[2] - 1) <=>
            s[1] <= start + i - 1 /\ start + i - 1 < s[2]
    BY <1>5
  <2>2. seg.text[i] = start + i - 1
    BY <1>3
  <2> QED
    BY <2>1, <2>2, Zenon DEF BytesOf
<1> QED
  BY <1>2, <1>9, <1>10, <1>11, <1>12

\* A text that RedactText returns has lost exactly those bytes.
LEMMA TextRedacted ==
    ASSUME NEW seg \in SegmentSet, NEW spans \in SUBSET (Int \X Int), NEW runes,
           NEW r, r = RedactText(seg, SpansForSegment(seg, spans), runes), ~ r.failed
    PROVE  Without(r.text, {Token}) = Without(seg.text, BytesOf(spans))
<1>1. PICK valid : valid = {s \in SpansForSegment(seg, spans) :
                               s[1] >= 0 /\ s[2] <= Len(seg.text) /\ s[1] < s[2]}
  OBVIOUS
<1>2. PICK m : m = MergeSpans(valid)
  OBVIOUS
<1>3. r.text = Replace(seg.text, m)
  <2>1. PICK ok : ok = \A s \in valid : \A i \in {1, 2} : ValidStringBoundary(seg, s[i], runes)
    OBVIOUS
  <2>2. r = IF ok THEN [failed |-> FALSE, text |-> Replace(seg.text, m), count |-> Len(m)]
            ELSE [failed |-> TRUE, text |-> seg.text, count |-> 0]
    BY <1>1, <1>2, <2>1, Zenon DEF RedactText
  <2>3. CASE ok
    BY <2>2, <2>3
  <2>4. CASE ~ ok
    BY <2>2, <2>4
  <2> QED
    BY <2>3, <2>4
<1>4. PICK text \in Seq(Int) : text = seg.text
  BY SegmentBytes
<1>5. valid \in SUBSET SpanSet(Len(text))
      /\ \A i \in 1..Len(text) :
            text[i] \in BytesOf(spans) <=> \E p \in valid : Covers(p, i - 1)
  BY <1>1, <1>4, SpansInSegment
<1>6. Len(text) \in Nat /\ \A i \in 1..Len(text) : text[i] # Token
  BY <1>4, SegmentBytes, LenProperties DEF Token
<1>7. /\ m \in Seq(SpanSet(Len(text))) /\ Disjoint(m)
      /\ \A b \in Int : CoversAny(m, b) <=> \E p \in valid : Covers(p, b)
  BY <1>2, <1>5, <1>6, SpansMerged
<1>8. \A i \in 1..Len(text) : text[i] \in BytesOf(spans) <=> CoversAny(m, i - 1)
  <2> TAKE i \in 1..Len(text)
  <2>1. i - 1 \in Int
    BY <1>6
  <2> QED
    BY <1>5, <1>7, <2>1
<1>9. PICK bytes : bytes = BytesOf(spans)
  OBVIOUS
<1>10. Without(Replace(text, m), {Token}) = Without(text, bytes)
  <2>1. \A i \in 1..Len(text) : text[i] \in bytes <=> CoversAny(m, i - 1)
    BY <1>8, <1>9
  <2>2. \A i \in 1..Len(text) : text[i] # Token
    BY <1>6
  <2>3. Disjoint(m) /\ m \in Seq(SpanSet(Len(text)))
    BY <1>7
  <2> QED
    BY <2>1, <2>2, <2>3, Replaced
<1> QED
  BY <1>3, <1>4, <1>9, <1>10

\* Where no segment failed, every text of a body has lost exactly the bytes that the
\* spans point at.
LEMMA BodyRedacted ==
    ASSUME NEW spans \in SUBSET (Int \X Int), NEW r, r = RedactSegments(Texts, spans, Runes),
           ~ r.failed
    PROVE  \A i \in DOMAIN Texts :
              Without(r.texts[i], {Token}) = Without(Originals[i], BytesOf(spans))
<1>1. PICK segments : segments = Texts
  OBVIOUS
<1>2. segments \in Seq(SegmentSet)
  BY <1>1, SegmentsTyped, TextAssumption DEF Texts
<1>3. PICK results : results = [i \in DOMAIN segments |->
          RedactText(segments[i], SpansForSegment(segments[i], spans), Runes)]
  OBVIOUS
<1>4. r = [failed   |-> \E i \in DOMAIN results : results[i].failed,
           replaced |-> \E i \in DOMAIN results : results[i].count > 0,
           texts    |-> [i \in DOMAIN results |-> results[i].text]]
  BY <1>1, <1>3, Zenon DEF RedactSegments
<1>5. DOMAIN results = DOMAIN segments
  BY <1>3
<1>6. r.failed = (\E i \in DOMAIN results : results[i].failed)
      /\ r.texts = [i \in DOMAIN results |-> results[i].text]
  BY <1>4
<1>61. \A i \in DOMAIN results : r.texts[i] = results[i].text
  BY <1>6
<1>7. ASSUME NEW i \in DOMAIN segments
      PROVE  Without(r.texts[i], {Token}) = Without(segments[i].text, BytesOf(spans))
  <2>1. PICK seg \in SegmentSet : seg = segments[i]
    BY <1>2
  <2>2. PICK t : t = results[i]
    OBVIOUS
  <2>3. t = RedactText(seg, SpansForSegment(seg, spans), Runes)
    BY <1>3, <2>1, <2>2
  <2>4. ~ t.failed
    BY <1>5, <1>6, <2>2
  <2>5. r.texts[i] = t.text
    BY <1>5, <1>61, <2>2
  <2>6. Without(t.text, {Token}) = Without(seg.text, BytesOf(spans))
    BY <2>3, <2>4, TextRedacted
  <2> QED
    BY <2>1, <2>5, <2>6
<1>8. \A i \in DOMAIN Texts : Originals[i] = Texts[i].text
  BY Zenon DEF Originals
<1> QED
  BY <1>1, <1>7, <1>8

\* A body passes as redacted only if no text failed.
LEMMA RedactionEnforced ==
    ASSUME NEW action, NEW spans, Enforce(action, spans).result = "redacted"
    PROVE  /\ Enforce(action, spans).texts = RedactSegments(Texts, spans, Runes).texts
           /\ ~ RedactSegments(Texts, spans, Runes).failed
<1>1. PICK r : r = RedactSegments(Texts, spans, Runes)
  OBVIOUS
<1>2. PICK e : e = Enforce(action, spans)
  OBVIOUS
<1>3. CASE action = "block"
  <2>1. e = [result |-> "blocked", texts |-> <<>>]
    BY <1>2, <1>3, Zenon DEF Enforce
  <2> QED
    BY <1>2, <2>1
<1>4. CASE action = "redact"
  <2>1. action # "block"
    BY <1>4
  <2>2. e = IF RedactionAllowed(r, Texts) THEN [result |-> "redacted", texts |-> r.texts]
            ELSE [result |-> "refused", texts |-> <<>>]
    BY <1>1, <1>2, <1>4, <2>1, Zenon DEF Enforce
  <2>3. RedactionAllowed(r, Texts)
    BY <1>2, <2>2
  <2> QED
    BY <1>1, <1>2, <2>2, <2>3 DEF RedactionAllowed
<1>5. CASE action # "block" /\ action # "redact"
  <2>1. e = [result |-> "passed", texts |-> Originals]
    BY <1>2, <1>5, Zenon DEF Enforce
  <2> QED
    BY <1>2, <2>1
<1> QED
  BY <1>3, <1>4, <1>5

\* What the rules that apply find, and what the verdict adds, are byte ranges.
LEMMA SpansTyped ==
    ASSUME NEW match \in Matches, NEW verdict \in Verdicts
    PROVE  /\ \A c, r : FoundBy(c, r, match) \in SUBSET (Int \X Int)
           /\ \A route, has : MatchedSpans(route, has, verdict) \in SUBSET (Int \X Int)
<1>1. \A d : FoundIn(match, d) \in SUBSET (Int \X Int)
  BY TextAssumption DEF FoundIn
<1>2. \A c, r : FoundBy(c, r, match) \in SUBSET (Int \X Int)
  BY <1>1 DEF FoundBy
<1>3. verdict.spans \in SUBSET (Int \X Int)
  BY TextAssumption
<1> QED
  BY <1>2, <1>3 DEF MatchedSpans

\* The findings of a traffic evaluation are those of the rules that are hit.
LEMMA TrafficFindings ==
    ASSUME NEW s, NEW req, NEW match, NEW route, NEW has, NEW verdict
    PROVE  EvaluateTraffic(s, req, match, route, has, verdict).findings
               = UNION {MatchRule(s, q, match) : q \in RuleHits(s, req, match)}
<1>1. PICK F : F = UNION {MatchRule(s, q, match) : q \in RuleHits(s, req, match)}
  OBVIOUS
<1>2. \A signal : \E a : Evaluate(s, req, match, signal) = [action |-> a, findings |-> F]
  BY <1>1, Zenon DEF Evaluate
<1>3. \E signal : EvaluateTraffic(s, req, match, route, has, verdict)
                    = Evaluate(s, req, match, signal)
  BY Zenon DEF EvaluateTraffic, EvaluatePolicy
<1>4. PICK a : EvaluateTraffic(s, req, match, route, has, verdict)
                   = [action |-> a, findings |-> F]
  BY <1>2, <1>3, Zenon
<1> QED
  BY <1>1, <1>4

\* The route of an exchange, and the byte ranges to redact that its rows lead one to
\* expect.
RouteServed(s, x) == CHOOSE r \in s.config.routes : r.key = x.req.route
SpansExpected(s, x) ==
    (UNION {FoundBy(s.rows, r, x.match) : r \in RulesThatApply(s.rows, x)})
        \cup MatchedSpans(RouteServed(s, x), Provided(s, RouteServed(s, x)), x.verdict)

\* The spans that are redacted are those.
LEMMA DecidedSpans ==
    ASSUME NEW s, NEW x, NEW rev, Consistent(rev, s.rows),
           s.config \in CompileGatewayRuntime(s.rows, Clients),
           Decided(s, x), Intact(s.rows), ToldApart(s.rows)
    PROVE  /\ SpansExpected(s, x) \in SUBSET (Int \X Int)
           /\ x.result = Enforce(x.action, SpansExpected(s, x)).result
           /\ x.texts = Enforce(x.action, SpansExpected(s, x)).texts
<1>1. PICK route \in s.config.routes :
          /\ x.req.route = route.key /\ x.req.direction \in {"input", "output"}
          /\ x.match \in Matches /\ x.verdict \in Verdicts
          /\ x.result = Enforce(x.action, TrafficSpans(s, route, x)).result
          /\ x.texts = Enforce(x.action, TrafficSpans(s, route, x)).texts
  BY Zenon DEF Decided
<1>2. RouteServed(s, x) = route
  <2>1. \A r \in s.config.routes : r.key = x.req.route => r = route
    BY <1>1, RoutesToldApart
  <2> QED
    BY <1>1, <2>1 DEF RouteServed
<1>3. PICK c : c = s.rows
  OBVIOUS
<1>4. PICK snapshot : snapshot = CompileSnapshot(ConvertPolicyBundles(c))
  OBVIOUS
<1>5. s.config.snapshot = snapshot
  BY <1>3, <1>4, CompiledFrom DEF BuildConfig
<1>6. HitsAsExpected(snapshot, c, x)
  <2>1. Consistent(rev, c) /\ Intact(c) /\ ToldApart(c)
    BY <1>3
  <2> QED
    BY <1>1, <1>4, <2>1, HitActions
<1>7. PICK found : found = UNION {FoundBy(c, r, x.match) : r \in RulesThatApply(c, x)}
  OBVIOUS
<1>8. PICK matched : matched = MatchedSpans(route, Provided(s, route), x.verdict)
  OBVIOUS
<1>9. SpansExpected(s, x) = found \cup matched
  BY <1>2, <1>3, <1>7, <1>8, Zenon DEF SpansExpected
<1>10. TrafficSpans(s, route, x) = found \cup matched
  <2>1. EvaluateTraffic(snapshot, x.req, x.match, route, Provided(s, route), x.verdict).findings
            = UNION {MatchRule(snapshot, q, x.match) : q \in RuleHits(snapshot, x.req, x.match)}
    BY TrafficFindings
  <2>2. UNION {MatchRule(snapshot, q, x.match) : q \in RuleHits(snapshot, x.req, x.match)} = found
    BY <1>6, <1>7, Zenon DEF HitsAsExpected
  <2> QED
    BY <1>5, <1>8, <2>1, <2>2 DEF TrafficSpans
<1>11. found \cup matched \in SUBSET (Int \X Int)
  <2>1. \A r : FoundBy(c, r, x.match) \in SUBSET (Int \X Int)
    BY <1>1, SpansTyped
  <2>2. matched \in SUBSET (Int \X Int)
    BY <1>1, <1>8, SpansTyped
  <2> QED
    BY <1>7, <2>1, <2>2
<1> QED
  BY <1>1, <1>9, <1>10, <1>11

\* Exactly the bytes that a matching rule or the verdict points at are gone from a
\* redacted body, in whichever of its texts they lie, for every body, every set of
\* findings and every configuration (redaction.go).
THEOREM RedactionExact == Spec => []RedactsExactly
<1>1. ServedIsCompiled /\ ServedInv /\ DecidedInv => RedactsExactly
  <2> SUFFICES ASSUME ServedIsCompiled, ServedInv, DecidedInv PROVE RedactsExactly
    OBVIOUS
  <2>1. ASSUME NEW s \in served, NEW x \in exchange,
               Intact(s.rows), ToldApart(s.rows), x.result = "redacted"
        PROVE  \A i \in DOMAIN Texts :
                  Without(x.texts[i], {Token}) = Without(Originals[i], BytesOf(SpansExpected(s, x)))
    <3>1. PICK rev : Consistent(rev, s.rows)
      BY DEF ServedInv
    <3>2. s.config \in CompileGatewayRuntime(s.rows, Clients) /\ Decided(s, x)
      BY DEF ServedIsCompiled, DecidedInv
    <3>3. PICK spans : spans = SpansExpected(s, x)
      OBVIOUS
    <3>4. /\ spans \in SUBSET (Int \X Int)
          /\ x.result = Enforce(x.action, spans).result
          /\ x.texts = Enforce(x.action, spans).texts
      BY <2>1, <3>1, <3>2, <3>3, DecidedSpans
    <3>5. Enforce(x.action, spans).result = "redacted"
      BY <2>1, <3>4
    <3>6. /\ x.texts = RedactSegments(Texts, spans, Runes).texts
          /\ ~ RedactSegments(Texts, spans, Runes).failed
      BY <3>4, <3>5, RedactionEnforced
    <3>7. PICK r : r = RedactSegments(Texts, spans, Runes)
      OBVIOUS
    <3>8. \A i \in DOMAIN Texts : Without(r.texts[i], {Token}) = Without(Originals[i], BytesOf(spans))
      <4>1. spans \in SUBSET (Int \X Int) /\ ~ r.failed
        BY <3>4, <3>6, <3>7
      <4> QED
        BY <3>7, <4>1, BodyRedacted
    <3> QED
      BY <3>3, <3>6, <3>7, <3>8
  <2> QED
    BY <2>1, Zenon DEF RedactsExactly, BytesOf, SpansExpected, RouteServed, Provided
<1> QED
  BY <1>1, ServedCompiled, ServedConsistent, ExchangesDecided, PTL

-----------------------------------------------------------------------------
(* The refinement of the in-memory repository.                            *)

\* A scope, a rule and a bundle of the rows as the in-memory repository has them.
MemoryScope(c, s) ==
    [route |-> NameIn(c.routes, s.route), provider |-> NameIn(c.providers, s.provider),
     model |-> s.model, direction |-> PolicyDirection(s.direction)]
MemoryScopes(c, rule) == {MemoryScope(c, s) : s \in {t \in c.ruleScopes : t.rule = rule}}
MemoryRule(c, r) ==
    [key |-> Name(r.id), enabled |-> r.enabled, action |-> r.action,
     detectors |-> HydrateRuleDetectorKeys(c, r), scopes |-> MemoryScopes(c, r.id)]
MemoryRules(c, bundle) == {MemoryRule(c, r) : r \in {s \in c.rules : s.bundle = bundle}}
MemoryDetectors(c, bundle) == {Name(d.id) : d \in {e \in c.detectors : e.bundle = bundle}}
MemoryBundle(c, b) ==
    [key |-> Name(b.id), action |-> b.action, detectors |-> MemoryDetectors(c, b.id),
     rules |-> MemoryRules(c, b.id)]

\* StoredBundles, one bundle per row.
LEMMA StoredTold ==
    ASSUME NEW c
    PROVE  StoredBundles(c) = {MemoryBundle(c, b) : b \in c.bundles}
<1> DEFINE Told(s) == ConvertScope(c, s)
           Rule(r) == [r EXCEPT !.scopes = {Told(s) : s \in r.scopes}]
           Bundle(b) == [key |-> b.key, action |-> b.action,
                         detectors |-> {d.key : d \in b.detectors},
                         rules |-> {Rule(r) : r \in b.rules}]
           Loaded(b) == [key |-> Name(b.id), enabled |-> b.enabled, action |-> b.action,
                         detectors |-> HydrateDetectors(c, b), rules |-> HydrateRules(c, b)]
<1>1. StoredBundles(c) = {Bundle(b) : b \in LoadBundles(c)}
  BY Zenon DEF StoredBundles
<1>2. LoadBundles(c) = {Loaded(b) : b \in c.bundles}
  BY Zenon DEF LoadBundles
<1>3. ASSUME NEW r
      PROVE  Rule(HydratedRule(c, r)) = MemoryRule(c, r)
  <2> DEFINE Row(s) == [route |-> s.route, provider |-> s.provider, model |-> s.model,
                        direction |-> PolicyDirection(s.direction)]
  <2>1. PICK S : S = {t \in c.ruleScopes : t.rule = r.id}
    OBVIOUS
  <2>2. HydrateRuleScopes(c, r) = {Row(s) : s \in S}
    BY <2>1, Zenon DEF HydrateRuleScopes
  <2>3. ASSUME NEW s
        PROVE  Told(Row(s)) = MemoryScope(c, s)
    <3>1. PICK direction : direction = PolicyDirection(s.direction)
      OBVIOUS
    <3>2. PICK x : x = [route |-> s.route, provider |-> s.provider, model |-> s.model,
                        direction |-> direction]
      OBVIOUS
    <3>3. /\ x.route = s.route /\ x.provider = s.provider
          /\ x.model = s.model /\ x.direction = direction
      BY <3>2
    <3>4. Told(x) = MemoryScope(c, s)
      BY <3>1, <3>3, Zenon DEF ConvertScope, MemoryScope
    <3>5. Row(s) = x
      BY <3>1, <3>2, Zenon
    <3> HIDE DEF Told, Row
    <3> QED
      BY <3>4, <3>5
  <2> HIDE DEF Told, Row
  <2>4. {Told(s) : s \in HydrateRuleScopes(c, r)} = {MemoryScope(c, s) : s \in S}
    BY <2>2, <2>3
  <2>5. {Told(s) : s \in HydrateRuleScopes(c, r)} = MemoryScopes(c, r.id)
    BY <2>1, <2>4, Zenon DEF MemoryScopes
  <2>6. PICK keys, scopes, old :
            /\ keys = HydrateRuleDetectorKeys(c, r) /\ scopes = MemoryScopes(c, r.id)
            /\ old = HydrateRuleScopes(c, r)
    OBVIOUS
  <2> QED
    BY <2>5, <2>6 DEF MemoryRule, HydratedRule
<1>4. ASSUME NEW b
      PROVE  Bundle(Loaded(b)) = MemoryBundle(c, b)
  <2>1. HydrateRules(c, b) = {HydratedRule(c, r) : r \in {s \in c.rules : s.bundle = b.id}}
    BY Zenon DEF HydrateRules, HydratedRule
  <2> HIDE DEF Rule
  <2>2. {Rule(r) : r \in HydrateRules(c, b)} = MemoryRules(c, b.id)
    BY <1>3, <2>1 DEF MemoryRules
  <2>3. {d.key : d \in HydrateDetectors(c, b)} = MemoryDetectors(c, b.id)
    <3>1. PICK D : D = {e \in c.detectors : e.bundle = b.id}
      OBVIOUS
    <3> DEFINE Row(d) == [key |-> Name(d.id), enabled |-> d.enabled]
    <3>2. HydrateDetectors(c, b) = {Row(d) : d \in D}
      BY <3>1, Zenon DEF HydrateDetectors
    <3>3. {d.key : d \in HydrateDetectors(c, b)} = {Name(d.id) : d \in D}
      <4>1. \A d : Row(d).key = Name(d.id)
        OBVIOUS
      <4> HIDE DEF Row
      <4> QED
        BY <3>2, <4>1
    <3> QED
      BY <3>1, <3>3, Zenon DEF MemoryDetectors
  <2> QED
    BY <2>2, <2>3 DEF MemoryBundle
<1> HIDE DEF Bundle, Loaded
<1> QED
  BY <1>1, <1>2, <1>4

\* The copy of a rule is the rule, to the in-memory repository.
LEMMA ClonedMemoryRule ==
    ASSUME NEW rev, NEW c, NEW d, NEW k, IsClone(c, k, rev, d), NEW r \in c.rules
    PROVE  MemoryRule(k, CopyRule(r, d)) = MemoryRule(c, r)
<1>1. /\ c.rules \subseteq RuleRows(rev) /\ c.ruleDetectors \subseteq RuleDetectorRows(rev)
      /\ c.ruleScopes \subseteq RuleScopeRows(rev)
      /\ c.routes \subseteq RouteRows(rev) /\ c.providers \subseteq ProviderRows(rev)
      /\ k.ruleDetectors = {CopyRuleDetector(x, d) : x \in c.ruleDetectors}
      /\ k.ruleScopes = {CopyRuleScope(x, d) : x \in c.ruleScopes}
      /\ \A x \in c.ruleScopes : /\ x.route \in Optional(IDsOf(c.routes))
                                 /\ x.provider \in Optional(IDsOf(c.providers))
  BY Columns, Cloned DEF IsClone, Resolves
<1>2. /\ CopyRule(r, d).id = Moved(r.id, d) /\ CopyRule(r, d).enabled = r.enabled
      /\ CopyRule(r, d).action = r.action /\ r.id \in Items(rev)
  BY <1>1 DEF RuleRows, CopyRule
<1>3. Name(CopyRule(r, d).id) = Name(r.id)
  BY <1>2, ItemID
<1>4. HydrateRuleDetectorKeys(k, CopyRule(r, d)) = HydrateRuleDetectorKeys(c, r)
  <2>1. \A x \in c.ruleDetectors :
            /\ x.rule \in Items(rev) /\ x.detector \in Items(rev)
            /\ CopyRuleDetector(x, d).rule = Moved(x.rule, d)
            /\ CopyRuleDetector(x, d).detector = Moved(x.detector, d)
    BY <1>1 DEF RuleDetectorRows, CopyRuleDetector
  <2>2. \A x \in c.ruleDetectors :
            /\ CopyRuleDetector(x, d).rule = CopyRule(r, d).id <=> x.rule = r.id
    BY <1>2, <2>1, MovedApart
  <2>3. \A x \in c.ruleDetectors : Name(CopyRuleDetector(x, d).detector) = Name(x.detector)
    BY <2>1, ItemID
  <2> QED
    BY <1>1, <2>2, <2>3 DEF HydrateRuleDetectorKeys
<1>5. ASSUME NEW x \in c.ruleScopes
      PROVE  /\ CopyRuleScope(x, d).rule = CopyRule(r, d).id <=> x.rule = r.id
             /\ MemoryScope(k, CopyRuleScope(x, d)) = MemoryScope(c, x)
  <2>1. /\ x.rule \in Items(rev)
        /\ CopyRuleScope(x, d).rule = Moved(x.rule, d)
        /\ CopyRuleScope(x, d).route = MovedRef(x.route, d)
        /\ CopyRuleScope(x, d).provider = MovedRef(x.provider, d)
        /\ CopyRuleScope(x, d).model = x.model
        /\ CopyRuleScope(x, d).direction = x.direction
    BY <1>1 DEF RuleScopeRows, CopyRuleScope
  <2>2. x.route \in Optional(IDsOf(c.routes)) /\ x.provider \in Optional(IDsOf(c.providers))
    BY <1>1
  <2>3. /\ NameIn(k.routes, MovedRef(x.route, d)) = NameIn(c.routes, x.route)
        /\ NameIn(k.providers, MovedRef(x.provider, d)) = NameIn(c.providers, x.provider)
    BY <2>2, ClonedNames
  <2>4. CopyRuleScope(x, d).rule = CopyRule(r, d).id <=> x.rule = r.id
    BY <1>2, <2>1, MovedApart
  <2> QED
    BY <2>1, <2>3, <2>4 DEF MemoryScope
<1>6. MemoryScopes(k, CopyRule(r, d).id) = MemoryScopes(c, r.id)
  BY <1>1, <1>5 DEF MemoryScopes
<1> QED
  BY <1>2, <1>3, <1>4, <1>6 DEF MemoryRule

\* The bundles of a clone are those of its original.
LEMMA ClonedMemoryBundles ==
    ASSUME NEW rev, NEW c, NEW d, NEW k, IsClone(c, k, rev, d)
    PROVE  StoredBundles(k) = StoredBundles(c)
<1>1. /\ c.rules \subseteq RuleRows(rev) /\ c.detectors \subseteq DetectorRows(rev)
      /\ c.bundles \subseteq BundleRows(rev)
      /\ k.rules = {CopyRule(x, d) : x \in c.rules}
      /\ k.detectors = {CopyDetector(x, d) : x \in c.detectors}
      /\ k.bundles = {CopyBundle(x, d) : x \in c.bundles}
  BY Columns, Cloned DEF IsClone, Resolves
<1>2. ASSUME NEW b \in c.bundles
      PROVE  MemoryBundle(k, CopyBundle(b, d)) = MemoryBundle(c, b)
  <2>1. /\ CopyBundle(b, d).id = Moved(b.id, d) /\ CopyBundle(b, d).action = b.action
        /\ b.id \in Rows(rev)
    BY <1>1 DEF BundleRows, CopyBundle
  <2>2. Name(CopyBundle(b, d).id) = Name(b.id)
    BY <2>1, RowID
  <2>3. \A x \in c.rules : CopyRule(x, d).bundle = CopyBundle(b, d).id <=> x.bundle = b.id
    <3>1. \A x \in c.rules : CopyRule(x, d).bundle = Moved(x.bundle, d) /\ x.bundle \in Rows(rev)
      BY <1>1 DEF RuleRows, CopyRule
    <3> QED
      BY <2>1, <3>1, MovedApart
  <2>4. MemoryDetectors(k, CopyBundle(b, d).id) = MemoryDetectors(c, b.id)
    <3>1. \A x \in c.detectors :
              /\ x.id \in Items(rev) /\ x.bundle \in Rows(rev)
              /\ CopyDetector(x, d).id = Moved(x.id, d)
              /\ CopyDetector(x, d).bundle = Moved(x.bundle, d)
      BY <1>1 DEF DetectorRows, CopyDetector
    <3>2. \A x \in c.detectors :
              /\ Name(CopyDetector(x, d).id) = Name(x.id)
              /\ CopyDetector(x, d).bundle = CopyBundle(b, d).id <=> x.bundle = b.id
      BY <2>1, <3>1, MovedApart, ItemID
    <3> QED
      BY <1>1, <3>2 DEF MemoryDetectors
  <2>5. MemoryRules(k, CopyBundle(b, d).id) = MemoryRules(c, b.id)
    BY <1>1, <2>3, ClonedMemoryRule DEF MemoryRules
  <2> QED
    BY <2>1, <2>2, <2>4, <2>5 DEF MemoryBundle
<1>3. {MemoryBundle(k, x) : x \in k.bundles} = {MemoryBundle(c, b) : b \in c.bundles}
  BY <1>1, <1>2
<1> QED
  BY <1>3, StoredTold, Zenon

\* The bundles are told from the five tables of policy and the names of routes and
\* providers.
LEMMA SameTables ==
    ASSUME NEW c, NEW k, k.bundles = c.bundles, k.detectors = c.detectors, k.rules = c.rules,
           k.ruleDetectors = c.ruleDetectors, k.ruleScopes = c.ruleScopes,
           k.routes = c.routes, k.providers = c.providers
    PROVE  StoredBundles(k) = StoredBundles(c)
<1>1. \A s : MemoryScope(k, s) = MemoryScope(c, s)
  BY DEF MemoryScope
<1>2. \A r : MemoryRule(k, r) = MemoryRule(c, r)
  BY <1>1 DEF MemoryRule, MemoryScopes, HydrateRuleDetectorKeys
<1>3. \A b : MemoryBundle(k, b) = MemoryBundle(c, b)
  BY <1>2 DEF MemoryBundle, MemoryRules, MemoryDetectors
<1>4. {MemoryBundle(k, b) : b \in k.bundles} = {MemoryBundle(c, b) : b \in c.bundles}
  BY <1>3
<1> QED
  BY <1>4, StoredTold

\* The other records as the in-memory repository has them.
MemoryMapping(m) == [key |-> Name(m.id), model |-> m.model, routeKey |-> m.routeKey,
                     provider |-> m.provider, enabled |-> m.enabled]
MemoryVerdictProvider(v) == [id |-> Name(v.id), name |-> Name(v.id), endpoint |-> v.endpoint,
                             enabled |-> v.enabled, credential |-> v.credential]
MemoryLimit(l) == [route |-> Name(l.route), enabled |-> l.enabled]
MemoryOverride(o) == [client |-> o.client, route |-> Name(o.route), enabled |-> o.enabled]

\* k holds the records of c.
SameBundles(c, k) == StoredBundles(k) = StoredBundles(c)
SameMappings(c, k) ==
    {MemoryMapping(m) : m \in k.mappings} = {MemoryMapping(m) : m \in c.mappings}
SameVerdictProviders(c, k) ==
    {MemoryVerdictProvider(v) : v \in k.verdictProviders}
        = {MemoryVerdictProvider(v) : v \in c.verdictProviders}
SameLimits(c, k) == {MemoryLimit(l) : l \in k.limits} = {MemoryLimit(l) : l \in c.limits}
SameOverrides(c, k) ==
    {MemoryOverride(o) : o \in k.overrides} = {MemoryOverride(o) : o \in c.overrides}
SameMemory(c, k) ==
    /\ SameBundles(c, k) /\ SameMappings(c, k) /\ SameVerdictProviders(c, k)
    /\ SameLimits(c, k) /\ SameOverrides(c, k)

\* A clone holds the records of its original.
LEMMA ClonedMemory ==
    ASSUME NEW rev, NEW c, NEW d, NEW k, IsClone(c, k, rev, d)
    PROVE  SameMemory(c, k)
<1>1. /\ c.mappings \subseteq MappingRows(rev) /\ c.limits \subseteq LimitRows(rev)
      /\ c.overrides \subseteq OverrideRows(rev)
      /\ c.verdictProviders \subseteq VerdictProviderRows(rev)
      /\ k.mappings = {CopyMapping(x, d) : x \in c.mappings}
      /\ k.limits = {CopyLimit(x, d) : x \in c.limits}
      /\ k.overrides = {CopyOverride(x, d) : x \in c.overrides}
      /\ k.verdictProviders = {CopyVerdictProvider(x, d) : x \in c.verdictProviders}
  BY Columns, Cloned DEF IsClone
<1>2. ASSUME NEW x \in c.mappings PROVE MemoryMapping(CopyMapping(x, d)) = MemoryMapping(x)
  <2>1. /\ CopyMapping(x, d).id = Moved(x.id, d) /\ x.id \in Rows(rev)
        /\ CopyMapping(x, d).model = x.model /\ CopyMapping(x, d).routeKey = x.routeKey
        /\ CopyMapping(x, d).provider = x.provider /\ CopyMapping(x, d).enabled = x.enabled
    BY <1>1 DEF MappingRows, CopyMapping
  <2>2. Name(CopyMapping(x, d).id) = Name(x.id)
    BY <2>1, RowID
  <2> QED
    BY <2>1, <2>2 DEF MemoryMapping
<1>3. ASSUME NEW x \in c.verdictProviders
      PROVE  MemoryVerdictProvider(CopyVerdictProvider(x, d)) = MemoryVerdictProvider(x)
  <2>1. /\ CopyVerdictProvider(x, d).id = Moved(x.id, d) /\ x.id \in Rows(rev)
        /\ CopyVerdictProvider(x, d).endpoint = x.endpoint
        /\ CopyVerdictProvider(x, d).enabled = x.enabled
        /\ CopyVerdictProvider(x, d).credential = x.credential
    BY <1>1 DEF VerdictProviderRows, CopyVerdictProvider
  <2>2. Name(CopyVerdictProvider(x, d).id) = Name(x.id)
    BY <2>1, RowID
  <2> QED
    BY <2>1, <2>2 DEF MemoryVerdictProvider
<1>4. ASSUME NEW x \in c.limits PROVE MemoryLimit(CopyLimit(x, d)) = MemoryLimit(x)
  <2>1. /\ CopyLimit(x, d).route = Moved(x.route, d) /\ x.route \in Rows(rev)
        /\ CopyLimit(x, d).enabled = x.enabled
    BY <1>1 DEF LimitRows, CopyLimit
  <2> QED
    BY <2>1, RowID DEF MemoryLimit
<1>5. ASSUME NEW x \in c.overrides PROVE MemoryOverride(CopyOverride(x, d)) = MemoryOverride(x)
  <2>1. /\ CopyOverride(x, d).route = Moved(x.route, d) /\ x.route \in Rows(rev)
        /\ CopyOverride(x, d).enabled = x.enabled /\ CopyOverride(x, d).client = x.client
    BY <1>1 DEF OverrideRows, CopyOverride
  <2> QED
    BY <2>1, RowID DEF MemoryOverride
<1>6. SameMappings(c, k)
  BY <1>1, <1>2 DEF SameMappings
<1>7. SameVerdictProviders(c, k)
  BY <1>1, <1>3 DEF SameVerdictProviders
<1>8. SameLimits(c, k)
  BY <1>1, <1>4 DEF SameLimits
<1>9. SameOverrides(c, k)
  BY <1>1, <1>5 DEF SameOverrides
<1> QED
  BY <1>6, <1>7, <1>8, <1>9, ClonedMemoryBundles DEF SameMemory, SameBundles

\* The draft of an edit is consistent and holds the records of the revision that
\* requests work on.
LEMMA DraftMemory ==
    ASSUME RowsInv, NEW d \in Drafts
    PROVE  Consistent(d.rev, d.rows) /\ SameMemory(CurrentRows, d.rows)
<1>1. Consistent(d.rev, d.rows)
  BY DraftsConsistent
<1>2. CASE draft # {}
  <2>1. d \in draft /\ draft = {d}
    BY <1>2 DEF Drafts, RowsInv
  <2>2. (CHOOSE e \in draft : TRUE) = d
    BY <2>1
  <2>3. CurrentRows = d.rows
    BY <1>2, <2>2 DEF CurrentRows
  <2> QED
    BY <1>1, <2>3 DEF SameMemory, SameBundles, SameMappings, SameVerdictProviders, SameLimits,
                      SameOverrides
<1>3. CASE draft = {}
  <2>1. PICK c : c = active.rows
    OBVIOUS
  <2>2. PICK k : k = CloneActive(c, active.rev + 1)
    OBVIOUS
  <2>3. d.rows = k /\ Whole(k)
    BY <1>3, <2>1, <2>2 DEF Drafts
  <2>4. IsClone(c, k, active.rev, active.rev + 1)
    BY <2>1, <2>2, <2>3 DEF RowsInv, Consistent, IsClone
  <2>5. CurrentRows = c
    BY <1>3, <2>1 DEF CurrentRows
  <2> QED
    BY <1>1, <2>3, <2>4, <2>5, ClonedMemory
<1> QED
  BY <1>2, <1>3

\* A row is told by its name.
LEMMA NamedID ==
    ASSUME NEW rev, NEW id \in Rows(rev), NEW name
    PROVE  Name(id) = name <=> id = <<rev, name>>
<1>1. Name(<<rev, name>>) = name
  BY DEF Name
<1>2. id = <<rev, Name(id)>>
  BY RowID
<1> QED
  BY <1>1, <1>2

\* A model mapping takes the place of the one of its key, and the rest is kept.
LEMMA UpsertedMapping ==
    ASSUME NEW rev, NEW c, Consistent(rev, c), NEW m \in Mappings,
           NEW k \in UpsertModelMapping(c, rev, m)
    PROVE  /\ {MemoryMapping(x) : x \in k.mappings}
                 = Memory!Set({MemoryMapping(x) : x \in c.mappings}, m,
                              {y \in {MemoryMapping(x) : x \in c.mappings} : y.key = m.key})
           /\ SameBundles(c, k) /\ SameVerdictProviders(c, k) /\ SameLimits(c, k)
           /\ SameOverrides(c, k)
<1>1. PICK id : id = <<rev, m.key>>
  OBVIOUS
<1> DEFINE row == [id |-> id, target |-> NoID, model |-> m.model, routeKey |-> m.routeKey,
                   provider |-> m.provider, enabled |-> m.enabled]
<1>2. k = [c EXCEPT !.mappings = Put(c.mappings, row)]
  BY <1>1 DEF UpsertModelMapping
<1>3. c \in Contents(rev)
  BY DEF Consistent
<1>4. /\ k.mappings = Put(c.mappings, row)
      /\ k.bundles = c.bundles /\ k.detectors = c.detectors /\ k.rules = c.rules
      /\ k.ruleDetectors = c.ruleDetectors /\ k.ruleScopes = c.ruleScopes
      /\ k.routes = c.routes /\ k.providers = c.providers
      /\ k.verdictProviders = c.verdictProviders /\ k.limits = c.limits
      /\ k.overrides = c.overrides
  BY <1>2, <1>3 DEF Contents
<1>5. m \in [key : STRING, model : STRING, routeKey : STRING, provider : STRING,
             enabled : BOOLEAN]
  BY TrafficAssumption
<1>6. MemoryMapping(row) = m
  <2>1. Name(id) = m.key
    BY <1>1 DEF Name
  <2> QED
    BY <1>5, <2>1 DEF MemoryMapping
<1>7. \A x \in c.mappings : MemoryMapping(x).key = m.key <=> x.id = row.id
  <2>1. \A x \in c.mappings : x.id \in Rows(rev)
    BY <1>3 DEF Contents, MappingRows
  <2>2. \A x \in c.mappings : Name(x.id) = m.key <=> x.id = row.id
    BY <1>1, <2>1, NamedID
  <2> QED
    BY <2>2 DEF MemoryMapping
<1> HIDE DEF row
<1>8. {MemoryMapping(x) : x \in k.mappings}
          = {MemoryMapping(x) : x \in {y \in c.mappings : y.id # row.id}} \union {m}
  BY <1>4, <1>6 DEF Put
<1>9. {MemoryMapping(x) : x \in k.mappings}
          = Memory!Set({MemoryMapping(x) : x \in c.mappings}, m,
                       {y \in {MemoryMapping(x) : x \in c.mappings} : y.key = m.key})
  BY <1>7, <1>8 DEF Memory!Set
<1>10. SameBundles(c, k)
  BY <1>4, SameTables DEF SameBundles
<1> QED
  BY <1>4, <1>9, <1>10 DEF SameVerdictProviders, SameLimits, SameOverrides

\* A verdict provider takes the place of the one of its name.
LEMMA UpsertedVerdictProvider ==
    ASSUME NEW rev, NEW c, Consistent(rev, c), NEW v \in VerdictProviderRecords,
           v.id = v.name, NEW k, k = UpsertVerdictProvider(c, rev, v)
    PROVE  /\ {MemoryVerdictProvider(x) : x \in k.verdictProviders}
                 = Memory!Set({MemoryVerdictProvider(x) : x \in c.verdictProviders}, v,
                              {y \in {MemoryVerdictProvider(x) : x \in c.verdictProviders} :
                                  y.id = v.id})
           /\ SameBundles(c, k) /\ SameMappings(c, k) /\ SameLimits(c, k) /\ SameOverrides(c, k)
<1>1. PICK id : id = <<rev, v.name>>
  OBVIOUS
<1> DEFINE row == [id |-> id, endpoint |-> v.endpoint, enabled |-> v.enabled,
                   credential |-> v.credential]
<1>2. k = [c EXCEPT !.verdictProviders = Put(c.verdictProviders, row)]
  BY <1>1 DEF UpsertVerdictProvider
<1>3. c \in Contents(rev)
  BY DEF Consistent
<1>4. /\ k.verdictProviders = Put(c.verdictProviders, row)
      /\ k.bundles = c.bundles /\ k.detectors = c.detectors /\ k.rules = c.rules
      /\ k.ruleDetectors = c.ruleDetectors /\ k.ruleScopes = c.ruleScopes
      /\ k.routes = c.routes /\ k.providers = c.providers
      /\ k.mappings = c.mappings /\ k.limits = c.limits /\ k.overrides = c.overrides
  BY <1>2, <1>3 DEF Contents
<1>5. MemoryVerdictProvider(row) = v
  <2>1. Name(id) = v.name
    BY <1>1 DEF Name
  <2> QED
    BY <2>1 DEF MemoryVerdictProvider, VerdictProviderRecords
<1>6. \A x \in c.verdictProviders : MemoryVerdictProvider(x).id = v.id <=> x.id = row.id
  <2>1. \A x \in c.verdictProviders : x.id \in Rows(rev)
    BY <1>3 DEF Contents, VerdictProviderRows
  <2>2. \A x \in c.verdictProviders : Name(x.id) = v.name <=> x.id = row.id
    BY <1>1, <2>1, NamedID
  <2> QED
    BY <2>2 DEF MemoryVerdictProvider
<1> HIDE DEF row
<1>7. {MemoryVerdictProvider(x) : x \in k.verdictProviders}
          = {MemoryVerdictProvider(x) : x \in {y \in c.verdictProviders : y.id # row.id}}
                \union {v}
  BY <1>4, <1>5 DEF Put
<1>8. {MemoryVerdictProvider(x) : x \in k.verdictProviders}
          = Memory!Set({MemoryVerdictProvider(x) : x \in c.verdictProviders}, v,
                       {y \in {MemoryVerdictProvider(x) : x \in c.verdictProviders} :
                           y.id = v.id})
  BY <1>6, <1>7 DEF Memory!Set
<1>9. SameBundles(c, k)
  BY <1>4, SameTables DEF SameBundles
<1> QED
  BY <1>4, <1>8, <1>9 DEF SameMappings, SameLimits, SameOverrides

\* A route that the current revision names is one of the draft by the same name.
LEMMA RouteFound ==
    ASSUME NEW rev, NEW c \in Contents(rev), NEW current, NEW name \in STRING,
           NEW route \in IDsOf(Named(current, name)), NEW r \in RouteIDForRevision(c, route)
    PROVE  r = <<rev, name>>
<1>1. Name(route) = name
  BY DEF IDsOf, Named
<1>2. r \in IDsOf(c.routes) /\ Name(r) = name
  BY <1>1 DEF RouteIDForRevision, IDsOf, Named
<1>3. r \in Rows(rev)
  BY <1>2 DEF IDsOf, Contents, RouteRows
<1> QED
  BY <1>2, <1>3, RowID

\* A route limit takes the place of the one of its route.
LEMMA UpsertedLimit ==
    ASSUME NEW rev, NEW c, Consistent(rev, c), NEW l \in Limits, NEW current,
           NEW route \in IDsOf(Named(current, l.route)),
           NEW k \in UpsertRoutePolicy(c, route, l.enabled)
    PROVE  /\ {MemoryLimit(x) : x \in k.limits}
                 = Memory!Set({MemoryLimit(x) : x \in c.limits}, l,
                              {y \in {MemoryLimit(x) : x \in c.limits} : y.route = l.route})
           /\ SameBundles(c, k) /\ SameMappings(c, k) /\ SameVerdictProviders(c, k)
           /\ SameOverrides(c, k)
<1>1. PICK r \in RouteIDForRevision(c, route) :
          k = [c EXCEPT !.limits = {x \in @ : x.route # r}
                                      \union {[route |-> r, enabled |-> l.enabled]}]
  BY DEF UpsertRoutePolicy
<1>2. l \in [route : STRING, enabled : BOOLEAN]
  BY TrafficAssumption
<1>3. c \in Contents(rev)
  BY DEF Consistent
<1>4. r = <<rev, l.route>>
  BY <1>2, <1>3, RouteFound
<1> DEFINE row == [route |-> r, enabled |-> l.enabled]
<1>5. /\ k.limits = {x \in c.limits : x.route # r} \union {row}
      /\ k.bundles = c.bundles /\ k.detectors = c.detectors /\ k.rules = c.rules
      /\ k.ruleDetectors = c.ruleDetectors /\ k.ruleScopes = c.ruleScopes
      /\ k.routes = c.routes /\ k.providers = c.providers
      /\ k.mappings = c.mappings /\ k.verdictProviders = c.verdictProviders
      /\ k.overrides = c.overrides
  BY <1>1, <1>3 DEF Contents
<1>6. MemoryLimit(row) = l
  <2>1. Name(r) = l.route
    BY <1>4 DEF Name
  <2> QED
    BY <1>2, <2>1 DEF MemoryLimit
<1>7. \A x \in c.limits : MemoryLimit(x).route = l.route <=> x.route = r
  <2>1. \A x \in c.limits : x.route \in Rows(rev)
    BY <1>3 DEF Contents, LimitRows
  <2>2. \A x \in c.limits : Name(x.route) = l.route <=> x.route = r
    BY <1>4, <2>1, NamedID
  <2> QED
    BY <2>2 DEF MemoryLimit
<1> HIDE DEF row
<1>8. {MemoryLimit(x) : x \in k.limits}
          = {MemoryLimit(x) : x \in {y \in c.limits : y.route # r}} \union {l}
  BY <1>5, <1>6
<1>9. {MemoryLimit(x) : x \in k.limits}
          = Memory!Set({MemoryLimit(x) : x \in c.limits}, l,
                       {y \in {MemoryLimit(x) : x \in c.limits} : y.route = l.route})
  BY <1>7, <1>8 DEF Memory!Set
<1>10. SameBundles(c, k)
  BY <1>5, SameTables DEF SameBundles
<1> QED
  BY <1>5, <1>9, <1>10 DEF SameMappings, SameVerdictProviders, SameOverrides

\* The overrides of a client on a route, told from the rows.
LEMMA OverridesOf ==
    ASSUME NEW rev, NEW c \in Contents(rev), NEW client, NEW name, NEW r, r = <<rev, name>>
    PROVE  \A x \in c.overrides :
               MemoryOverride(x).client = client /\ MemoryOverride(x).route = name
                   <=> x.client = client /\ x.route = r
<1>1. \A x \in c.overrides : x.route \in Rows(rev)
  BY DEF Contents, OverrideRows
<1>2. \A x \in c.overrides : Name(x.route) = name <=> x.route = r
  BY <1>1, NamedID
<1> QED
  BY <1>2 DEF MemoryOverride

\* An override takes the place of the one of its client and route.
LEMMA UpsertedOverride ==
    ASSUME NEW rev, NEW c, Consistent(rev, c), NEW o \in Overrides, NEW current,
           NEW route \in IDsOf(Named(current, o.route)),
           NEW k \in UpsertClientRouteOverride(c, o.client, route, o.enabled)
    PROVE  /\ {MemoryOverride(x) : x \in k.overrides}
                 = Memory!Set({MemoryOverride(x) : x \in c.overrides}, o,
                              {y \in {MemoryOverride(x) : x \in c.overrides} :
                                  y.client = o.client /\ y.route = o.route})
           /\ SameBundles(c, k) /\ SameMappings(c, k) /\ SameVerdictProviders(c, k)
           /\ SameLimits(c, k)
<1>1. PICK r \in RouteIDForRevision(c, route) :
          k = [c EXCEPT !.overrides =
                  {x \in @ : ~ (x.route = r /\ x.client = o.client)}
                      \union {[client |-> o.client, route |-> r, enabled |-> o.enabled]}]
  BY DEF UpsertClientRouteOverride
<1>2. o \in [client : STRING, route : STRING, enabled : BOOLEAN]
  BY TrafficAssumption
<1>3. c \in Contents(rev)
  BY DEF Consistent
<1>4. r = <<rev, o.route>>
  BY <1>2, <1>3, RouteFound
<1> DEFINE row == [client |-> o.client, route |-> r, enabled |-> o.enabled]
<1>5. /\ k.overrides = {x \in c.overrides : ~ (x.route = r /\ x.client = o.client)} \union {row}
      /\ k.bundles = c.bundles /\ k.detectors = c.detectors /\ k.rules = c.rules
      /\ k.ruleDetectors = c.ruleDetectors /\ k.ruleScopes = c.ruleScopes
      /\ k.routes = c.routes /\ k.providers = c.providers
      /\ k.mappings = c.mappings /\ k.verdictProviders = c.verdictProviders
      /\ k.limits = c.limits
  BY <1>1, <1>3 DEF Contents
<1>6. MemoryOverride(row) = o
  <2>1. Name(r) = o.route
    BY <1>4 DEF Name
  <2> QED
    BY <1>2, <2>1 DEF MemoryOverride
<1>7. \A x \in c.overrides :
          MemoryOverride(x).client = o.client /\ MemoryOverride(x).route = o.route
              <=> x.client = o.client /\ x.route = r
  BY <1>3, <1>4, OverridesOf
<1> HIDE DEF row
<1>8. {MemoryOverride(x) : x \in k.overrides}
          = {MemoryOverride(x) : x \in {y \in c.overrides :
                                            ~ (y.route = r /\ y.client = o.client)}} \union {o}
  BY <1>5, <1>6
<1>9. {MemoryOverride(x) : x \in k.overrides}
          = Memory!Set({MemoryOverride(x) : x \in c.overrides}, o,
                       {y \in {MemoryOverride(x) : x \in c.overrides} :
                           y.client = o.client /\ y.route = o.route})
  BY <1>7, <1>8 DEF Memory!Set
<1>10. SameBundles(c, k)
  BY <1>5, SameTables DEF SameBundles
<1> QED
  BY <1>5, <1>9, <1>10 DEF SameMappings, SameVerdictProviders, SameLimits

\* A deletion takes the override of its client and route away.
LEMMA DeletedOverride ==
    ASSUME NEW rev, NEW c, Consistent(rev, c), NEW o \in Overrides, NEW current,
           NEW route \in IDsOf(Named(current, o.route)),
           NEW k \in DeleteClientRouteOverride(c, o.client, route)
    PROVE  /\ {MemoryOverride(x) : x \in k.overrides}
                 = {y \in {MemoryOverride(x) : x \in c.overrides} :
                       ~ (y.client = o.client /\ y.route = o.route)}
           /\ SameBundles(c, k) /\ SameMappings(c, k) /\ SameVerdictProviders(c, k)
           /\ SameLimits(c, k)
<1>1. PICK r \in RouteIDForRevision(c, route) :
          k = [c EXCEPT !.overrides = {x \in @ : ~ (x.route = r /\ x.client = o.client)}]
  BY DEF DeleteClientRouteOverride
<1>2. o \in [client : STRING, route : STRING, enabled : BOOLEAN]
  BY TrafficAssumption
<1>3. c \in Contents(rev)
  BY DEF Consistent
<1>4. r = <<rev, o.route>>
  BY <1>2, <1>3, RouteFound
<1>5. /\ k.overrides = {x \in c.overrides : ~ (x.route = r /\ x.client = o.client)}
      /\ k.bundles = c.bundles /\ k.detectors = c.detectors /\ k.rules = c.rules
      /\ k.ruleDetectors = c.ruleDetectors /\ k.ruleScopes = c.ruleScopes
      /\ k.routes = c.routes /\ k.providers = c.providers
      /\ k.mappings = c.mappings /\ k.verdictProviders = c.verdictProviders
      /\ k.limits = c.limits
  BY <1>1, <1>3 DEF Contents
<1>6. \A x \in c.overrides :
          MemoryOverride(x).client = o.client /\ MemoryOverride(x).route = o.route
              <=> x.client = o.client /\ x.route = r
  BY <1>3, <1>4, OverridesOf
<1>7. {MemoryOverride(x) : x \in k.overrides}
          = {y \in {MemoryOverride(x) : x \in c.overrides} :
                ~ (y.client = o.client /\ y.route = o.route)}
  BY <1>5, <1>6
<1>8. SameBundles(c, k)
  BY <1>5, SameTables DEF SameBundles
<1> QED
  BY <1>5, <1>7, <1>8 DEF SameMappings, SameVerdictProviders, SameLimits

\* The rows that the upsert of a bundle inserts.
BundleID(rev, B) == <<rev, B.key>>
RuleID(rev, B, r) == <<rev, B.key, r.key>>
OwnRule(rev, B, id) == id[1] = rev /\ id[2] = B.key
BundleRow(rev, B) == [id |-> BundleID(rev, B), enabled |-> TRUE, action |-> B.action]
DetectorRow(rev, B, d) ==
    [id |-> <<rev, B.key, d>>, bundle |-> BundleID(rev, B), enabled |-> TRUE]
RuleRow(rev, B, r) ==
    [id |-> RuleID(rev, B, r), bundle |-> BundleID(rev, B), enabled |-> r.enabled,
     action |-> r.action]
RuleDetectorRow(rev, B, r, d) ==
    [rule |-> RuleID(rev, B, r), detector |-> <<rev, B.key, d>>]
RuleScopeRow(rev, B, r, s) ==
    [rule |-> RuleID(rev, B, r), route |-> s.route, provider |-> s.provider,
     model |-> s.model, direction |-> StorageDirection(s.direction)]

\* The tables that it leaves.
Upserted(rev, c, B, k) ==
    /\ \A q, r \in B.rules : q.key = r.key => q = r
    /\ k.bundles = Put(c.bundles, BundleRow(rev, B))
    /\ k.detectors = {d \in c.detectors : d.bundle # BundleID(rev, B)} \union
                         {DetectorRow(rev, B, d) : d \in B.detectors}
    /\ k.rules = {r \in c.rules : r.bundle # BundleID(rev, B)} \union
                     {RuleRow(rev, B, r) : r \in B.rules}
    /\ k.ruleDetectors = {x \in c.ruleDetectors : ~ OwnRule(rev, B, x.rule)} \union
          UNION {{RuleDetectorRow(rev, B, r, d) : d \in r.detectors} : r \in B.rules}
    /\ k.ruleScopes = {x \in c.ruleScopes : ~ OwnRule(rev, B, x.rule)} \union
          UNION {{RuleScopeRow(rev, B, r, s) : s \in r.scopes} : r \in B.rules}
    /\ k.routes = c.routes /\ k.providers = c.providers
    /\ k.mappings = c.mappings /\ k.verdictProviders = c.verdictProviders
    /\ k.limits = c.limits /\ k.overrides = c.overrides

\* They are those that UpsertBundle yields.
LEMMA UpsertedRows ==
    ASSUME NEW rev, NEW c, Consistent(rev, c), NEW B, NEW k \in UpsertBundle(c, rev, B)
    PROVE  Upserted(rev, c, B, k)
<1>1. PICK bundles : bundles = Put(c.bundles, BundleRow(rev, B))
  OBVIOUS
<1>2. PICK detectors :
          detectors = {d \in c.detectors : d.bundle # BundleID(rev, B)} \union
              {DetectorRow(rev, B, d) : d \in B.detectors}
  OBVIOUS
<1>3. PICK rules :
          rules = {r \in c.rules : r.bundle # BundleID(rev, B)} \union
              {RuleRow(rev, B, r) : r \in B.rules}
  OBVIOUS
<1>4. PICK ruleDetectors :
          ruleDetectors = {x \in c.ruleDetectors : ~ OwnRule(rev, B, x.rule)} \union
              UNION {{RuleDetectorRow(rev, B, r, d) : d \in r.detectors} : r \in B.rules}
  OBVIOUS
<1>5. PICK ruleScopes :
          ruleScopes = {x \in c.ruleScopes : ~ OwnRule(rev, B, x.rule)} \union
              UNION {{RuleScopeRow(rev, B, r, s) : s \in r.scopes} : r \in B.rules}
  OBVIOUS
<1>6. ~ (\/ \E r \in B.rules : ~ r.detectors \subseteq B.detectors
         \/ \E q, r \in B.rules : q.key = r.key /\ q # r)
  BY DEF UpsertBundle
<1>7. k = [c EXCEPT !.bundles = bundles, !.detectors = detectors, !.rules = rules,
                    !.ruleDetectors = ruleDetectors, !.ruleScopes = ruleScopes]
  BY <1>1, <1>2, <1>3, <1>4, <1>5, <1>6
     DEF UpsertBundle, BundleID, RuleID, OwnRule, BundleRow, DetectorRow, RuleRow,
         RuleDetectorRow, RuleScopeRow
<1>8. /\ k.bundles = bundles /\ k.detectors = detectors /\ k.rules = rules
      /\ k.ruleDetectors = ruleDetectors /\ k.ruleScopes = ruleScopes
      /\ k.routes = c.routes /\ k.providers = c.providers
      /\ k.mappings = c.mappings /\ k.verdictProviders = c.verdictProviders
      /\ k.limits = c.limits /\ k.overrides = c.overrides
  BY <1>7 DEF Consistent, Contents
<1> QED
  BY <1>1, <1>2, <1>3, <1>4, <1>5, <1>6, <1>8, Zenon DEF Upserted

\* The upsert of a bundle leaves the other bundles as they were.
LEMMA OtherBundles ==
    ASSUME NEW rev, NEW c, Consistent(rev, c), NEW B, NEW k \in UpsertBundle(c, rev, B),
           NEW b \in c.bundles, b.id # BundleID(rev, B)
    PROVE  MemoryBundle(k, b) = MemoryBundle(c, b)
<1>1. Upserted(rev, c, B, k)
  BY UpsertedRows
<1>2. {e \in k.detectors : e.bundle = b.id} = {e \in c.detectors : e.bundle = b.id}
  <2>1. \A d : DetectorRow(rev, B, d).bundle = BundleID(rev, B)
    BY DEF DetectorRow
  <2> QED
    BY <1>1, <2>1 DEF Upserted
<1>3. {x \in k.rules : x.bundle = b.id} = {x \in c.rules : x.bundle = b.id}
  <2>1. \A r : RuleRow(rev, B, r).bundle = BundleID(rev, B)
    BY DEF RuleRow
  <2> QED
    BY <1>1, <2>1 DEF Upserted
<1>4. MemoryDetectors(k, b.id) = MemoryDetectors(c, b.id)
  BY <1>2, Zenon DEF MemoryDetectors
<1>5. ASSUME NEW r \in c.rules, r.bundle = b.id
      PROVE  MemoryRule(k, r) = MemoryRule(c, r)
  <2>1. r.bundle = <<r.id[1], r.id[2]>> /\ r.id \in Items(rev)
    BY DEF Consistent, ForeignKeys, Contents, RuleRows
  <2>2. ~ OwnRule(rev, B, r.id)
    BY <1>5, <2>1 DEF OwnRule, BundleID
  <2>3. \A q : OwnRule(rev, B, RuleID(rev, B, q))
    BY DEF OwnRule, RuleID
  <2>4. \A q, d : RuleDetectorRow(rev, B, q, d).rule = RuleID(rev, B, q)
    BY DEF RuleDetectorRow
  <2>5. \A q, s : RuleScopeRow(rev, B, q, s).rule = RuleID(rev, B, q)
    BY DEF RuleScopeRow
  <2>6. {y \in k.ruleDetectors : y.rule = r.id} = {y \in c.ruleDetectors : y.rule = r.id}
    BY <1>1, <2>2, <2>3, <2>4 DEF Upserted
  <2>7. {y \in k.ruleScopes : y.rule = r.id} = {y \in c.ruleScopes : y.rule = r.id}
    BY <1>1, <2>2, <2>3, <2>5 DEF Upserted
  <2>8. HydrateRuleDetectorKeys(k, r) = HydrateRuleDetectorKeys(c, r)
    BY <2>6, Zenon DEF HydrateRuleDetectorKeys
  <2>9. MemoryScopes(k, r.id) = MemoryScopes(c, r.id)
    <3>1. \A s : MemoryScope(k, s) = MemoryScope(c, s)
      BY <1>1 DEF MemoryScope, Upserted
    <3> QED
      BY <2>7, <3>1 DEF MemoryScopes
  <2> QED
    BY <2>8, <2>9 DEF MemoryRule
<1>6. MemoryRules(k, b.id) = MemoryRules(c, b.id)
  <2>1. MemoryRules(k, b.id) = {MemoryRule(k, r) : r \in {x \in c.rules : x.bundle = b.id}}
    BY <1>3, Zenon DEF MemoryRules
  <2> QED
    BY <1>5, <2>1 DEF MemoryRules
<1> QED
  BY <1>4, <1>6 DEF MemoryBundle

\* A scope and a rule of a submitted bundle as they come back from revision c.
KeptScope(c, s) ==
    [route |-> NameIn(c.routes, s.route), provider |-> NameIn(c.providers, s.provider),
     model |-> s.model, direction |-> PolicyDirection(StorageDirection(s.direction))]
KeptScopes(c, r) == {KeptScope(c, s) : s \in r.scopes}
KeptRule(c, r) ==
    [key |-> r.key, enabled |-> r.enabled, action |-> r.action, detectors |-> r.detectors,
     scopes |-> KeptScopes(c, r)]

\* The bundle that an upsert stores is the one that was submitted to it.
LEMMA StoredAsSubmitted ==
    ASSUME NEW rev, NEW c, Consistent(rev, c), NEW B, NEW k \in UpsertBundle(c, rev, B)
    PROVE  MemoryBundle(k, BundleRow(rev, B))
               = [key |-> B.key, action |-> B.action, detectors |-> B.detectors,
                  rules |-> {KeptRule(c, r) : r \in B.rules}]
<1>1. Upserted(rev, c, B, k)
  BY UpsertedRows
<1>2. PICK id : id = BundleID(rev, B)
  OBVIOUS
<1>3. MemoryDetectors(k, id) = B.detectors
  <2>1. \A d : /\ DetectorRow(rev, B, d).bundle = id
               /\ Name(DetectorRow(rev, B, d).id) = d
    BY <1>2 DEF DetectorRow, Name
  <2>2. {e \in k.detectors : e.bundle = id} = {DetectorRow(rev, B, d) : d \in B.detectors}
    BY <1>1, <1>2, <2>1 DEF Upserted
  <2>3. {Name(e.id) : e \in {DetectorRow(rev, B, d) : d \in B.detectors}} = B.detectors
    BY <2>1
  <2> QED
    BY <2>2, <2>3, Zenon DEF MemoryDetectors
<1>4. ASSUME NEW r \in B.rules
      PROVE  MemoryRule(k, RuleRow(rev, B, r)) = KeptRule(c, r)
  <2>1. \A q \in B.rules : RuleID(rev, B, q) = RuleID(rev, B, r) => q = r
    BY <1>1 DEF Upserted, RuleID
  <2>2. \A q : OwnRule(rev, B, RuleID(rev, B, q))
    BY DEF OwnRule, RuleID
  <2>3. PICK row : row = RuleRow(rev, B, r)
    OBVIOUS
  <2>4. row.id = RuleID(rev, B, r) /\ row.enabled = r.enabled /\ row.action = r.action
    BY <2>3 DEF RuleRow
  <2>5. HydrateRuleDetectorKeys(k, row) = r.detectors
    <3>1. \A q, d : /\ RuleDetectorRow(rev, B, q, d).rule = RuleID(rev, B, q)
                    /\ Name(RuleDetectorRow(rev, B, q, d).detector) = d
      BY DEF RuleDetectorRow, Name
    <3>2. {y \in k.ruleDetectors : y.rule = RuleID(rev, B, r)}
              = {RuleDetectorRow(rev, B, r, d) : d \in r.detectors}
      BY <1>1, <2>1, <2>2, <3>1 DEF Upserted
    <3>3. {Name(x.detector) : x \in {RuleDetectorRow(rev, B, r, d) : d \in r.detectors}}
              = r.detectors
      <4>1. \A d : Name(RuleDetectorRow(rev, B, r, d).detector) = d
        BY <3>1
      <4>2. {Name(x.detector) : x \in {RuleDetectorRow(rev, B, r, d) : d \in r.detectors}}
                = {Name(RuleDetectorRow(rev, B, r, d).detector) : d \in r.detectors}
        OBVIOUS
      <4> QED
        BY <4>1, <4>2
    <3> QED
      BY <2>4, <3>2, <3>3, Zenon DEF HydrateRuleDetectorKeys
  <2>6. MemoryScopes(k, RuleID(rev, B, r)) = KeptScopes(c, r)
    <3>1. \A q, s : /\ RuleScopeRow(rev, B, q, s).rule = RuleID(rev, B, q)
                    /\ MemoryScope(k, RuleScopeRow(rev, B, q, s)) = KeptScope(c, s)
      <4>1. k.routes = c.routes /\ k.providers = c.providers
        BY <1>1 DEF Upserted
      <4> QED
        BY <4>1 DEF RuleScopeRow, MemoryScope, KeptScope
    <3>2. {y \in k.ruleScopes : y.rule = RuleID(rev, B, r)}
              = {RuleScopeRow(rev, B, r, s) : s \in r.scopes}
      BY <1>1, <2>1, <2>2, <3>1 DEF Upserted
    <3>3. {MemoryScope(k, x) : x \in {RuleScopeRow(rev, B, r, s) : s \in r.scopes}}
              = {KeptScope(c, s) : s \in r.scopes}
      BY <3>1
    <3> QED
      BY <3>2, <3>3, Zenon DEF MemoryScopes, KeptScopes
  <2>7. Name(RuleID(rev, B, r)) = r.key
    BY DEF Name, RuleID
  <2> QED
    BY <2>3, <2>4, <2>5, <2>6, <2>7 DEF MemoryRule, KeptRule
<1>5. MemoryRules(k, id) = {KeptRule(c, r) : r \in B.rules}
  <2>1. \A r : RuleRow(rev, B, r).bundle = id
    BY <1>2 DEF RuleRow
  <2>2. {x \in k.rules : x.bundle = id} = {RuleRow(rev, B, r) : r \in B.rules}
    BY <1>1, <1>2, <2>1 DEF Upserted
  <2>3. {MemoryRule(k, x) : x \in {RuleRow(rev, B, r) : r \in B.rules}}
            = {KeptRule(c, r) : r \in B.rules}
    BY <1>4
  <2> QED
    BY <2>2, <2>3, Zenon DEF MemoryRules
<1>6. Name(id) = B.key
  BY <1>2 DEF Name, BundleID
<1> QED
  BY <1>2, <1>3, <1>5, <1>6 DEF MemoryBundle, BundleRow

\* A bundle takes the place of the one of its key.
LEMMA UpsertedBundle ==
    ASSUME NEW rev, NEW c, Consistent(rev, c), NEW B, NEW k \in UpsertBundle(c, rev, B),
           NEW told, told = [key |-> B.key, action |-> B.action, detectors |-> B.detectors,
                               rules |-> {KeptRule(c, r) : r \in B.rules}]
    PROVE  /\ StoredBundles(k) = Memory!Set(StoredBundles(c), told,
                                            {x \in StoredBundles(c) : x.key = told.key})
           /\ SameMappings(c, k) /\ SameVerdictProviders(c, k) /\ SameLimits(c, k)
           /\ SameOverrides(c, k)
<1>1. Upserted(rev, c, B, k)
  BY UpsertedRows
<1>2. PICK row : row = BundleRow(rev, B)
  OBVIOUS
<1>3. row.id = BundleID(rev, B)
  BY <1>2 DEF BundleRow
<1>4. k.bundles = {x \in c.bundles : x.id # row.id} \union {row}
  BY <1>1, <1>2 DEF Upserted, Put
<1>5. \A b \in c.bundles : b.id # row.id => MemoryBundle(k, b) = MemoryBundle(c, b)
  BY <1>3, OtherBundles
<1>6. MemoryBundle(k, row) = told
  BY <1>2, StoredAsSubmitted
<1>7. StoredBundles(k)
          = {MemoryBundle(c, b) : b \in {x \in c.bundles : x.id # row.id}} \union {told}
  <2>1. {MemoryBundle(k, b) : b \in k.bundles}
            = {MemoryBundle(c, b) : b \in {x \in c.bundles : x.id # row.id}} \union {told}
    BY <1>4, <1>5, <1>6
  <2> QED
    BY <2>1, StoredTold
<1>8. \A b \in c.bundles : MemoryBundle(c, b).key = told.key <=> b.id = row.id
  <2>1. \A b \in c.bundles : b.id \in Rows(rev)
    BY DEF Consistent, Contents, BundleRows
  <2>2. \A b \in c.bundles : Name(b.id) = B.key <=> b.id = row.id
    BY <1>3, <2>1, NamedID DEF BundleID
  <2>3. told.key = B.key
    OBVIOUS
  <2> QED
    BY <2>2, <2>3 DEF MemoryBundle
<1>9. StoredBundles(c) = {MemoryBundle(c, b) : b \in c.bundles}
  BY StoredTold
<1>10. StoredBundles(k) = Memory!Set(StoredBundles(c), told,
                                     {x \in StoredBundles(c) : x.key = told.key})
  BY <1>7, <1>8, <1>9 DEF Memory!Set
<1>11. /\ k.mappings = c.mappings /\ k.verdictProviders = c.verdictProviders
       /\ k.limits = c.limits /\ k.overrides = c.overrides
  BY <1>1 DEF Upserted
<1> QED
  BY <1>10, <1>11 DEF SameMappings, SameVerdictProviders, SameLimits, SameOverrides

\* The direction of a scope is stored and loaded as itself.
LEMMA DirectionKept ==
    ASSUME NEW direction \in {"", "input", "output"}
    PROVE  PolicyDirection(StorageDirection(direction)) = direction
<1>1. CASE direction = ""
  <2>1. StorageDirection("") = "both"
    BY Zenon DEF StorageDirection
  <2>2. PolicyDirection("both") = ""
    BY Zenon DEF PolicyDirection
  <2> QED
    BY <1>1, <2>1, <2>2
<1>2. CASE direction = "input"
  <2>1. StorageDirection("input") = "request"
    BY Zenon DEF StorageDirection
  <2>2. PolicyDirection("request") = "input"
    BY Zenon DEF PolicyDirection
  <2> QED
    BY <1>2, <2>1, <2>2
<1>3. CASE direction = "output"
  <2>1. StorageDirection("output") = "response"
    BY Zenon DEF StorageDirection
  <2>2. PolicyDirection("response") = "output"
    BY Zenon DEF PolicyDirection
  <2> QED
    BY <1>3, <2>1, <2>2
<1> QED
  BY <1>1, <1>2, <1>3

\* An ID that a name was looked up to has that name in the revision it was looked up in.
LEMMA LookedUp ==
    ASSUME NEW rev \in Nat, NEW table, IDsOf(table) \subseteq Rows(rev), NEW name,
           NEW id \in OptionalIDs(table, name)
    PROVE  NameIn(table, id) = name
<1>1. NoID \notin IDsOf(table)
  BY RowID
<1>2. CASE name = ""
  <2>1. id = NoID
    BY <1>2 DEF OptionalIDs
  <2> QED
    BY <1>1, <1>2, <2>1 DEF NameIn
<1>3. CASE name # ""
  <2>1. PICK y \in table : y.id = id /\ Name(y.id) = name
    BY <1>3 DEF OptionalIDs, IDsOf, Named
  <2>2. id \in IDsOf(table)
    BY <2>1 DEF IDsOf
  <2> QED
    BY <2>1, <2>2 DEF NameIn
<1> QED
  BY <1>2, <1>3

\* It has no name in another revision.
LEMMA LookedUpNext ==
    ASSUME NEW rev \in Nat, NEW next \in Nat, next # rev,
           NEW table, IDsOf(table) \subseteq Rows(rev), NEW name,
           NEW id \in OptionalIDs(table, name),
           NEW copy, IDsOf(copy) \subseteq Rows(next)
    PROVE  NameIn(copy, id) = ""
<1>1. id = NoID \/ id \in IDsOf(table)
  BY DEF OptionalIDs, IDsOf, Named
<1>2. CASE id = NoID
  <2>1. NoID \notin IDsOf(copy)
    BY RowID
  <2> QED
    BY <1>2, <2>1 DEF NameIn
<1>3. CASE id \in IDsOf(table)
  <2>1. id[1] = rev
    BY <1>3, RowID
  <2>2. \A z \in IDsOf(copy) : z[1] = next
    BY RowID
  <2>3. id \notin IDsOf(copy)
    BY <2>1, <2>2
  <2> QED
    BY <2>3 DEF NameIn
<1> QED
  BY <1>1, <1>2, <1>3

Erased(s) == [s EXCEPT !.route = "", !.provider = ""]
ScopeRecords == [route : STRING, provider : STRING, model : STRING, direction : STRING]

LEMMA ErasedScope ==
    ASSUME NEW scope \in ScopeRecords
    PROVE  Erased(scope) = [route |-> "", provider |-> "", model |-> scope.model,
                            direction |-> scope.direction]
<1>1. PICK provider, model, direction :
          provider = scope.provider /\ model = scope.model /\ direction = scope.direction
  OBVIOUS
<1>2. PICK none : none = ""
  OBVIOUS
<1>3. PICK y : y = [scope EXCEPT !.route = none]
  OBVIOUS
<1>4. y = [route |-> none, provider |-> provider, model |-> model, direction |-> direction]
  BY <1>1, <1>3 DEF ScopeRecords
<1>5. [y EXCEPT !.provider = none]
          = [route |-> none, provider |-> none, model |-> model, direction |-> direction]
  BY <1>4
<1>6. [scope EXCEPT !.route = none, !.provider = none] = [y EXCEPT !.provider = none]
  BY <1>3 DEF ScopeRecords
<1>7. Erased(scope) = [scope EXCEPT !.route = none, !.provider = none]
  BY <1>2, Zenon DEF Erased
<1> QED
  BY <1>1, <1>2, <1>5, <1>6, <1>7

\* The routes and providers of a revision have IDs of it.
LEMMA OwnIDs ==
    ASSUME NEW rev \in Nat, NEW rows \in Contents(rev)
    PROVE  IDsOf(rows.routes) \subseteq Rows(rev) /\ IDsOf(rows.providers) \subseteq Rows(rev)
<1>1. \A y \in rows.routes : y.id \in Rows(rev)
  BY DEF Contents, RouteRows
<1>2. \A y \in rows.providers : y.id \in Rows(rev)
  BY DEF Contents, ProviderRows
<1> QED
  BY <1>1, <1>2 DEF IDsOf

\* A scope comes back from the revision its names were looked up in as it was submitted.
LEMMA ScopeKeptNames ==
    ASSUME NEW rev \in Nat, NEW rows \in Contents(rev), NEW scope \in ScopeRecords,
           scope.direction \in {"", "input", "output"}, NEW s \in ScopeIDs(rows, scope)
    PROVE  KeptScope(rows, s) = scope
<1>1. PICK route \in OptionalIDs(rows.routes, scope.route),
           provider \in OptionalIDs(rows.providers, scope.provider) :
          s = [route |-> route, provider |-> provider, model |-> scope.model,
               direction |-> scope.direction]
  BY DEF ScopeIDs
<1>2. IDsOf(rows.routes) \subseteq Rows(rev) /\ IDsOf(rows.providers) \subseteq Rows(rev)
  BY OwnIDs
<1>3. PICK routes, providers, r, p :
          /\ routes = rows.routes /\ providers = rows.providers
          /\ r = scope.route /\ p = scope.provider
  OBVIOUS
<1>4. NameIn(routes, route) = r
  BY <1>2, <1>3, LookedUp
<1>5. NameIn(providers, provider) = p
  BY <1>2, <1>3, LookedUp
<1>6. PolicyDirection(StorageDirection(scope.direction)) = scope.direction
  BY DirectionKept
<1>7. /\ s.route = route /\ s.provider = provider /\ s.model = scope.model
      /\ s.direction = scope.direction
  BY <1>1
<1>8. KeptScope(rows, s) = [route |-> r, provider |-> p,
                            model |-> scope.model, direction |-> scope.direction]
  BY <1>3, <1>4, <1>5, <1>6, <1>7, Zenon DEF KeptScope
<1>9. scope = [route |-> r, provider |-> p,
               model |-> scope.model, direction |-> scope.direction]
  BY <1>3 DEF ScopeRecords
<1> QED
  BY <1>8, <1>9

\* From another revision every scope comes back without its names.
ScopesLoseNames(rows, c) ==
    \A scope \in ScopeRecords : scope.direction \in {"", "input", "output"} =>
        \A s \in ScopeIDs(rows, scope) : KeptScope(c, s) = Erased(scope)
LEMMA ScopeLosesNames ==
    ASSUME NEW rev \in Nat, NEW next \in Nat, next # rev,
           NEW rows \in Contents(rev), NEW c \in Contents(next)
    PROVE  ScopesLoseNames(rows, c)
<1> SUFFICES ASSUME NEW scope \in ScopeRecords, scope.direction \in {"", "input", "output"},
                    NEW s \in ScopeIDs(rows, scope)
             PROVE  KeptScope(c, s) = Erased(scope)
  BY DEF ScopesLoseNames
<1>1. PICK route \in OptionalIDs(rows.routes, scope.route),
           provider \in OptionalIDs(rows.providers, scope.provider) :
          s = [route |-> route, provider |-> provider, model |-> scope.model,
               direction |-> scope.direction]
  BY DEF ScopeIDs
<1>2. IDsOf(rows.routes) \subseteq Rows(rev) /\ IDsOf(rows.providers) \subseteq Rows(rev)
  BY OwnIDs
<1>3. IDsOf(c.routes) \subseteq Rows(next) /\ IDsOf(c.providers) \subseteq Rows(next)
  BY OwnIDs
<1>4. PICK routes, providers, r, p :
          /\ routes = rows.routes /\ providers = rows.providers
          /\ r = scope.route /\ p = scope.provider
  OBVIOUS
<1>5. NameIn(c.routes, route) = ""
  BY <1>2, <1>4, <1>3, LookedUpNext
<1>6. NameIn(c.providers, provider) = ""
  BY <1>2, <1>4, <1>3, LookedUpNext
<1>7. PolicyDirection(StorageDirection(scope.direction)) = scope.direction
  BY DirectionKept
<1>8. /\ s.route = route /\ s.provider = provider /\ s.model = scope.model
      /\ s.direction = scope.direction
  BY <1>1
<1>9. KeptScope(c, s) = [route |-> "", provider |-> "", model |-> scope.model,
                         direction |-> scope.direction]
  BY <1>5, <1>6, <1>7, <1>8, Zenon DEF KeptScope
<1>10. Erased(scope) = [route |-> "", provider |-> "", model |-> scope.model,
                        direction |-> scope.direction]
  BY ErasedScope
<1> QED
  BY <1>9, <1>10

\* A bundle, stored from the rows its names were looked up in, as c has it.
KeptBundle(c, B) == [key |-> B.key, action |-> B.action, detectors |-> B.detectors,
                     rules |-> {KeptRule(c, r) : r \in B.rules}]
Sent(r, scopes) == [key |-> r.key, enabled |-> r.enabled, action |-> r.action,
                    detectors |-> r.detectors, scopes |-> scopes]

\* Every scope of the bundle is found in the rows; c has each as told says.
ScopesFound(rows, b) == \A r \in b.rules : r.scope = NoScope \/ ScopeIDs(rows, r.scope) # {}
ScopesTold(rows, c, b, told) ==
    \A r \in b.rules : r.scope # NoScope =>
        \A s \in ScopeIDs(rows, r.scope) : KeptScope(c, s) = told[r.scope]

KeptRules(c, B) == {KeptRule(c, r) : r \in B.rules}
ToldRules(b, told) == {Sent(r, {told[s] : s \in {r.scope} \ {NoScope}}) : r \in b.rules}

\* It has the rules that were submitted, with the scopes that come back.
LEMMA RulesKept ==
    ASSUME NEW rows, NEW c, NEW b \in Bundles, ScopesFound(rows, b),
           NEW told, ScopesTold(rows, c, b, told),
           NEW B, B = PolicyBundleToPostgres(rows, b)
    PROVE  /\ B.key = b.key /\ B.action = b.action /\ B.detectors = b.detectors
           /\ KeptRules(c, B) = ToldRules(b, told)
<1> DEFINE Stored(r) == [key |-> r.key, enabled |-> r.enabled, action |-> r.action,
                         detectors |-> r.detectors,
                         scopes |-> IF r.scope = NoScope THEN {} ELSE ScopeIDs(rows, r.scope)]
           Told(r) == Sent(r, {told[s] : s \in {r.scope} \ {NoScope}})
<1>1. b \in [key : STRING, action : STRING, detectors : SUBSET STRING,
             rules : SUBSET [key : STRING, enabled : BOOLEAN, action : STRING,
                             detectors : SUBSET STRING, scope : ScopeRecords]]
  BY TrafficAssumption DEF ScopeRecords
<1>2. ASSUME NEW r \in b.rules
      PROVE  KeptRule(c, Stored(r)) = Told(r)
  <2>1. PICK scopes : scopes = IF r.scope = NoScope THEN {} ELSE ScopeIDs(rows, r.scope)
    OBVIOUS
  <2>2. {KeptScope(c, s) : s \in scopes} = {told[s] : s \in {r.scope} \ {NoScope}}
    <3>1. CASE r.scope = NoScope
      BY <2>1, <3>1
    <3>2. CASE r.scope # NoScope
      <4>1. \A s \in scopes : KeptScope(c, s) = told[r.scope]
        BY <2>1, <3>2 DEF ScopesTold
      <4>2. scopes # {}
        BY <2>1, <3>2 DEF ScopesFound
      <4> QED
        BY <3>2, <4>1, <4>2
    <3> QED
      BY <3>1, <3>2
  <2>3. PICK x : x = Stored(r)
    OBVIOUS
  <2>4. /\ x.key = r.key /\ x.enabled = r.enabled /\ x.action = r.action
        /\ x.detectors = r.detectors /\ x.scopes = scopes
    BY <2>1, <2>3
  <2>5. KeptScopes(c, x) = {told[s] : s \in {r.scope} \ {NoScope}}
    BY <2>2, <2>4, Zenon DEF KeptScopes
  <2> QED
    BY <2>3, <2>4, <2>5, Zenon DEF KeptRule, Sent
<1>3. B = [b EXCEPT !.rules = {Stored(r) : r \in b.rules}]
  BY <1>1, Zenon DEF PolicyBundleToPostgres
<1> HIDE DEF Stored, Told
<1>4. {KeptRule(c, r) : r \in {Stored(q) : q \in b.rules}} = {Told(r) : r \in b.rules}
  BY <1>2
<1>5. /\ B.key = b.key /\ B.action = b.action /\ B.detectors = b.detectors
      /\ B.rules = {Stored(r) : r \in b.rules}
  BY <1>1, <1>3
<1>6. {KeptRule(c, r) : r \in B.rules} = {Told(r) : r \in b.rules}
  BY <1>4, <1>5
<1>7. KeptRules(c, B) = ToldRules(b, told)
  BY <1>6, Zenon DEF KeptRules, ToldRules, Told
<1> QED
  BY <1>5, <1>7

\* Submitted, Forgotten and what makes them one, by the fields of the bundle.
LEMMA SubmittedFields ==
    ASSUME NEW b \in Bundles
    PROVE  /\ Submitted(b) = [key |-> b.key, action |-> b.action, detectors |-> b.detectors,
                              rules |-> {Sent(r, {r.scope} \ {NoScope}) : r \in b.rules}]
           /\ Forgotten(b) = [key |-> b.key, action |-> b.action, detectors |-> b.detectors,
                              rules |-> {Sent(r, {Erased(s) : s \in {r.scope} \ {NoScope}}) :
                                            r \in b.rules}]
<1>1. b \in [key : STRING, action : STRING, detectors : SUBSET STRING,
             rules : SUBSET [key : STRING, enabled : BOOLEAN, action : STRING,
                             detectors : SUBSET STRING, scope : ScopeRecords]]
  BY TrafficAssumption DEF ScopeRecords
<1>2. PICK rules : rules = {Sent(r, {r.scope} \ {NoScope}) : r \in b.rules}
  OBVIOUS
<1>3. Submitted(b) = [b EXCEPT !.rules = rules]
  BY <1>2, Zenon DEF Submitted, Sent
<1>4. Submitted(b) = [key |-> b.key, action |-> b.action, detectors |-> b.detectors,
                      rules |-> rules]
  BY <1>1, <1>3
<1> DEFINE Forget(r) == [r EXCEPT !.scopes = {Erased(s) : s \in @}]
<1>5. Forgotten(b) = [Submitted(b) EXCEPT !.rules = {Forget(r) : r \in @}]
  BY Zenon DEF Forgotten, Erased
<1>6. ASSUME NEW r, NEW scopes
      PROVE  Forget(Sent(r, scopes)) = Sent(r, {Erased(s) : s \in scopes})
  <2>1. PICK x, erased : x = Sent(r, scopes) /\ erased = {Erased(s) : s \in scopes}
    OBVIOUS
  <2>2. x.scopes = scopes
    BY <2>1 DEF Sent
  <2>3. Forget(x) = [x EXCEPT !.scopes = erased]
    BY <2>1, <2>2
  <2>4. [x EXCEPT !.scopes = erased] = Sent(r, erased)
    BY <2>1 DEF Sent
  <2> QED
    BY <2>1, <2>3, <2>4
<1> HIDE DEF Forget
<1>7. {Forget(r) : r \in rules}
          = {Sent(r, {Erased(s) : s \in {r.scope} \ {NoScope}}) : r \in b.rules}
  <2>1. {Forget(r) : r \in rules} = {Forget(Sent(r, {r.scope} \ {NoScope})) : r \in b.rules}
    BY <1>2
  <2> QED
    BY <1>6, <2>1
<1>8. PICK erased : erased = {Sent(r, {Erased(s) : s \in {r.scope} \ {NoScope}}) : r \in b.rules}
  OBVIOUS
<1>9. PICK sent : sent = Submitted(b)
  OBVIOUS
<1>10. sent.rules = rules
  BY <1>4, <1>9
<1>11. [sent EXCEPT !.rules = {Forget(r) : r \in @}] = [sent EXCEPT !.rules = erased]
  BY <1>7, <1>8, <1>10
<1>12. [sent EXCEPT !.rules = erased]
           = [key |-> b.key, action |-> b.action, detectors |-> b.detectors, rules |-> erased]
  BY <1>4, <1>9
<1>13. Forgotten(b)
           = [key |-> b.key, action |-> b.action, detectors |-> b.detectors, rules |-> erased]
  BY <1>5, <1>9, <1>11, <1>12
<1> QED
  BY <1>2, <1>4, <1>8, <1>13

\* A bundle comes back from the draft its names were looked up in as it was submitted.
LEMMA SubmittedKept ==
    ASSUME NEW rev \in Nat, NEW rows \in Contents(rev), NEW b \in Bundles, Validate(b),
           ScopesFound(rows, b)
    PROVE  Submitted(b) = KeptBundle(rows, PolicyBundleToPostgres(rows, b))
<1>1. PICK B : B = PolicyBundleToPostgres(rows, b)
  OBVIOUS
<1>2. PICK told : told = [s \in ScopeRecords |-> s]
  OBVIOUS
<1>3. \A r \in b.rules : r.scope \in ScopeRecords /\ r.scope.direction \in {"", "input", "output"}
  BY TrafficAssumption DEF Validate, ScopeRecords
<1>4. ASSUME NEW r \in b.rules, r.scope # NoScope, NEW s \in ScopeIDs(rows, r.scope)
      PROVE  KeptScope(rows, s) = told[r.scope]
  <2>1. r.scope \in ScopeRecords /\ r.scope.direction \in {"", "input", "output"}
    BY <1>3
  <2>2. PICK scope : scope = r.scope
    OBVIOUS
  <2>3. KeptScope(rows, s) = scope
    BY <2>1, <2>2, ScopeKeptNames
  <2> QED
    BY <1>2, <2>1, <2>2, <2>3
<1>5. ScopesTold(rows, rows, b, told)
  BY <1>4 DEF ScopesTold
<1>6. /\ B.key = b.key /\ B.action = b.action /\ B.detectors = b.detectors
      /\ KeptRules(rows, B) = ToldRules(b, told)
  BY <1>1, <1>5, RulesKept
<1>7. {KeptRule(rows, r) : r \in B.rules}
          = {Sent(r, {told[s] : s \in {r.scope} \ {NoScope}}) : r \in b.rules}
  BY <1>6, Zenon DEF KeptRules, ToldRules
<1>8. \A r \in b.rules : {told[s] : s \in {r.scope} \ {NoScope}} = {r.scope} \ {NoScope}
  BY <1>2, <1>3
<1>9. {KeptRule(rows, r) : r \in B.rules} = {Sent(r, {r.scope} \ {NoScope}) : r \in b.rules}
  BY <1>8, <1>7
<1> QED
  BY <1>1, <1>6, <1>9, SubmittedFields DEF KeptBundle

\* A bundle that makes the draft comes back without the names of its scopes.
LEMMA ForgottenKept ==
    ASSUME NEW rev \in Nat, NEW next \in Nat, next # rev,
           NEW rows \in Contents(rev), NEW c \in Contents(next),
           NEW b \in Bundles, Validate(b),
           ScopesFound(rows, b)
    PROVE  Forgotten(b) = KeptBundle(c, PolicyBundleToPostgres(rows, b))
<1>1. PICK B : B = PolicyBundleToPostgres(rows, b)
  OBVIOUS
<1>2. PICK told : told = [s \in ScopeRecords |-> Erased(s)]
  OBVIOUS
<1>3. \A r \in b.rules : r.scope \in ScopeRecords /\ r.scope.direction \in {"", "input", "output"}
  BY TrafficAssumption DEF Validate, ScopeRecords
<1>4. ScopesLoseNames(rows, c)
  BY ScopeLosesNames
<1>5. ASSUME NEW r \in b.rules, r.scope # NoScope, NEW s \in ScopeIDs(rows, r.scope)
      PROVE  KeptScope(c, s) = told[r.scope]
  <2>1. r.scope \in ScopeRecords /\ r.scope.direction \in {"", "input", "output"}
    BY <1>3
  <2>2. PICK scope : scope = r.scope
    OBVIOUS
  <2>3. /\ scope \in ScopeRecords /\ scope.direction \in {"", "input", "output"}
        /\ s \in ScopeIDs(rows, scope)
    BY <2>1, <2>2
  <2>4. KeptScope(c, s) = Erased(scope)
    BY <1>4, <2>3 DEF ScopesLoseNames
  <2> QED
    BY <1>2, <2>1, <2>2, <2>4
<1>6. ScopesTold(rows, c, b, told)
  BY <1>5 DEF ScopesTold
<1>7. /\ B.key = b.key /\ B.action = b.action /\ B.detectors = b.detectors
      /\ KeptRules(c, B) = ToldRules(b, told)
  BY <1>1, <1>6, RulesKept
<1>8. {KeptRule(c, r) : r \in B.rules}
          = {Sent(r, {told[s] : s \in {r.scope} \ {NoScope}}) : r \in b.rules}
  BY <1>7, Zenon DEF KeptRules, ToldRules
<1>9. ASSUME NEW r \in b.rules
      PROVE  {told[s] : s \in {r.scope} \ {NoScope}} = {Erased(s) : s \in {r.scope} \ {NoScope}}
  BY <1>2, <1>3
<1>10. {KeptRule(c, r) : r \in B.rules}
          = {Sent(r, {Erased(s) : s \in {r.scope} \ {NoScope}}) : r \in b.rules}
  BY <1>9, <1>8
<1> QED
  BY <1>1, <1>7, <1>10, SubmittedFields DEF KeptBundle

\* Without such names there is nothing to forget.
LEMMA NothingForgotten ==
    ASSUME NEW b \in Bundles, \A r \in b.rules : r.scope.route = "" /\ r.scope.provider = ""
    PROVE  Forgotten(b) = Submitted(b)
<1>1. ASSUME NEW r \in b.rules
      PROVE  {Erased(s) : s \in {r.scope} \ {NoScope}} = {r.scope} \ {NoScope}
  <2>1. r.scope \in ScopeRecords
    BY TrafficAssumption DEF ScopeRecords
  <2>2. Erased(r.scope) = r.scope
    BY <2>1 DEF ScopeRecords, Erased
  <2> QED
    BY <2>2
<1>2. {Sent(r, {Erased(s) : s \in {r.scope} \ {NoScope}}) : r \in b.rules}
          = {Sent(r, {r.scope} \ {NoScope}) : r \in b.rules}
  BY <1>1
<1> QED
  BY <1>2, SubmittedFields

\* The bundles that are enabled.
EnabledKeys(c) == {Name(b.id) : b \in {a \in c.bundles : a.enabled}}

\* An activation enables the bundles asked for and keeps all records.
LEMMA ActivatedMemory ==
    ASSUME NEW rev, NEW c, Consistent(rev, c), NEW keys,
           NEW k, k = UpdateDraftBundleActivation(c, keys)
    PROVE  /\ SameMemory(c, k)
           /\ EnabledKeys(k) = {Name(b.id) : b \in c.bundles} \intersect keys
<1> DEFINE On(b) == [b EXCEPT !.enabled = Name(b.id) \in keys]
<1>1. k = [c EXCEPT !.bundles = {On(b) : b \in c.bundles}]
  BY Zenon DEF UpdateDraftBundleActivation, Consistent, Contents
<1>2. c.bundles \subseteq BundleRows(rev)
  BY Columns DEF Consistent
<1>3. \A b \in c.bundles : /\ On(b).id = b.id /\ On(b).action = b.action
                           /\ On(b).enabled <=> Name(b.id) \in keys
  <2> TAKE b \in c.bundles
  <2>1. PICK e \in BOOLEAN : e = TRUE <=> Name(b.id) \in keys
    OBVIOUS
  <2>2. On(b) = [b EXCEPT !.enabled = e]
    BY <2>1
  <2>3. b \in BundleRows(rev)
    BY <1>2
  <2> QED
    BY <2>1, <2>2, <2>3 DEF BundleRows
<1> HIDE DEF On
<1>4. /\ k.bundles = {On(b) : b \in c.bundles}
      /\ k.detectors = c.detectors /\ k.rules = c.rules
      /\ k.ruleDetectors = c.ruleDetectors /\ k.ruleScopes = c.ruleScopes
      /\ k.routes = c.routes /\ k.providers = c.providers
      /\ k.mappings = c.mappings /\ k.verdictProviders = c.verdictProviders
      /\ k.limits = c.limits /\ k.overrides = c.overrides
  BY <1>1 DEF Consistent, Contents
<1>5. SameBundles(c, k)
  <2>1. \A r : MemoryRule(k, r) = MemoryRule(c, r)
    <3>1. \A s : MemoryScope(k, s) = MemoryScope(c, s)
      BY <1>4 DEF MemoryScope
    <3> QED
      BY <1>4, <3>1 DEF MemoryRule, MemoryScopes, HydrateRuleDetectorKeys
  <2>2. \A b \in c.bundles : MemoryBundle(k, On(b)) = MemoryBundle(c, b)
    <3>1. \A id : MemoryRules(k, id) = MemoryRules(c, id)
      BY <1>4, <2>1 DEF MemoryRules
    <3>2. \A id : MemoryDetectors(k, id) = MemoryDetectors(c, id)
      BY <1>4 DEF MemoryDetectors
    <3> QED
      BY <1>3, <3>1, <3>2 DEF MemoryBundle
  <2>3. {MemoryBundle(k, b) : b \in k.bundles} = {MemoryBundle(c, b) : b \in c.bundles}
    BY <1>4, <2>2
  <2> QED
    BY <2>3, StoredTold DEF SameBundles
<1>6. EnabledKeys(k) = {Name(b.id) : b \in c.bundles} \intersect keys
  BY <1>3, <1>4 DEF EnabledKeys
<1> QED
  BY <1>4, <1>5, <1>6
     DEF SameMemory, SameMappings, SameVerdictProviders, SameLimits, SameOverrides

\* What the in-memory repository holds changes with the rows only.
LEMMA MemoryRows ==
    /\ StoredBundles(CurrentRows)' = StoredBundles(CurrentRows')
    /\ {Name(b.id) : b \in {a \in active.rows.bundles : a.enabled}} = EnabledKeys(active.rows)
    /\ {Name(b.id) : b \in {a \in active.rows.bundles : a.enabled}}' = EnabledKeys(active'.rows)
BY DEF EnabledKeys

\* An edit leaves the active revision and makes one of the contents current.
LEMMA EditedRows ==
    ASSUME NEW d, NEW contents, WithDraftRevision(d, contents)
    PROVE  active' = active /\ CurrentRows' \in contents
<1>1. PICK rows \in contents : draft' = {[rev |-> d.rev, rows |-> rows]}
  BY DEF WithDraftRevision
<1>2. (CHOOSE e \in draft' : TRUE) = [rev |-> d.rev, rows |-> rows]
  BY <1>1
<1>3. CurrentRows' = rows
  BY <1>1, <1>2 DEF CurrentRows
<1> QED
  BY <1>3 DEF WithDraftRevision

\* PutModelMapping is that of the in-memory repository.
LEMMA MappingRefines ==
    ASSUME RowsInv, NEW m \in Mappings, PutModelMapping(m)
    PROVE  Memory!PutModelMapping(m)
<1>1. PICK d \in Drafts : WithDraftRevision(d, UpsertModelMapping(d.rows, d.rev, m))
  BY DEF PutModelMapping
<1>2. PICK c, k : c = CurrentRows /\ k = CurrentRows'
  OBVIOUS
<1>3. active' = active /\ k \in UpsertModelMapping(d.rows, d.rev, m)
  BY <1>1, <1>2, EditedRows
<1>4. Consistent(d.rev, d.rows) /\ SameMemory(c, d.rows)
  BY <1>2, DraftMemory
<1>5. /\ {MemoryMapping(x) : x \in k.mappings}
            = Memory!Set({MemoryMapping(x) : x \in d.rows.mappings}, m,
                         {y \in {MemoryMapping(x) : x \in d.rows.mappings} : y.key = m.key})
      /\ SameBundles(d.rows, k) /\ SameVerdictProviders(d.rows, k) /\ SameLimits(d.rows, k)
      /\ SameOverrides(d.rows, k)
  BY <1>3, <1>4, UpsertedMapping
<1>6. {MemoryMapping(x) : x \in d.rows.mappings} = {MemoryMapping(x) : x \in c.mappings}
  BY <1>4 DEF SameMemory, SameMappings
<1>7. {MemoryMapping(x) : x \in k.mappings}
          = Memory!Set({MemoryMapping(x) : x \in c.mappings}, m,
                       {y \in {MemoryMapping(x) : x \in c.mappings} : y.key = m.key})
  BY <1>5, <1>6
<1>8. SameBundles(c, k) /\ SameVerdictProviders(c, k) /\ SameLimits(c, k) /\ SameOverrides(c, k)
  BY <1>4, <1>5 DEF SameMemory, SameBundles, SameVerdictProviders, SameLimits, SameOverrides
<1> QED
  BY <1>2, <1>3, <1>7, <1>8, MemoryRows
     DEF Memory!PutModelMapping, MemoryMapping, SameBundles, SameVerdictProviders,
         MemoryVerdictProvider, SameLimits, MemoryLimit, SameOverrides, MemoryOverride

\* PutVerdictProvider is that of the in-memory repository, of the provider as it is filed.
LEMMA VerdictProviderRefines ==
    ASSUME RowsInv, NEW v \in VerdictProviders, PutVerdictProvider(v)
    PROVE  Memory!PutVerdictProvider(Filed(v))
<1>1. PICK d \in Drafts :
          WithDraftRevision(d, {UpsertVerdictProvider(d.rows, d.rev, Filed(v))})
  BY DEF PutVerdictProvider
<1>2. PICK c, k, f : c = CurrentRows /\ k = CurrentRows' /\ f = Filed(v)
  OBVIOUS
<1>3. active' = active /\ k = UpsertVerdictProvider(d.rows, d.rev, f)
  BY <1>1, <1>2, EditedRows
<1>4. Consistent(d.rev, d.rows) /\ SameMemory(c, d.rows)
  BY <1>2, DraftMemory
<1>5. /\ {MemoryVerdictProvider(x) : x \in k.verdictProviders}
            = Memory!Set({MemoryVerdictProvider(x) : x \in d.rows.verdictProviders}, f,
                         {y \in {MemoryVerdictProvider(x) : x \in d.rows.verdictProviders} :
                             y.id = f.id})
      /\ SameBundles(d.rows, k) /\ SameMappings(d.rows, k) /\ SameLimits(d.rows, k)
      /\ SameOverrides(d.rows, k)
  <2>1. f \in VerdictProviderRecords /\ f.id = f.name
    BY <1>2, FiledRecord
  <2> QED
    BY <1>3, <1>4, <2>1, UpsertedVerdictProvider
<1>6. {MemoryVerdictProvider(x) : x \in d.rows.verdictProviders}
          = {MemoryVerdictProvider(x) : x \in c.verdictProviders}
  BY <1>4 DEF SameMemory, SameVerdictProviders
<1>7. {MemoryVerdictProvider(x) : x \in k.verdictProviders}
          = Memory!Set({MemoryVerdictProvider(x) : x \in c.verdictProviders}, f,
                       {y \in {MemoryVerdictProvider(x) : x \in c.verdictProviders} :
                           y.id = f.id})
  BY <1>5, <1>6
<1>8. SameBundles(c, k) /\ SameMappings(c, k) /\ SameLimits(c, k) /\ SameOverrides(c, k)
  BY <1>4, <1>5 DEF SameMemory, SameBundles, SameMappings, SameLimits, SameOverrides
<1> QED
  BY <1>2, <1>3, <1>7, <1>8, MemoryRows
     DEF Memory!PutVerdictProvider, MemoryMapping, SameBundles, SameMappings,
         MemoryVerdictProvider, SameLimits, MemoryLimit, SameOverrides, MemoryOverride

\* PutRouteLimit is that of the in-memory repository.
LEMMA LimitRefines ==
    ASSUME RowsInv, NEW l \in Limits, PutRouteLimit(l)
    PROVE  Memory!PutRouteLimit(l)
<1>1. PICK route \in IDsOf(Named(CurrentRows.routes, l.route)) : \E d \in Drafts :
          WithDraftRevision(d, UpsertRoutePolicy(d.rows, route, l.enabled))
  BY DEF PutRouteLimit
<1>2. PICK d \in Drafts : WithDraftRevision(d, UpsertRoutePolicy(d.rows, route, l.enabled))
  BY <1>1
<1>3. PICK c, k : c = CurrentRows /\ k = CurrentRows'
  OBVIOUS
<1>4. /\ active' = active /\ k \in UpsertRoutePolicy(d.rows, route, l.enabled)
      /\ route \in IDsOf(Named(c.routes, l.route))
  BY <1>1, <1>2, <1>3, EditedRows
<1>5. Consistent(d.rev, d.rows) /\ SameMemory(c, d.rows)
  BY <1>3, DraftMemory
<1>6. /\ {MemoryLimit(x) : x \in k.limits}
            = Memory!Set({MemoryLimit(x) : x \in d.rows.limits}, l,
                         {y \in {MemoryLimit(x) : x \in d.rows.limits} : y.route = l.route})
      /\ SameBundles(d.rows, k) /\ SameMappings(d.rows, k) /\ SameVerdictProviders(d.rows, k)
      /\ SameOverrides(d.rows, k)
  BY <1>4, <1>5, UpsertedLimit
<1>7. {MemoryLimit(x) : x \in d.rows.limits} = {MemoryLimit(x) : x \in c.limits}
  BY <1>5 DEF SameMemory, SameLimits
<1>8. {MemoryLimit(x) : x \in k.limits}
          = Memory!Set({MemoryLimit(x) : x \in c.limits}, l,
                       {y \in {MemoryLimit(x) : x \in c.limits} : y.route = l.route})
  BY <1>6, <1>7
<1>9. SameBundles(c, k) /\ SameMappings(c, k) /\ SameVerdictProviders(c, k) /\ SameOverrides(c, k)
  BY <1>5, <1>6 DEF SameMemory, SameBundles, SameMappings, SameVerdictProviders, SameOverrides
<1> QED
  BY <1>3, <1>4, <1>8, <1>9, MemoryRows
     DEF Memory!PutRouteLimit, MemoryMapping, SameBundles, SameMappings, SameVerdictProviders,
         MemoryVerdictProvider, MemoryLimit, SameOverrides, MemoryOverride

\* The client of an override is known to the in-memory repository.
LEMMA ClientKnown ==
    ASSUME NEW client \in Clients
    PROVE  Memory!KnownClient(client)
<1>1. [id |-> client] \in {[id |-> x] : x \in Clients} /\ [id |-> client].id = client
  OBVIOUS
<1> QED
  BY <1>1 DEF Memory!KnownClient

\* PutClientRouteLimit is that of the in-memory repository.
LEMMA OverrideRefines ==
    ASSUME RowsInv, NEW o \in Overrides, PutClientRouteLimit(o)
    PROVE  Memory!PutClientRouteLimit(o)
<1>1. PICK route \in IDsOf(Named(CurrentRows.routes, o.route)) : \E d \in Drafts :
          WithDraftRevision(d, UpsertClientRouteOverride(d.rows, o.client, route, o.enabled))
  BY DEF PutClientRouteLimit
<1>2. PICK d \in Drafts :
          WithDraftRevision(d, UpsertClientRouteOverride(d.rows, o.client, route, o.enabled))
  BY <1>1
<1>3. PICK c, k : c = CurrentRows /\ k = CurrentRows'
  OBVIOUS
<1>4. /\ active' = active
      /\ k \in UpsertClientRouteOverride(d.rows, o.client, route, o.enabled)
      /\ route \in IDsOf(Named(c.routes, o.route))
  BY <1>1, <1>2, <1>3, EditedRows
<1>5. Consistent(d.rev, d.rows) /\ SameMemory(c, d.rows)
  BY <1>3, DraftMemory
<1>6. /\ {MemoryOverride(x) : x \in k.overrides}
            = Memory!Set({MemoryOverride(x) : x \in d.rows.overrides}, o,
                         {y \in {MemoryOverride(x) : x \in d.rows.overrides} :
                             y.client = o.client /\ y.route = o.route})
      /\ SameBundles(d.rows, k) /\ SameMappings(d.rows, k) /\ SameVerdictProviders(d.rows, k)
      /\ SameLimits(d.rows, k)
  BY <1>4, <1>5, UpsertedOverride
<1>7. {MemoryOverride(x) : x \in d.rows.overrides} = {MemoryOverride(x) : x \in c.overrides}
  BY <1>5 DEF SameMemory, SameOverrides
<1>8. {MemoryOverride(x) : x \in k.overrides}
          = Memory!Set({MemoryOverride(x) : x \in c.overrides}, o,
                       {y \in {MemoryOverride(x) : x \in c.overrides} :
                           y.client = o.client /\ y.route = o.route})
  BY <1>6, <1>7
<1>9. SameBundles(c, k) /\ SameMappings(c, k) /\ SameVerdictProviders(c, k) /\ SameLimits(c, k)
  BY <1>5, <1>6 DEF SameMemory, SameBundles, SameMappings, SameVerdictProviders, SameLimits
<1>10. Memory!KnownClient(o.client)
  BY ClientKnown DEF PutClientRouteLimit
<1> QED
  BY <1>3, <1>4, <1>8, <1>9, <1>10, MemoryRows
     DEF Memory!PutClientRouteLimit, MemoryMapping, SameBundles, SameMappings,
         SameVerdictProviders, MemoryVerdictProvider, SameLimits, MemoryLimit, MemoryOverride

\* DeleteClientRouteLimit is that of the in-memory repository.
LEMMA DeletionRefines ==
    ASSUME RowsInv, NEW o \in Overrides, DeleteClientRouteLimit(o)
    PROVE  Memory!DeleteClientRouteLimit(o.client, o.route)
<1>1. PICK route \in IDsOf(Named(CurrentRows.routes, o.route)) : \E d \in Drafts :
          WithDraftRevision(d, DeleteClientRouteOverride(d.rows, o.client, route))
  BY DEF DeleteClientRouteLimit
<1>2. PICK d \in Drafts :
          WithDraftRevision(d, DeleteClientRouteOverride(d.rows, o.client, route))
  BY <1>1
<1>3. PICK c, k : c = CurrentRows /\ k = CurrentRows'
  OBVIOUS
<1>4. /\ active' = active
      /\ k \in DeleteClientRouteOverride(d.rows, o.client, route)
      /\ route \in IDsOf(Named(c.routes, o.route))
  BY <1>1, <1>2, <1>3, EditedRows
<1>5. Consistent(d.rev, d.rows) /\ SameMemory(c, d.rows)
  BY <1>3, DraftMemory
<1>6. /\ {MemoryOverride(x) : x \in k.overrides}
            = {y \in {MemoryOverride(x) : x \in d.rows.overrides} :
                  ~ (y.client = o.client /\ y.route = o.route)}
      /\ SameBundles(d.rows, k) /\ SameMappings(d.rows, k) /\ SameVerdictProviders(d.rows, k)
      /\ SameLimits(d.rows, k)
  BY <1>4, <1>5, DeletedOverride
<1>7. {MemoryOverride(x) : x \in d.rows.overrides} = {MemoryOverride(x) : x \in c.overrides}
  BY <1>5 DEF SameMemory, SameOverrides
<1>8. {MemoryOverride(x) : x \in k.overrides}
          = {y \in {MemoryOverride(x) : x \in c.overrides} :
                ~ (y.client = o.client /\ y.route = o.route)}
  BY <1>6, <1>7
<1>9. SameBundles(c, k) /\ SameMappings(c, k) /\ SameVerdictProviders(c, k) /\ SameLimits(c, k)
  BY <1>5, <1>6 DEF SameMemory, SameBundles, SameMappings, SameVerdictProviders, SameLimits
<1>10. Memory!KnownClient(o.client)
  BY ClientKnown DEF DeleteClientRouteLimit
<1> QED
  BY <1>3, <1>4, <1>8, <1>9, <1>10, MemoryRows
     DEF Memory!DeleteClientRouteLimit, MemoryMapping, SameBundles, SameMappings,
         SameVerdictProviders, MemoryVerdictProvider, SameLimits, MemoryLimit, MemoryOverride

\* A bundle that is stored in a copy of c, as the copy has it.
LEMMA BundleTold ==
    ASSUME NEW rev, NEW rows, Consistent(rev, rows), NEW c, SameMemory(c, rows), NEW B,
           NEW k \in UpsertBundle(rows, rev, B), NEW told, told = KeptBundle(rows, B)
    PROVE  /\ StoredBundles(k) = Memory!Set(StoredBundles(c), told,
                                            {x \in StoredBundles(c) : x.key = told.key})
           /\ SameMappings(c, k) /\ SameVerdictProviders(c, k) /\ SameLimits(c, k)
           /\ SameOverrides(c, k)
<1>1. told = [key |-> B.key, action |-> B.action, detectors |-> B.detectors,
               rules |-> {KeptRule(rows, r) : r \in B.rules}]
  BY DEF KeptBundle
<1>2. /\ StoredBundles(k) = Memory!Set(StoredBundles(rows), told,
                                       {x \in StoredBundles(rows) : x.key = told.key})
      /\ SameMappings(rows, k) /\ SameVerdictProviders(rows, k) /\ SameLimits(rows, k)
      /\ SameOverrides(rows, k)
  BY <1>1, UpsertedBundle
<1>3. StoredBundles(k) = Memory!Set(StoredBundles(c), told,
                                    {x \in StoredBundles(c) : x.key = told.key})
  BY <1>2 DEF SameMemory, SameBundles
<1>4. SameMappings(c, k) /\ SameVerdictProviders(c, k) /\ SameLimits(c, k) /\ SameOverrides(c, k)
  BY <1>2 DEF SameMemory, SameMappings, SameVerdictProviders, SameLimits, SameOverrides
<1> QED
  BY <1>3, <1>4

\* CreatePolicyBundle is that of the in-memory repository, of the bundle as it was
\* submitted, unless it makes the draft and a scope of it names a route or a provider.
LEMMA BundleRefines ==
    ASSUME RowsInv, NEW b \in Bundles, CreatePolicyBundle(b)
    PROVE  Memory!CreatePolicyBundle(Submitted(b)) \/ ScopeForgotten
<1>1. PICK c, k : c = CurrentRows /\ k = CurrentRows'
  OBVIOUS
<1>2. Validate(b) /\ ScopesFound(c, b)
  BY <1>1 DEF CreatePolicyBundle, ScopesFound
<1>3. PICK B : B = PolicyBundleToPostgres(c, b)
  OBVIOUS
<1>4. PICK d \in Drafts : WithDraftRevision(d, UpsertBundle(d.rows, d.rev, B))
  BY <1>1, <1>3 DEF CreatePolicyBundle
<1>5. active' = active /\ k \in UpsertBundle(d.rows, d.rev, B)
  BY <1>1, <1>4, EditedRows
<1>6. Consistent(d.rev, d.rows) /\ SameMemory(c, d.rows)
  BY <1>1, DraftMemory
<1>7. ASSUME NEW told, told = KeptBundle(d.rows, B)
      PROVE  Memory!CreatePolicyBundle(told)
  <2>1. /\ StoredBundles(k) = Memory!Set(StoredBundles(c), told,
                                         {x \in StoredBundles(c) : x.key = told.key})
        /\ SameMappings(c, k) /\ SameVerdictProviders(c, k) /\ SameLimits(c, k)
        /\ SameOverrides(c, k)
    BY <1>5, <1>6, <1>7, BundleTold
  <2> QED
    BY <1>1, <1>5, <2>1, MemoryRows
       DEF Memory!CreatePolicyBundle, MemoryMapping, SameMappings, SameVerdictProviders,
           MemoryVerdictProvider, SameLimits, MemoryLimit, SameOverrides, MemoryOverride
<1>8. CASE draft # {}
  <2>1. d \in draft /\ draft = {d}
    BY <1>8 DEF Drafts, RowsInv
  <2>2. (CHOOSE e \in draft : TRUE) = d
    BY <2>1
  <2>3. c = d.rows
    BY <1>1, <1>8, <2>2 DEF CurrentRows
  <2>4. PICK rev \in Nat : c \in Contents(rev)
    BY <1>1, CurrentConsistent
  <2>5. Submitted(b) = KeptBundle(d.rows, B)
    BY <1>2, <1>3, <2>3, <2>4, SubmittedKept
  <2> QED
    BY <1>7, <2>5
<1>9. CASE draft = {}
  <2>1. PICK rev, next : rev = active.rev /\ next = active.rev + 1
    OBVIOUS
  <2>2. c \in Contents(rev) /\ rev \in Nat
    BY <1>1, <1>9, <2>1 DEF CurrentRows, RowsInv, Consistent
  <2>3. d.rows \in Contents(next) /\ next \in Nat /\ next # rev
    BY <1>9, <2>1, DraftsConsistent DEF Consistent, RowsInv
  <2>4. Forgotten(b) = KeptBundle(d.rows, B)
    BY <1>2, <1>3, <2>2, <2>3, ForgottenKept
  <2>5. Memory!CreatePolicyBundle(Forgotten(b))
    BY <1>7, <2>4
  <2>6. CASE \E r \in b.rules : r.scope.route # "" \/ r.scope.provider # ""
    BY <1>9, <2>5, <2>6 DEF ScopeForgotten
  <2>7. CASE \A r \in b.rules : r.scope.route = "" /\ r.scope.provider = ""
    BY <2>5, <2>7, NothingForgotten
  <2> QED
    BY <2>6, <2>7
<1> QED
  BY <1>8, <1>9

\* ActivatePolicyBundles is that of the in-memory repository.
LEMMA ActivationRefines ==
    ASSUME RowsInv, NEW keys, ActivatePolicyBundles(keys)
    PROVE  Memory!ActivatePolicyBundles(keys)
<1>1. PICK d \in draft :
          /\ {b.key : b \in LoadBundlesByKeys(d.rows, keys)} = keys
          /\ active' = [rev |-> d.rev, rows |-> UpdateDraftBundleActivation(d.rows, keys)]
  BY DEF ActivatePolicyBundles
<1>2. PICK c, k : c = CurrentRows /\ k = CurrentRows'
  OBVIOUS
<1>3. c = d.rows /\ Consistent(d.rev, c)
  <2>1. draft = {d} /\ Consistent(d.rev, d.rows)
    BY DEF RowsInv
  <2>2. (CHOOSE e \in draft : TRUE) = d
    BY <2>1
  <2> QED
    BY <1>2, <2>1, <2>2 DEF CurrentRows
<1>4. k = active'.rows /\ k = UpdateDraftBundleActivation(c, keys)
  BY <1>1, <1>2, <1>3 DEF ActivatePolicyBundles, CurrentRows
<1>5. SameMemory(c, k) /\ EnabledKeys(k) = {Name(b.id) : b \in c.bundles} \intersect keys
  BY <1>3, <1>4, ActivatedMemory
<1>6. keys \subseteq {Name(b.id) : b \in c.bundles}
  <2> DEFINE Loaded(b) == [key |-> Name(b.id), enabled |-> b.enabled, action |-> b.action,
                           detectors |-> HydrateDetectors(c, b), rules |-> HydrateRules(c, b)]
  <2>1. LoadBundles(c) = {Loaded(b) : b \in c.bundles}
    BY Zenon DEF LoadBundles
  <2>2. \A b : Loaded(b).key = Name(b.id)
    OBVIOUS
  <2> HIDE DEF Loaded
  <2> QED
    BY <1>1, <1>3, <2>1, <2>2 DEF LoadBundlesByKeys
<1>7. keys \subseteq {b.key : b \in StoredBundles(c)}
  <2>1. \A b : MemoryBundle(c, b).key = Name(b.id)
    BY DEF MemoryBundle
  <2> QED
    BY <1>6, <2>1, StoredTold
<1>8. EnabledKeys(active'.rows) = keys
  BY <1>4, <1>5, <1>6
<1> QED
  BY <1>2, <1>5, <1>7, <1>8, MemoryRows
     DEF Memory!ActivatePolicyBundles, MemoryMapping, SameMemory, SameBundles, SameMappings,
         SameVerdictProviders, MemoryVerdictProvider, SameLimits, MemoryLimit, SameOverrides,
         MemoryOverride

\* What leaves the revisions alone leaves the records alone.
LEMMA MemoryKept ==
    ASSUME UNCHANGED <<active, draft>>
    PROVE  UNCHANGED Memory!memoryVars
<1>1. CurrentRows' = CurrentRows
  BY DEF CurrentRows
<1> QED
  BY <1>1, MemoryRows DEF Memory!memoryVars

\* Every step is one of the in-memory repository, one of the two cases that differ
\* from it, or none.
LEMMA NextRefines ==
    ASSUME RowsInv, [Next]_vars
    PROVE  [Memory!MemoryNext \/ ScopeForgotten \/ FiledByName]_(Memory!memoryVars)
<1>1. ASSUME NEW b \in Bundles, CreatePolicyBundle(b) PROVE Memory!MemoryNext \/ ScopeForgotten
  <2>1. Memory!CreatePolicyBundle(Submitted(b)) \/ ScopeForgotten
    BY <1>1, BundleRefines
  <2> QED
    BY <2>1 DEF Memory!MemoryNext
<1>2. ASSUME NEW m \in Mappings, PutModelMapping(m) PROVE Memory!MemoryNext
  BY <1>2, MappingRefines DEF Memory!MemoryNext
<1>3. ASSUME NEW v \in VerdictProviders, PutVerdictProvider(v)
      PROVE  Memory!MemoryNext \/ FiledByName
  <2>1. Memory!PutVerdictProvider(Filed(v))
    BY <1>3, VerdictProviderRefines
  <2>2. CASE Filed(v) = v
    BY <2>1, <2>2 DEF Memory!MemoryNext
  <2>3. CASE Filed(v) # v
    BY <2>1, <2>3 DEF FiledByName
  <2> QED
    BY <2>2, <2>3
<1>4. ASSUME NEW l \in Limits, PutRouteLimit(l) PROVE Memory!MemoryNext
  BY <1>4, LimitRefines DEF Memory!MemoryNext
<1>5. ASSUME NEW o \in Overrides, PutClientRouteLimit(o) PROVE Memory!MemoryNext
  BY <1>5, OverrideRefines DEF Memory!MemoryNext
<1>6. ASSUME NEW o \in Overrides, DeleteClientRouteLimit(o) PROVE Memory!MemoryNext
  BY <1>6, DeletionRefines DEF Memory!MemoryNext
<1>7. ASSUME NEW keys \in ActivationKeys, ActivatePolicyBundles(keys) PROVE Memory!MemoryNext
  BY <1>7, ActivationRefines DEF Memory!MemoryNext
<1>8. CASE Reload
  BY <1>8, MemoryKept DEF Reload
<1>9. CASE EvaluateSome
  BY <1>9, EvaluationServes, MemoryKept
<1>10. CASE ExchangeEnds
  BY <1>10, MemoryKept DEF ExchangeEnds
<1>11. CASE UNCHANGED vars
  BY <1>11, MemoryKept DEF vars
<1> QED
  BY <1>1, <1>2, <1>3, <1>4, <1>5, <1>6, <1>7, <1>8, <1>9, <1>10, <1>11 DEF Next

\* The database with its drafts, clones and activations implements the in-memory
\* repository but for a bundle that makes the draft, which loses the routes and
\* providers of its scopes, and a verdict provider, which is filed under its name: no
\* request changes a record but the one it names so, and neither a clone nor an
\* activation loses or alters one (memory.go, postgres_policy_adapter.go,
\* postgres_verdict_adapter.go).
THEOREM RevisionsRefineMemory == Spec => ImplementsMemory
<1>1. RowsInv /\ [Next]_vars
          => [Memory!MemoryNext \/ ScopeForgotten \/ FiledByName]_(Memory!memoryVars)
  BY NextRefines
<1> QED
  BY <1>1, RowsConsistent, PTL DEF Spec, ImplementsMemory
=============================================================================
