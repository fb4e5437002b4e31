-------------------------- MODULE RevisionContents --------------------------
(***************************************************************************)
(* The records of one configuration revision: how they are copied into a   *)
(* draft, changed by the control requests, and loaded again                *)
(* (policy/adapters/postgres, routing/adapters/postgres,                   *)
(* clients/adapters/postgres/limit, traffic/adapters/postgres/             *)
(* observability, configstore/revision_clone_orchestration.go).            *)
(*                                                                         *)
(* The content of a revision is a record with one set of rows per table.   *)
(* Names are unique within a revision and a copied row gets a new ID, so   *)
(* an ID is <<revision, name>>, or <<revision, bundle, name>> for a        *)
(* detector or a rule.  NoID is a null reference.  Columns that only       *)
(* travel (URLs, timeouts, patterns, descriptions) are left out.           *)
(***************************************************************************)
EXTENDS Integers, Sequences, FiniteSets

NoID    == <<>>
Missing == <<0>>        \* the error of a remap, as a value no row has
Name(id) == id[Len(id)]

IDsOf(table) == {row.id : row \in table}
Named(table, name) == {row \in table : Name(row.id) = name}

-----------------------------------------------------------------------------
(* The tables of a revision (configstore/migrations).  The schema lets a   *)
(* reference name a row of any revision; that only those of a scope leave  *)
(* their own is what the requests and the clone see to, and proved of them *)
(* in ConfiguredTrafficProofs.                                             *)

Rows(rev)  == {rev} \X STRING
Items(rev) == {rev} \X STRING \X STRING

\* The columns of each table.
Optional(ids) == ids \union {NoID}

ProviderRows(rev) == [id : Rows(rev), credential : BOOLEAN]
MappingRows(rev) ==
    [id : Rows(rev), target : Optional(Rows(rev)), model : STRING, routeKey : STRING,
     provider : STRING, enabled : BOOLEAN]
RouteRows(rev) ==
    [id : Rows(rev), enabled : BOOLEAN, mapping : Optional(Rows(rev)), provider : STRING,
     execution : {"inline", "async_shadow"}, fallback : {"allow", "block", "shadow_log"},
     upstream : STRING]
LimitRows(rev) == [route : Rows(rev), enabled : BOOLEAN]
OverrideRows(rev) == [client : STRING, route : Rows(rev), enabled : BOOLEAN]
VerdictProviderRows(rev) ==
    [id : Rows(rev), endpoint : BOOLEAN, enabled : BOOLEAN, credential : BOOLEAN]
VerdictBindingRows(rev) ==
    [route : Rows(rev), provider : Rows(rev), enabled : BOOLEAN,
     execution : {"inline", "async_shadow"}, priority : Nat]
BundleRows(rev) ==
    [id : Rows(rev), enabled : BOOLEAN, action : {"allow", "block", "redact", "shadow_log"}]
DetectorRows(rev) == [id : Items(rev), bundle : Rows(rev), enabled : BOOLEAN]
RuleRows(rev) ==
    [id : Items(rev), bundle : Rows(rev), enabled : BOOLEAN,
     action : {"allow", "block", "redact", "shadow_log"}]
RuleDetectorRows(rev) == [rule : Items(rev), detector : Items(rev)]
RuleScopeRows(rev) ==
    [rule : Items(rev), route : Optional(Nat \X STRING), provider : Optional(Nat \X STRING),
     model : STRING, direction : {"request", "response", "both"}]
RouteBindingRows(rev) == [route : Rows(rev), bundle : Rows(rev)]
SinkRows(rev) == [id : Rows(rev), enabled : BOOLEAN]
RetentionRows(rev) == [name : STRING, sink : Optional(Rows(rev))]
RawCaptureRows(rev) ==
    [route : Optional(Rows(rev)), direction : {"request", "response", "both"},
     enabled : BOOLEAN]

Contents(rev) ==
    [providers        : SUBSET ProviderRows(rev),
     mappings         : SUBSET MappingRows(rev),
     routes           : SUBSET RouteRows(rev),
     limits           : SUBSET LimitRows(rev),
     overrides        : SUBSET OverrideRows(rev),
     verdictProviders : SUBSET VerdictProviderRows(rev),
     verdictBindings  : SUBSET VerdictBindingRows(rev),
     bundles          : SUBSET BundleRows(rev),
     detectors        : SUBSET DetectorRows(rev),
     rules            : SUBSET RuleRows(rev),
     ruleDetectors    : SUBSET RuleDetectorRows(rev),
     ruleScopes       : SUBSET RuleScopeRows(rev),
     routeBindings    : SUBSET RouteBindingRows(rev),
     sinks            : SUBSET SinkRows(rev),
     retention        : SUBSET RetentionRows(rev),
     rawCapture       : SUBSET RawCaptureRows(rev)]

\* The foreign keys, of a scope only that to its rule; and a rule and its
\* detectors are of one bundle.
ForeignKeys(c) ==
    /\ \A m \in c.mappings : m.target \in Optional(IDsOf(c.providers))
    /\ \A r \in c.routes : r.mapping \in Optional(IDsOf(c.mappings))
    /\ \A l \in c.limits \union c.overrides \union c.verdictBindings \union c.routeBindings :
          l.route \in IDsOf(c.routes)
    /\ \A b \in c.verdictBindings : b.provider \in IDsOf(c.verdictProviders)
    /\ \A b \in c.routeBindings : b.bundle \in IDsOf(c.bundles)
    /\ \A x \in c.detectors \union c.rules :
          x.bundle \in IDsOf(c.bundles) /\ x.bundle = <<x.id[1], x.id[2]>>
    /\ \A x \in c.ruleDetectors : /\ x.rule \in IDsOf(c.rules)
                                  /\ x.detector \in IDsOf(c.detectors)
                                  /\ x.rule[2] = x.detector[2]
    /\ \A s \in c.ruleScopes : s.rule \in IDsOf(c.rules)
    /\ \A p \in c.retention : p.sink \in Optional(IDsOf(c.sinks))
    /\ \A p \in c.rawCapture : p.route \in Optional(IDsOf(c.routes))

\* unique (revision_id, name); for detectors and rules (bundle_id, name).
Unique(table) == \A x, y \in table : x.id = y.id => x = y
UniqueNames(c) ==
    /\ Unique(c.providers) /\ Unique(c.mappings) /\ Unique(c.routes)
    /\ Unique(c.verdictProviders) /\ Unique(c.bundles) /\ Unique(c.detectors)
    /\ Unique(c.rules) /\ Unique(c.sinks)

-----------------------------------------------------------------------------
(* Cloning a revision into a draft.                                        *)

\* The old IDs of a table with the IDs their copies get.
Copies(table, draft) == [old \in IDsOf(table) |-> [old EXCEPT ![1] = draft]]

RemapRequired(old, ids) == IF old \in DOMAIN ids THEN ids[old] ELSE Missing
RemapOptional(old, ids) == IF old = NoID THEN NoID ELSE RemapRequired(old, ids)

CloneProviders(c, ids) ==
    {[p EXCEPT !.id = ids.providers[p.id]] : p \in c.providers}

CloneModelMappings(c, ids) ==
    {[m EXCEPT !.id = ids.mappings[m.id],
               !.target = RemapOptional(m.target, ids.providers)] : m \in c.mappings}

CloneRoutes(c, ids) ==
    {[r EXCEPT !.id = ids.routes[r.id],
               !.mapping = RemapOptional(r.mapping, ids.mappings)] : r \in c.routes}

CloneRoutePolicies(c, ids) ==
    {[l EXCEPT !.route = RemapRequired(l.route, ids.routes)] : l \in c.limits}

CloneClientRouteOverrides(c, ids) ==
    {[o EXCEPT !.route = RemapRequired(o.route, ids.routes)] : o \in c.overrides}

CloneVerdictProviders(c, ids) ==
    {[v EXCEPT !.id = ids.verdictProviders[v.id]] : v \in c.verdictProviders}

CloneRouteVerdictProviderBindings(c, ids) ==
    {[b EXCEPT !.route = RemapRequired(b.route, ids.routes),
               !.provider = RemapRequired(b.provider, ids.verdictProviders)] :
        b \in c.verdictBindings}

\* (Mutant: only the active bundles are copied.)
CloneActiveBundles(c, ids) ==
    {[b EXCEPT !.id = ids.bundles[b.id]] : b \in {a \in c.bundles : a.enabled}}
ClonePolicyBundles(c, ids) ==
    {[b EXCEPT !.id = ids.bundles[b.id]] : b \in c.bundles}

ClonePolicyDetectors(c, ids) ==
    {[d EXCEPT !.id = ids.detectors[d.id],
               !.bundle = RemapRequired(d.bundle, ids.bundles)] : d \in c.detectors}

ClonePolicyRules(c, ids) ==
    {[r EXCEPT !.id = ids.rules[r.id],
               !.bundle = RemapRequired(r.bundle, ids.bundles)] : r \in c.rules}

ClonePolicyRuleDetectors(c, ids) ==
    {[rule |-> RemapRequired(x.rule, ids.rules),
      detector |-> RemapRequired(x.detector, ids.detectors)] : x \in c.ruleDetectors}

\* (Mutant: the provider of a scope is not remapped.)
CloneScopesKeepProvider(c, ids) ==
    {[s EXCEPT !.rule = RemapRequired(s.rule, ids.rules),
               !.route = RemapOptional(s.route, ids.routes)] : s \in c.ruleScopes}
ClonePolicyRuleScopes(c, ids) ==
    {[s EXCEPT !.rule = RemapRequired(s.rule, ids.rules),
               !.route = RemapOptional(s.route, ids.routes),
               !.provider = RemapOptional(s.provider, ids.providers)] :
        s \in c.ruleScopes}

CloneRoutePolicyBindings(c, ids) ==
    {[route |-> RemapRequired(b.route, ids.routes),
      bundle |-> RemapRequired(b.bundle, ids.bundles)] : b \in c.routeBindings}

CloneSinks(c, ids) == {[s EXCEPT !.id = ids.sinks[s.id]] : s \in c.sinks}

CloneRetentionPolicies(c, ids) ==
    {[p EXCEPT !.sink = RemapOptional(p.sink, ids.sinks)] : p \in c.retention}

CloneRawCapturePolicies(c, ids) ==
    {[p EXCEPT !.route = RemapOptional(p.route, ids.routes)] : p \in c.rawCapture}

\* cloneActiveRevisionAsDraft.
CloneActive(c, draft) ==
    LET ids == [t \in {"providers", "mappings", "routes", "verdictProviders",
                       "bundles", "detectors", "rules", "sinks"} |-> Copies(c[t], draft)]
    IN  [providers        |-> CloneProviders(c, ids),
         mappings         |-> CloneModelMappings(c, ids),
         routes           |-> CloneRoutes(c, ids),
         limits           |-> CloneRoutePolicies(c, ids),
         overrides        |-> CloneClientRouteOverrides(c, ids),
         verdictProviders |-> CloneVerdictProviders(c, ids),
         bundles          |-> ClonePolicyBundles(c, ids),
         detectors        |-> ClonePolicyDetectors(c, ids),
         rules            |-> ClonePolicyRules(c, ids),
         ruleDetectors    |-> ClonePolicyRuleDetectors(c, ids),
         ruleScopes       |-> ClonePolicyRuleScopes(c, ids),
         routeBindings    |-> CloneRoutePolicyBindings(c, ids),
         verdictBindings  |-> CloneRouteVerdictProviderBindings(c, ids),
         sinks            |-> CloneSinks(c, ids),
         retention        |-> CloneRetentionPolicies(c, ids),
         rawCapture       |-> CloneRawCapturePolicies(c, ids)]

References(c) ==
    {m.target : m \in c.mappings} \union {r.mapping : r \in c.routes}
    \union {l.route : l \in c.limits \union c.overrides \union c.verdictBindings
                            \union c.routeBindings \union c.rawCapture \union c.ruleScopes}
    \union {s.provider : s \in c.verdictBindings \union c.ruleScopes}
    \union {x.bundle : x \in c.detectors \union c.rules \union c.routeBindings}
    \union {x.rule : x \in c.ruleDetectors \union c.ruleScopes}
    \union {x.detector : x \in c.ruleDetectors} \union {p.sink : p \in c.retention}

\* The clone fails, and the transaction with it, at the first ID that has no copy.
Whole(c) == Missing \notin References(c)

-----------------------------------------------------------------------------
(* The upserts of the control requests.  Those that can be refused yield   *)
(* the set of possible contents, empty when the database or the code       *)
(* returns an error.                                                       *)

\* insert ... on conflict (revision_id, name) do update.
Put(table, row) == {x \in table : x.id # row.id} \union {row}

StorageDirection(d) ==
    CASE d \in {"input", "request"} -> "request"
      [] d \in {"output", "response"} -> "response"
      [] OTHER -> "both"

\* The bundle row is put, its detectors and rules are deleted (and with them the
\* rules' detectors and scopes) and inserted again, unless two rules have one
\* name or a rule's detector is missing.
UpsertBundle(c, rev, b) ==
    LET id      == <<rev, b.key>>
        Mine(x) == x[1] = rev /\ x[2] = b.key
        RuleID(r) == <<rev, b.key, r.key>>
    IN  IF \/ \E r \in b.rules : ~ r.detectors \subseteq b.detectors
           \/ \E q, r \in b.rules : q.key = r.key /\ q # r
        THEN {}
        ELSE {[c EXCEPT
            !.bundles = Put(@, [id |-> id, enabled |-> TRUE,
                                action |-> b.action]),
            !.detectors = {d \in @ : d.bundle # id} \union
                {[id |-> <<rev, b.key, d>>, bundle |-> id, enabled |-> TRUE] : d \in b.detectors},
            !.rules = {r \in @ : r.bundle # id} \union
                {[id |-> RuleID(r), bundle |-> id, enabled |-> r.enabled, action |-> r.action] :
                    r \in b.rules},
            !.ruleDetectors = {x \in @ : ~ Mine(x.rule)} \union
                UNION {{[rule |-> RuleID(r), detector |-> <<rev, b.key, d>>] : d \in r.detectors} :
                            r \in b.rules},
            !.ruleScopes = {x \in @ : ~ Mine(x.rule)} \union
                UNION {{[rule |-> RuleID(r), route |-> s.route, provider |-> s.provider,
                         model |-> s.model, direction |-> StorageDirection(s.direction)] :
                            s \in r.scopes} : r \in b.rules}]}

UpdateDraftBundleActivation(c, keys) ==
    [c EXCEPT !.bundles = {[b EXCEPT !.enabled = Name(b.id) \in keys] : b \in @}]

\* unique (revision_id, source_model).
UpsertModelMapping(c, rev, m) ==
    LET id == <<rev, m.key>>
    IN  IF \E x \in c.mappings : x.id # id /\ x.model = m.model THEN {}
        ELSE {[c EXCEPT !.mappings =
                Put(@, [id |-> id, target |-> NoID, model |-> m.model, routeKey |-> m.routeKey,
                        provider |-> m.provider, enabled |-> m.enabled])]}

UpsertVerdictProvider(c, rev, v) ==
    [c EXCEPT !.verdictProviders =
        Put(@, [id |-> <<rev, v.name>>, endpoint |-> v.endpoint, enabled |-> v.enabled,
                    credential |-> v.credential])]

\* A route of the revision is kept, another one is looked up by its name.
RouteIDForRevision(c, route) ==
    IF route \in IDsOf(c.routes) THEN {route} ELSE IDsOf(Named(c.routes, Name(route)))

UpsertRoutePolicy(c, route, enabled) ==
    {[c EXCEPT !.limits = {l \in @ : l.route # r} \union {[route |-> r, enabled |-> enabled]}] :
        r \in RouteIDForRevision(c, route)}

UpsertClientRouteOverride(c, client, route, enabled) ==
    {[c EXCEPT !.overrides = {o \in @ : ~ (o.route = r /\ o.client = client)}
                    \union {[client |-> client, route |-> r, enabled |-> enabled]}] :
        r \in RouteIDForRevision(c, route)}

DeleteClientRouteOverride(c, client, route) ==
    {[c EXCEPT !.overrides = {o \in @ : ~ (o.route = r /\ o.client = client)}] :
        r \in RouteIDForRevision(c, route)}

-----------------------------------------------------------------------------
(* Loading the policy bundles with what belongs to them; the other tables  *)
(* are loaded row by row.                                                  *)

PolicyDirection(d) ==
    CASE d = "request" -> "input" [] d = "response" -> "output" [] OTHER -> ""

HydrateRuleDetectorKeys(c, rule) ==
    {Name(x.detector) : x \in {y \in c.ruleDetectors : y.rule = rule.id}}

HydrateRuleScopes(c, rule) ==
    {[route |-> s.route, provider |-> s.provider, model |-> s.model,
      direction |-> PolicyDirection(s.direction)] : s \in {t \in c.ruleScopes : t.rule = rule.id}}

HydrateRules(c, bundle) ==
    {[key |-> Name(r.id), enabled |-> r.enabled, action |-> r.action,
      detectors |-> HydrateRuleDetectorKeys(c, r), scopes |-> HydrateRuleScopes(c, r)] :
        r \in {s \in c.rules : s.bundle = bundle.id}}

HydrateDetectors(c, bundle) ==
    {[key |-> Name(d.id), enabled |-> d.enabled] : d \in {e \in c.detectors : e.bundle = bundle.id}}

LoadBundles(c) ==
    {[key |-> Name(b.id), enabled |-> b.enabled, action |-> b.action,
      detectors |-> HydrateDetectors(c, b), rules |-> HydrateRules(c, b)] : b \in c.bundles}

LoadBundlesByKeys(c, keys) == {b \in LoadBundles(c) : b.key \in keys}
=============================================================================
