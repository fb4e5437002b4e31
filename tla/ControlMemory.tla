---------------------------- MODULE ControlMemory ----------------------------
(***************************************************************************)
(* The control API's repository as one state behind one mutex              *)
(* (control/application/memory.go): what each request promises.  It is     *)
(* the program's own in-memory repository and the abstract specification   *)
(* of the database: ConfiguredTraffic implements it with revisions that    *)
(* are cloned and activated, ControlRequests its gateway clients with      *)
(* requests that overlap.                                                  *)
(*                                                                         *)
(* Each map is the set of its values, every value with its key.  Key       *)
(* prefixes and the numbers of generated client IDs are left out.          *)
(***************************************************************************)
EXTENDS FiniteSets

CONSTANTS
    BundleRequests, MappingRequests, VerdictProviderRequests, ClientRequests,
    LimitRequests, OverrideRequests, ActivationRequests

VARIABLES
    bundles, activeBundleKeys, modelMappings, verdictProviders, gatewayClients,
    routeLimits, clientRouteLimits

memoryVars == <<bundles, activeBundleKeys, modelMappings, verdictProviders, gatewayClients,
                routeLimits, clientRouteLimits>>

NewMemoryRepository ==
    /\ bundles = {} /\ activeBundleKeys = {} /\ modelMappings = {} /\ verdictProviders = {}
    /\ gatewayClients = {} /\ routeLimits = {} /\ clientRouteLimits = {}

\* m[key] = value, in place of the value of that key.
Set(map, value, previous) == (map \ previous) \union {value}

CreatePolicyBundle(b) ==
    /\ bundles' = Set(bundles, b, {x \in bundles : x.key = b.key})
    /\ UNCHANGED <<activeBundleKeys, modelMappings, verdictProviders, gatewayClients,
                   routeLimits, clientRouteLimits>>

ActivatePolicyBundles(keys) ==
    /\ keys \subseteq {b.key : b \in bundles}
    /\ activeBundleKeys' = keys
    /\ UNCHANGED <<bundles, modelMappings, verdictProviders, gatewayClients,
                   routeLimits, clientRouteLimits>>

PutModelMapping(m) ==
    /\ modelMappings' = Set(modelMappings, m, {x \in modelMappings : x.key = m.key})
    /\ UNCHANGED <<bundles, activeBundleKeys, verdictProviders, gatewayClients,
                   routeLimits, clientRouteLimits>>

PutVerdictProvider(v) ==
    /\ verdictProviders' = Set(verdictProviders, v, {x \in verdictProviders : x.id = v.id})
    /\ UNCHANGED <<bundles, activeBundleKeys, modelMappings, gatewayClients,
                   routeLimits, clientRouteLimits>>

CreateGatewayClient(c) ==
    /\ \A x \in gatewayClients : x.id # c.id
    /\ gatewayClients' = gatewayClients \union {c}
    /\ UNCHANGED <<bundles, activeBundleKeys, modelMappings, verdictProviders,
                   routeLimits, clientRouteLimits>>

\* A revoked client keeps its status.
PatchGatewayClient(c) ==
    /\ \E existing \in gatewayClients :
          /\ existing.id = c.id
          /\ gatewayClients' =
                Set(gatewayClients,
                    [c EXCEPT !.status = IF existing.status = "revoked" THEN "revoked" ELSE @],
                    {x \in gatewayClients : x.id = c.id})
    /\ UNCHANGED <<bundles, activeBundleKeys, modelMappings, verdictProviders,
                   routeLimits, clientRouteLimits>>

RevokeGatewayClient(id) ==
    /\ \E c \in gatewayClients :
          /\ c.id = id
          /\ gatewayClients' = Set(gatewayClients, [c EXCEPT !.status = "revoked"],
                                   {x \in gatewayClients : x.id = id})
    /\ UNCHANGED <<bundles, activeBundleKeys, modelMappings, verdictProviders,
                   routeLimits, clientRouteLimits>>

PutRouteLimit(l) ==
    /\ routeLimits' = Set(routeLimits, l, {x \in routeLimits : x.route = l.route})
    /\ UNCHANGED <<bundles, activeBundleKeys, modelMappings, verdictProviders, gatewayClients,
                   clientRouteLimits>>

KnownClient(id) == \E c \in gatewayClients : c.id = id

PutClientRouteLimit(o) ==
    /\ KnownClient(o.client)
    /\ clientRouteLimits' = Set(clientRouteLimits, o,
                {x \in clientRouteLimits : x.client = o.client /\ x.route = o.route})
    /\ UNCHANGED <<bundles, activeBundleKeys, modelMappings, verdictProviders, gatewayClients,
                   routeLimits>>

DeleteClientRouteLimit(client, route) ==
    /\ KnownClient(client)
    /\ clientRouteLimits' = {x \in clientRouteLimits : ~ (x.client = client /\ x.route = route)}
    /\ UNCHANGED <<bundles, activeBundleKeys, modelMappings, verdictProviders, gatewayClients,
                   routeLimits>>

MemoryNext ==
    \/ \E b \in BundleRequests : CreatePolicyBundle(b)
    \/ \E keys \in ActivationRequests : ActivatePolicyBundles(keys)
    \/ \E m \in MappingRequests : PutModelMapping(m)
    \/ \E v \in VerdictProviderRequests : PutVerdictProvider(v)
    \/ \E c \in ClientRequests : CreateGatewayClient(c) \/ PatchGatewayClient(c)
                                 \/ RevokeGatewayClient(c.id)
    \/ \E l \in LimitRequests : PutRouteLimit(l)
    \/ \E o \in OverrideRequests :
          PutClientRouteLimit(o) \/ DeleteClientRouteLimit(o.client, o.route)

MemorySpec == NewMemoryRepository /\ [][MemoryNext]_memoryVars
=============================================================================
