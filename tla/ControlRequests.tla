--------------------------- MODULE ControlRequests ---------------------------
(***************************************************************************)
(* Control requests that overlap (control/application/usecases.go,         *)
(* control/adapters/postgres): the edits and activations of RevisionStore, *)
(* and the requests about gateway clients, which are kept outside the      *)
(* revisions.                                                              *)
(*                                                                         *)
(* A client request looks the client up, writes in a transaction of its    *)
(* own together with the client generation, and reads the client again for *)
(* the answer.  No lock is held between the three.  A request that fails   *)
(* or is canceled stays where it is: nothing waits for it.                 *)
(***************************************************************************)
EXTENDS RevisionStore

CONSTANTS
    Ids,        \* client IDs
    Names,      \* client names, standing for all metadata
    Calls,      \* requests: each is sent once
    Operation,  \* what each of them does
    Client      \* the client it names, with the name and status it carries

ClientStatuses == {"enabled", "disabled", "revoked"}

\* GatewayClient.Validate and CreateGatewayClientRequest.NormalizeAndValidate let
\* no other status through.
ASSUME ControlAssumption ==
    /\ IsFiniteSet(Calls)
    /\ Operation \in [Calls -> {"create", "patch", "revoke"}]
    /\ Client \in [Calls -> [id : Ids, name : Names, status : ClientStatuses]]

VARIABLES
    gatewayClients, \* the rows of gateway_clients; the key is the creating call
    call            \* each call: where it is, the row it read, its answer

clientVars  == <<gatewayClients, call>>
controlVars == <<storeVars, clientVars>>

ClientRow == [id : Ids, name : Names, status : ClientStatuses, key : Calls]

\* The rows with the ID: findGatewayClient.
Found(id) == {c \in gatewayClients : c.id = id}

Answers == {"none", "created", "patched", "revoked", "exists", "notFound"}

ControlTypeOK ==
    /\ StoreTypeOK
    /\ gatewayClients \subseteq ClientRow
    /\ \A c, d \in gatewayClients : c.id = d.id => c = d
    /\ call \in [Calls -> [pc : {"start", "write", "reread", "done"},
                           existing : SUBSET ClientRow, answer : Answers]]

ControlInit ==
    /\ StoreInit
    /\ gatewayClients = {}
    /\ call = [r \in Calls |-> [pc |-> "start", existing |-> {}, answer |-> "none"]]

Answer(r, a) ==
    call' = [call EXCEPT ![r].pc = "done", ![r].answer = a]

\* Rows that are replaced have the same ID.
Store(row) == gatewayClients' = {c \in gatewayClients : c.id # row.id} \union {row}

-----------------------------------------------------------------------------
(* The lookup that each request starts with.                               *)

MayProceed(r) ==
    IF Operation[r] = "create" THEN Found(Client[r].id) = {} ELSE Found(Client[r].id) # {}

Find(r) ==
    /\ call[r].pc = "start" /\ MayProceed(r)
    /\ call' = [call EXCEPT ![r].pc = "write", ![r].existing = Found(Client[r].id)]
    /\ UNCHANGED <<storeVars, gatewayClients>>

FindRefuses(r) ==
    /\ call[r].pc = "start" /\ ~ MayProceed(r)
    /\ Answer(r, IF Operation[r] = "create" THEN "exists" ELSE "notFound")
    /\ UNCHANGED <<storeVars, gatewayClients>>

-----------------------------------------------------------------------------
(* The writes, each with BumpGeneration (ChangeClients).                   *)

Written(r) == call' = [call EXCEPT ![r].pc = "reread", ![r].existing = {}]

\* Create: the unique index refuses a second row.
\* (Mutant: a second row replaces the first.)
CreateReplaces(r) ==
    /\ call[r].pc = "write" /\ Operation[r] = "create"
    /\ Store([id |-> Client[r].id, name |-> Client[r].name,
              status |-> Client[r].status, key |-> r])
    /\ ChangeClients
    /\ Written(r)
Create(r) ==
    /\ call[r].pc = "write" /\ Operation[r] = "create"
    /\ Found(Client[r].id) = {}
    /\ Store([id |-> Client[r].id, name |-> Client[r].name,
              status |-> Client[r].status, key |-> r])
    /\ ChangeClients
    /\ Written(r)

CreateRefused(r) ==
    /\ call[r].pc = "write" /\ Operation[r] = "create"
    /\ Found(Client[r].id) # {}
    /\ Answer(r, "exists")
    /\ UNCHANGED <<storeVars, gatewayClients>>

\* PatchGatewayClient overwrites the row it read, all but the key, and Upsert
\* writes all of it; a client that was revoked meanwhile stays revoked.
\* (Mutant: the status is that of the request.)
PatchOverwrites(r) ==
    /\ call[r].pc = "write" /\ Operation[r] = "patch"
    /\ \E read \in call[r].existing, now \in Found(Client[r].id) :
          Store([now EXCEPT !.name = Client[r].name, !.key = read.key,
                            !.status = Client[r].status])
    /\ ChangeClients
    /\ Written(r)
Patch(r) ==
    /\ call[r].pc = "write" /\ Operation[r] = "patch"
    /\ \E read \in call[r].existing, now \in Found(Client[r].id) :
          Store([now EXCEPT !.name = Client[r].name, !.key = read.key,
                            !.status = IF @ = "revoked" THEN @ ELSE Client[r].status])
    /\ ChangeClients
    /\ Written(r)

\* Revoke updates the status alone, and bumps nothing when it was set before.
\* (Mutant: the row that was looked up is written back.)
RevokeWritesBack(r) ==
    /\ call[r].pc = "write" /\ Operation[r] = "revoke"
    /\ \E read \in call[r].existing : Store([read EXCEPT !.status = "revoked"])
    /\ ChangeClients
    /\ Written(r)
Revoke(r) ==
    /\ call[r].pc = "write" /\ Operation[r] = "revoke"
    /\ \E now \in Found(Client[r].id) :
          IF now.status = "revoked"
          THEN UNCHANGED <<storeVars, gatewayClients>>
          ELSE Store([now EXCEPT !.status = "revoked"]) /\ ChangeClients
    /\ Written(r)

-----------------------------------------------------------------------------
(* The answers.                                                            *)

\* A client whose status is not the requested one is taken for another's, also
\* when this request created it and it was patched or revoked since.
Reread(r) ==
    /\ call[r].pc = "reread"
    /\ Answer(r, IF Operation[r] = "patch" THEN "patched"
                 ELSE IF Operation[r] = "revoke" THEN "revoked"
                 ELSE IF \E c \in Found(Client[r].id) : c.status = Client[r].status
                 THEN "created" ELSE "exists")
    /\ UNCHANGED <<storeVars, gatewayClients>>

ClientCall(r) ==
    \/ Find(r) \/ FindRefuses(r)
    \/ Create(r) \/ CreateRefused(r) \/ Patch(r) \/ Revoke(r)
    \/ Reread(r)

ControlNext ==
    \/ \E r \in Calls : ClientCall(r)
    \/ /\ \/ \E e \in Edits : Edit(e)
          \/ \E a \in Activations : Activate(a) \/ ActivateNotify(a)
       /\ UNCHANGED clientVars

ControlSpec == ControlInit /\ [][ControlNext]_controlVars

-----------------------------------------------------------------------------
(* Properties.                                                             *)

\* Whatever requests overlap, the stored clients change as if each request were
\* one step behind the mutex of the in-memory repository, or not at all.
Memory == INSTANCE ControlMemory WITH
    BundleRequests <- {}, MappingRequests <- {}, VerdictProviderRequests <- {},
    LimitRequests <- {}, OverrideRequests <- {}, ActivationRequests <- {},
    ClientRequests <- {Client[r] : r \in Calls},
    bundles <- {}, activeBundleKeys <- {}, modelMappings <- {}, verdictProviders <- {},
    routeLimits <- {}, clientRouteLimits <- {},
    gatewayClients <- {[id |-> c.id, name |-> c.name, status |-> c.status] :
                          c \in gatewayClients}

ClientsImplementMemory == Memory!MemorySpec

\* A client whose revocation was answered stays revoked, whatever patch had read
\* it before.
RevokedForever ==
    \A r \in Calls : call[r].answer = "revoked" =>
        /\ Found(Client[r].id) # {}
        /\ \A c \in Found(Client[r].id) : c.status = "revoked"

\* A key that was handed out is the one that is stored: no second create and no
\* patch that had read the client before replaces it.
CreatedKeyWorks ==
    \A r \in Calls : call[r].answer = "created" =>
        \E c \in Found(Client[r].id) : c.key = r
=============================================================================
