------------------------ MODULE ControlRequestsProofs ------------------------
(***************************************************************************)
(* Proofs about the gateway clients, for any edits, activations, client    *)
(* IDs and calls.                                                          *)
(***************************************************************************)
EXTENDS ControlRequests, RevisionStoreProofs

-----------------------------------------------------------------------------
(* The client requests over the revisions.                                 *)

\* A client request is a step of the store that changes clients, or none.
LEMMA StepsOfStore == [ControlNext]_controlVars => [StoreNext]_storeVars
<1> SUFFICES ASSUME [ControlNext]_controlVars PROVE [StoreNext]_storeVars
  OBVIOUS
<1>1. ASSUME NEW r \in Calls, ClientCall(r) PROVE ChangeClients \/ UNCHANGED storeVars
  BY <1>1 DEF ClientCall, Find, FindRefuses, Create, CreateRefused, Patch, Revoke, Reread
<1> QED
  BY <1>1 DEF ControlNext, StoreNext, controlVars

\* The control API with its client requests changes the revisions as the store
\* says (usecases.go, revisionstore).
THEOREM ControlRunsStore == ControlSpec => StoreSpec
BY StepsOfStore, PTL DEF ControlSpec, ControlInit, StoreSpec

-----------------------------------------------------------------------------
(* The gateway clients.                                                    *)

CallState == [pc : {"start", "write", "reread", "done"},
              existing : SUBSET ClientRow, answer : Answers]

\* A row that a request has read is still there with the same key.
KeysKept ==
    \A r \in Calls : \A read \in call[r].existing :
        /\ read.id = Client[r].id
        /\ \E now \in gatewayClients : now.id = read.id /\ now.key = read.key

RevokeWritten ==
    \A r \in Calls :
        \/ call[r].answer = "revoked"
        \/ call[r].pc = "reread" /\ Operation[r] = "revoke"
        => \E c \in gatewayClients : c.id = Client[r].id /\ c.status = "revoked"

CreateWritten ==
    \A r \in Calls :
        \/ call[r].answer = "created"
        \/ call[r].pc = "reread" /\ Operation[r] = "create"
        => \E c \in gatewayClients : c.id = Client[r].id /\ c.key = r

UniqueIds == \A c, d \in gatewayClients : c.id = d.id => c = d

ClientTypes ==
    /\ gatewayClients \subseteq ClientRow /\ UniqueIds
    /\ call \in [Calls -> CallState]

ClientInv == ClientTypes /\ KeysKept /\ RevokeWritten /\ CreateWritten

\* No row is deleted, changes its key or stops being revoked.
Kept ==
    \A c \in gatewayClients : \E d \in gatewayClients' :
        d.id = c.id /\ d.key = c.key /\ (c.status = "revoked" => d.status = "revoked")

\* A request names a known operation and a client row's fields.
LEMMA ClientInput ==
    ASSUME NEW r \in Calls
    PROVE  /\ Operation[r] \in {"create", "patch", "revoke"}
           /\ Client[r] \in [id : Ids, name : Names, status : ClientStatuses]
BY ControlAssumption

\* Storing a row keeps the table typed if it keeps the key and a revocation.
LEMMA StoreKeeps ==
    ASSUME ClientTypes, NEW row \in ClientRow, Store(row),
           \A c \in Found(row.id) :
               c.key = row.key /\ (c.status = "revoked" => row.status = "revoked")
    PROVE  /\ gatewayClients' \subseteq ClientRow /\ UniqueIds' /\ Kept
           /\ row \in gatewayClients'
BY DEF ClientTypes, UniqueIds, Store, Found, Kept

\* A table left alone keeps what was said of it.
LEMMA RowsStay ==
    ASSUME ClientTypes, UNCHANGED gatewayClients
    PROVE  gatewayClients' \subseteq ClientRow /\ UniqueIds' /\ Kept
BY DEF ClientTypes, UniqueIds, Kept

\* What is known of the other requests stays known.
LEMMA KeptInv ==
    ASSUME ClientInv, Kept, gatewayClients' \subseteq ClientRow, UniqueIds',
           NEW r \in Calls, NEW x \in CallState, call' = [call EXCEPT ![r] = x],
           x.existing \subseteq call[r].existing \union Found(Client[r].id),
           \/ x.answer = "revoked"
           \/ x.pc = "reread" /\ Operation[r] = "revoke"
           => \E c \in gatewayClients' : c.id = Client[r].id /\ c.status = "revoked",
           \/ x.answer = "created"
           \/ x.pc = "reread" /\ Operation[r] = "create"
           => \E c \in gatewayClients' : c.id = Client[r].id /\ c.key = r
    PROVE  ClientInv'
<1>1. call' \in [Calls -> CallState] /\ call'[r] = x
      /\ \A q \in Calls \ {r} : call'[q] = call[q]
  BY DEF ClientInv, ClientTypes
<1>2. KeysKept'
  <2> SUFFICES ASSUME NEW q \in Calls, NEW read \in call'[q].existing
               PROVE  /\ read.id = Client[q].id
                      /\ \E now \in gatewayClients' : now.id = read.id /\ now.key = read.key
    BY DEF KeysKept
  <2>1. read.id = Client[q].id
        /\ \E c \in gatewayClients : c.id = read.id /\ c.key = read.key
    BY <1>1 DEF ClientInv, KeysKept, Found
  <2> QED
    BY <2>1 DEF Kept
<1>3. RevokeWritten'
  <2> SUFFICES ASSUME NEW q \in Calls,
                      \/ call'[q].answer = "revoked"
                      \/ call'[q].pc = "reread" /\ Operation[q] = "revoke"
               PROVE  \E c \in gatewayClients' : c.id = Client[q].id /\ c.status = "revoked"
    BY DEF RevokeWritten
  <2>1. CASE q = r
    BY <1>1, <2>1
  <2>2. CASE q # r
    BY <1>1, <2>2 DEF ClientInv, RevokeWritten, Kept
  <2> QED
    BY <2>1, <2>2
<1>4. CreateWritten'
  <2> SUFFICES ASSUME NEW q \in Calls,
                      \/ call'[q].answer = "created"
                      \/ call'[q].pc = "reread" /\ Operation[q] = "create"
               PROVE  \E c \in gatewayClients' : c.id = Client[q].id /\ c.key = q
    BY DEF CreateWritten
  <2>1. CASE q = r
    BY <1>1, <2>1
  <2>2. CASE q # r
    BY <1>1, <2>2 DEF ClientInv, CreateWritten, Kept
  <2> QED
    BY <2>1, <2>2
<1> QED
  BY <1>1, <1>2, <1>3, <1>4 DEF ClientInv, ClientTypes

\* An empty table and requests not begun satisfy the invariant.
LEMMA ClientInitInv == ControlInit => ClientInv
BY DEF ControlInit, ClientInv, ClientTypes, UniqueIds, CallState, Answers, KeysKept,
       RevokeWritten, CreateWritten

\* What each write stores.
LEMMA CreateStores ==
    ASSUME ClientInv, NEW r \in Calls, Create(r)
    PROVE  /\ gatewayClients' \subseteq ClientRow /\ UniqueIds' /\ Kept
           /\ \E c \in gatewayClients' : c.id = Client[r].id /\ c.key = r
<1> DEFINE row == [id |-> Client[r].id, name |-> Client[r].name,
                   status |-> Client[r].status, key |-> r]
<1>1. row \in ClientRow /\ row.id = Client[r].id /\ row.key = r
  BY ClientInput DEF ClientRow
<1>2. Store(row) /\ Found(row.id) = {}
  BY <1>1 DEF Create
<1> HIDE DEF row
<1> QED
  BY <1>1, <1>2, StoreKeeps DEF ClientInv

\* A patch writes back a row whose key and revocation still hold.
LEMMA PatchStores ==
    ASSUME ClientInv, NEW r \in Calls, Patch(r)
    PROVE  gatewayClients' \subseteq ClientRow /\ UniqueIds' /\ Kept
<1>1. PICK read \in call[r].existing, now \in Found(Client[r].id) :
        Store([now EXCEPT !.name = Client[r].name, !.key = read.key,
                          !.status = IF now.status = "revoked" THEN now.status
                                     ELSE Client[r].status])
  BY DEF Patch
<1> DEFINE row == [now EXCEPT !.name = Client[r].name, !.key = read.key,
                              !.status = IF now.status = "revoked" THEN now.status
                                         ELSE Client[r].status]
<1>2. now \in gatewayClients /\ now \in ClientRow /\ now.id = Client[r].id
  BY DEF ClientInv, ClientTypes, Found
<1>3. read.key = now.key
  BY <1>2 DEF ClientInv, ClientTypes, KeysKept, UniqueIds
<1>4. row \in ClientRow /\ row.id = Client[r].id /\ row.key = now.key
      /\ (now.status = "revoked" => row.status = "revoked")
  BY <1>2, <1>3, ClientInput DEF ClientRow
<1>5. \A c \in Found(Client[r].id) : c = now
  BY <1>2 DEF Found, ClientInv, ClientTypes, UniqueIds
<1>6. Store(row)
  BY <1>1
<1> HIDE DEF row
<1> QED
  BY <1>4, <1>5, <1>6, StoreKeeps DEF ClientInv

\* A revocation leaves its client in the table, revoked.
LEMMA RevokeStores ==
    ASSUME ClientInv, NEW r \in Calls, Revoke(r)
    PROVE  /\ gatewayClients' \subseteq ClientRow /\ UniqueIds' /\ Kept
           /\ \E c \in gatewayClients' : c.id = Client[r].id /\ c.status = "revoked"
<1>1. PICK now \in Found(Client[r].id) :
        IF now.status = "revoked" THEN UNCHANGED <<storeVars, gatewayClients>>
        ELSE Store([now EXCEPT !.status = "revoked"]) /\ ChangeClients
  BY DEF Revoke
<1>2. now \in gatewayClients /\ now \in ClientRow /\ now.id = Client[r].id
  BY DEF ClientInv, ClientTypes, Found
<1>3. CASE now.status = "revoked"
  BY <1>1, <1>2, <1>3, RowsStay DEF ClientInv
<1>4. CASE now.status # "revoked"
  <2> DEFINE row == [now EXCEPT !.status = "revoked"]
  <2>1. row \in ClientRow /\ row.id = Client[r].id /\ row.key = now.key
        /\ row.status = "revoked"
    BY <1>2 DEF ClientRow, ClientStatuses
  <2>2. \A c \in Found(Client[r].id) : c = now
    BY <1>2 DEF Found, ClientInv, ClientTypes, UniqueIds
  <2>3. Store(row)
    BY <1>1, <1>4
  <2> HIDE DEF row
  <2> QED
    BY <2>1, <2>2, <2>3, StoreKeeps DEF ClientInv
<1> QED
  BY <1>3, <1>4

\* Each step of a client request keeps the invariant.
LEMMA CallInv ==
    ASSUME ClientInv, NEW r \in Calls, ClientCall(r)
    PROVE  ClientInv'
<1>0. call[r] \in CallState /\ Operation[r] \in {"create", "patch", "revoke"}
      /\ {} \subseteq ClientRow
  BY ClientInput DEF ClientInv, ClientTypes
<1> DEFINE answered(a) == [call[r] EXCEPT !.pc = "done", !.answer = a]
           written == [call[r] EXCEPT !.pc = "reread", !.existing = {}]
           found == [call[r] EXCEPT !.pc = "write", !.existing = Found(Client[r].id)]
<1>1. \A a \in Answers :
        /\ answered(a) \in CallState /\ answered(a).existing = call[r].existing
        /\ answered(a).answer = a /\ answered(a).pc = "done"
  BY <1>0 DEF CallState
<1>2. /\ written \in CallState /\ written.existing = {} /\ written.pc = "reread"
      /\ written.answer = call[r].answer
  BY <1>0 DEF CallState
<1>3. /\ found \in CallState /\ found.existing = Found(Client[r].id)
      /\ found.pc = "write" /\ found.answer = call[r].answer
  BY <1>0 DEF CallState, ClientInv, ClientTypes, Found
<1>4. /\ call[r].answer = "revoked" =>
            \E c \in gatewayClients : c.id = Client[r].id /\ c.status = "revoked"
      /\ call[r].answer = "created" =>
            \E c \in gatewayClients : c.id = Client[r].id /\ c.key = r
  BY DEF ClientInv, RevokeWritten, CreateWritten
<1>5. CASE Find(r)
  <2>1. call' = [call EXCEPT ![r] = found] /\ UNCHANGED gatewayClients
    BY <1>5 DEF Find
  <2> HIDE DEF found
  <2> QED
    BY <1>3, <1>4, <2>1, RowsStay, KeptInv DEF ClientInv
<1>6. CASE FindRefuses(r) \/ CreateRefused(r)
  <2>1. PICK a \in {"exists", "notFound"} :
           call' = [call EXCEPT ![r] = answered(a)] /\ UNCHANGED gatewayClients
    BY <1>6 DEF FindRefuses, CreateRefused, Answer
  <2>2. a \in Answers
    BY DEF Answers
  <2> HIDE DEF answered
  <2> QED
    BY <1>1, <2>1, <2>2, RowsStay, KeptInv DEF ClientInv
<1>7. CASE Create(r)
  <2>1. call' = [call EXCEPT ![r] = written] /\ Operation[r] = "create"
    BY <1>7 DEF Create, Written
  <2>2. call[r].answer = "revoked" =>
           \E c \in gatewayClients' : c.id = Client[r].id /\ c.status = "revoked"
    BY <1>4, <1>7, CreateStores DEF Kept
  <2> HIDE DEF written
  <2> QED
    BY <1>2, <1>7, <2>1, <2>2, CreateStores, KeptInv
<1>8. CASE Patch(r)
  <2>1. call' = [call EXCEPT ![r] = written] /\ Operation[r] = "patch"
    BY <1>8 DEF Patch, Written
  <2>2. /\ call[r].answer = "revoked" =>
              \E c \in gatewayClients' : c.id = Client[r].id /\ c.status = "revoked"
        /\ call[r].answer = "created" =>
              \E c \in gatewayClients' : c.id = Client[r].id /\ c.key = r
    BY <1>4, <1>8, PatchStores DEF Kept
  <2> HIDE DEF written
  <2> QED
    BY <1>2, <1>8, <2>1, <2>2, PatchStores, KeptInv
<1>9. CASE Revoke(r)
  <2>1. call' = [call EXCEPT ![r] = written] /\ Operation[r] = "revoke"
    BY <1>9 DEF Revoke, Written
  <2>2. call[r].answer = "created" =>
           \E c \in gatewayClients' : c.id = Client[r].id /\ c.key = r
    BY <1>4, <1>9, RevokeStores DEF Kept
  <2> HIDE DEF written
  <2> QED
    BY <1>2, <1>9, <2>1, <2>2, RevokeStores, KeptInv
<1>10. CASE Reread(r)
  <2>1. PICK a \in {"patched", "revoked", "created", "exists"} :
           /\ call' = [call EXCEPT ![r] = answered(a)] /\ UNCHANGED gatewayClients
           /\ a = "revoked" => Operation[r] = "revoke"
           /\ a = "created" => Operation[r] = "create"
    BY <1>0, <1>10 DEF Reread, Answer
  <2>2. a \in Answers /\ call[r].pc = "reread"
    BY <1>10 DEF Answers, Reread
  <2>3. /\ a = "revoked" =>
              \E c \in gatewayClients : c.id = Client[r].id /\ c.status = "revoked"
        /\ a = "created" =>
              \E c \in gatewayClients : c.id = Client[r].id /\ c.key = r
    BY <2>1, <2>2 DEF ClientInv, RevokeWritten, CreateWritten
  <2> HIDE DEF answered
  <2> QED
    BY <1>1, <2>1, <2>2, <2>3, RowsStay, KeptInv DEF ClientInv
<1> QED
  BY <1>5, <1>6, <1>7, <1>8, <1>9, <1>10 DEF ClientCall

\* Every step keeps the invariant, those of edits and activations too.
LEMMA ClientNextInv == ClientInv /\ [ControlNext]_controlVars => ClientInv'
<1> SUFFICES ASSUME ClientInv, [ControlNext]_controlVars PROVE ClientInv'
  OBVIOUS
<1>1. CASE UNCHANGED clientVars
  BY <1>1 DEF clientVars, ClientInv, ClientTypes, UniqueIds, KeysKept, RevokeWritten,
              CreateWritten
<1> QED
  BY <1>1, CallInv DEF ControlNext, controlVars

\* The state of the control API is well typed: no two rows of gateway_clients
\* have one ID (postgres_client_adapter.go, mutations.go).
THEOREM ControlTypeCorrect == ControlSpec => []ControlTypeOK
<1>1. StoreInv /\ ClientInv => ControlTypeOK
  BY ActiveFromInv DEF ClientInv, ClientTypes, UniqueIds, CallState, ControlTypeOK
<1>2. ControlInit => StoreInv
  BY StoreInitInv DEF ControlInit
<1> QED
  BY <1>1, <1>2, ClientInitInv, ClientNextInv, StepsOfStore, StoreNextInv, PTL DEF ControlSpec

\* A client whose revocation was answered stays revoked, whatever a patch has read
\* before (Revoke and Upsert of mutations.go).
THEOREM RevocationLasts == ControlSpec => []RevokedForever
<1>1. ClientInv => RevokedForever
  BY DEF ClientInv, ClientTypes, UniqueIds, RevokeWritten, RevokedForever, Found
<1> QED
  BY <1>1, ClientInitInv, ClientNextInv, PTL DEF ControlSpec

\* A key that was handed out is the stored one, although patches write back the
\* key of the row they read (CreateGatewayClient and PatchGatewayClient).
THEOREM HandedOutKeyWorks == ControlSpec => []CreatedKeyWorks
<1>1. ClientInv => CreatedKeyWorks
  BY DEF ClientInv, CreateWritten, CreatedKeyWorks, Found
<1> QED
  BY <1>1, ClientInitInv, ClientNextInv, PTL DEF ControlSpec

-----------------------------------------------------------------------------
(* The clients implement the in-memory repository.                         *)

\* A row as the repository has it.
View(c) == [id |-> c.id, name |-> c.name, status |-> c.status]

\* Storing a row replaces what the in-memory repository has for its ID.
LEMMA StoreView ==
    ASSUME ClientTypes, NEW row \in ClientRow, Store(row)
    PROVE  {View(c) : c \in gatewayClients'} =
              {x \in {View(c) : c \in gatewayClients} : ~ (x.id = row.id)} \union {View(row)}
BY DEF Store, View

\* A step of a client request is one of the in-memory repository, or none.
LEMMA CallIsRequest ==
    ASSUME ClientInv, NEW r \in Calls, ClientCall(r)
    PROVE  [Memory!MemoryNext]_(Memory!memoryVars)
<1> DEFINE view == {View(c) : c \in gatewayClients}
           request == Client[r]
<1>0. request = View(request) /\ request \in {Client[q] : q \in Calls}
      /\ request \in [id : Ids, name : Names, status : ClientStatuses]
  BY ClientInput DEF View
<1>1. CASE UNCHANGED gatewayClients
  BY <1>1 DEF Memory!memoryVars
<1>2. CASE Create(r)
  <2> DEFINE row == [id |-> Client[r].id, name |-> Client[r].name,
                     status |-> Client[r].status, key |-> r]
  <2>1. Store(row) /\ Found(request.id) = {}
    BY <1>2 DEF Create
  <2>2. row \in ClientRow /\ View(row) = request /\ row.id = request.id
    BY <1>0 DEF ClientRow, View
  <2>3. \A x \in view : x.id # request.id
    BY <2>1 DEF Found, View
  <2>4. view' = view \union {request}
    <3> HIDE DEF row
    <3> QED
      BY <2>1, <2>2, <2>3, StoreView DEF ClientInv, View
  <2>5. Memory!CreateGatewayClient(request)
    BY <2>3, <2>4 DEF Memory!CreateGatewayClient, View
  <2> QED
    BY <1>0, <2>5 DEF Memory!MemoryNext
<1>3. CASE Patch(r)
  <2>1. PICK read \in call[r].existing, now \in Found(request.id) :
          Store([now EXCEPT !.name = request.name, !.key = read.key,
                            !.status = IF now.status = "revoked" THEN now.status
                                       ELSE request.status])
    BY <1>3 DEF Patch
  <2> DEFINE row == [now EXCEPT !.name = request.name, !.key = read.key,
                                !.status = IF now.status = "revoked" THEN now.status
                                           ELSE request.status]
             patched == [request EXCEPT !.status = IF now.status = "revoked" THEN "revoked"
                                                   ELSE request.status]
  <2>2. now \in ClientRow /\ now.id = request.id /\ View(now) \in view
    BY DEF ClientInv, ClientTypes, Found
  <2>3. read.key \in Calls
    BY DEF ClientInv, ClientTypes, CallState, ClientRow
  <2>4. row \in ClientRow /\ View(row) = patched /\ row.id = request.id
    <3> DEFINE status == IF now.status = "revoked" THEN "revoked" ELSE request.status
    <3>1. status \in ClientStatuses
      BY <1>0 DEF ClientStatuses
    <3>2. row = [now EXCEPT !.name = request.name, !.key = read.key, !.status = status]
      OBVIOUS
    <3>3. patched = [request EXCEPT !.status = status]
      OBVIOUS
    <3> HIDE DEF status, row, patched
    <3>4. row = [id |-> request.id, name |-> request.name, status |-> status,
                 key |-> read.key]
      BY <2>2, <3>2 DEF ClientRow
    <3>5. patched = [id |-> request.id, name |-> request.name, status |-> status]
      BY <1>0, <3>3
    <3> QED
      BY <1>0, <2>3, <3>1, <3>4, <3>5 DEF ClientRow, View
  <2>5. view' = {x \in view : ~ (x.id = request.id)} \union {patched}
    <3> HIDE DEF row, patched
    <3> QED
      BY <2>1, <2>4, StoreView DEF ClientInv, row
  <2>6. View(now).id = request.id /\ View(now).status = now.status
    BY <2>2 DEF View
  <2>7. Memory!PatchGatewayClient(request)
    BY <2>2, <2>5, <2>6 DEF Memory!PatchGatewayClient, Memory!Set, View
  <2> QED
    BY <1>0, <2>7 DEF Memory!MemoryNext
<1>4. CASE Revoke(r) /\ ~ UNCHANGED gatewayClients
  <2>1. PICK now \in Found(request.id) : Store([now EXCEPT !.status = "revoked"])
    BY <1>4 DEF Revoke
  <2> DEFINE row == [now EXCEPT !.status = "revoked"]
             revoked == [View(now) EXCEPT !.status = "revoked"]
  <2>2. now \in ClientRow /\ now.id = request.id /\ View(now) \in view
    BY DEF ClientInv, ClientTypes, Found
  <2>3. row \in ClientRow /\ View(row) = revoked /\ row.id = request.id
    BY <2>2 DEF ClientRow, ClientStatuses, View
  <2>4. view' = {x \in view : ~ (x.id = request.id)} \union {revoked}
    <3> HIDE DEF row, revoked
    <3> QED
      BY <2>1, <2>3, StoreView DEF ClientInv, row
  <2>5. View(now).id = request.id
    BY <2>2 DEF View
  <2>6. Memory!RevokeGatewayClient(request.id)
    BY <2>2, <2>4, <2>5 DEF Memory!RevokeGatewayClient, Memory!Set, View
  <2> QED
    BY <1>0, <2>6 DEF Memory!MemoryNext
<1> QED
  BY <1>1, <1>2, <1>3, <1>4
     DEF ClientCall, Find, FindRefuses, CreateRefused, Reread

\* The clients of the database change as those of the in-memory repository, in
\* which every request is one step behind a mutex (memory.go).
THEOREM ClientsRefineMemory == ControlSpec => ClientsImplementMemory
<1>1. ControlInit => Memory!NewMemoryRepository
  BY DEF ControlInit, Memory!NewMemoryRepository
<1>2. ClientInv /\ [ControlNext]_controlVars => [Memory!MemoryNext]_(Memory!memoryVars)
  <2> SUFFICES ASSUME ClientInv, [ControlNext]_controlVars
               PROVE  [Memory!MemoryNext]_(Memory!memoryVars)
    OBVIOUS
  <2>1. CASE UNCHANGED clientVars
    BY <2>1 DEF clientVars, Memory!memoryVars
  <2> QED
    BY <2>1, CallIsRequest DEF ControlNext, controlVars
<1> QED
  BY <1>1, <1>2, ClientInitInv, ClientNextInv, PTL
     DEF ControlSpec, ClientsImplementMemory, Memory!MemorySpec

=============================================================================
