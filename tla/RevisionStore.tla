--------------------------- MODULE RevisionStore ---------------------------
(***************************************************************************)
(* The configuration revisions in PostgreSQL (adapters/postgres/           *)
(* revisionstore and configstore, clients/adapters/postgres) and the       *)
(* control requests that change them (control/adapters/postgres).          *)
(*                                                                         *)
(* A revision row is a draft, active or rejected.  An edit writes to the   *)
(* latest draft, which it clones from the active revision when there is    *)
(* none; an activation makes the latest draft active.  Transactions are    *)
(* READ COMMITTED: each statement sees what was committed when it started. *)
(* A transaction's own writes become visible in its commit step; every     *)
(* read whose result it uses later is a step of its own.                   *)
(*                                                                         *)
(* The content of a revision is abstracted to the edits it holds.  A       *)
(* scoped edit is a policy bundle with a rule for one route: it carries    *)
(* the revision whose routes table the rule's route ID points into.        *)
(***************************************************************************)
EXTENDS Integers, FiniteSets

CONSTANTS
    Edits,          \* control requests that upsert one record into the draft
    ScopedEdits,    \* those that create a bundle with a route-scoped rule
    Activations,    \* activation requests
    MaxGeneration   \* bound: changes to gateway clients

\* Revision 1 is seeded, and an edit creates at most one more.
MaxRevision == 1 + Cardinality(Edits)

ASSUME StoreAssumption ==
    /\ IsFiniteSet(Edits) /\ ScopedEdits \subseteq Edits
    /\ MaxGeneration \in Nat

VARIABLES
    rows,           \* config_revisions and the records of each revision
    nextNumber,     \* the bigserial behind revision_number
    generation,     \* gateway_client_config_versions.generation
    clients,        \* version of the gateway_clients table
    edit,           \* each edit request
    activation,     \* each activation request
    history         \* what overlapping requests have done, for the properties

storeVars == <<rows, nextNumber, generation, clients, edit, activation, history>>

Revisions == 1..MaxRevision
Statuses  == {"none", "draft", "active", "rejected"}

\* A record of a revision; route is 0 when no rule of it names a route.
Item == [edit : Edits, route : 0..MaxRevision]
Row  == [status : Statuses, content : SUBSET Item]

EditTx == [pc : {"start", "select", "insert", "clone", "write", "done", "failed"},
           routes : 0..MaxRevision, source : 0..MaxRevision,
           rev : 0..MaxRevision, content : SUBSET Item, new : BOOLEAN]

ActivationTx == [pc : {"start", "selected", "deactivating", "notify", "done", "failed"},
                 rev : 0..MaxRevision, active : SUBSET Revisions]

\* forked: a committed edit may be missing from the current revision.
\* ambiguous: tokens up to it may have named two configurations.
History == [forked : BOOLEAN, ambiguous : 0..(MaxRevision + MaxGeneration)]

StoreTypeOK ==
    /\ rows \in [Revisions -> Row]
    /\ nextNumber \in 1..(MaxRevision + 1)
    /\ generation \in 0..MaxGeneration /\ clients \in 0..MaxGeneration
    /\ edit \in [Edits -> EditTx]
    /\ activation \in [Activations -> ActivationTx]
    /\ history \in History

StoreInit ==
    /\ rows = [i \in Revisions |->
                [status |-> IF i = 1 THEN "active" ELSE "none", content |-> {}]]
    /\ nextNumber = 2
    /\ generation = 0 /\ clients = 0
    /\ edit = [e \in Edits |-> [pc |-> "start", routes |-> 0, source |-> 0,
                                rev |-> 0, content |-> {}, new |-> FALSE]]
    /\ activation = [a \in Activations |->
                        [pc |-> "start", rev |-> 0, active |-> {}]]
    /\ history = [forked |-> FALSE, ambiguous |-> 0]

-----------------------------------------------------------------------------
(* Lookups.                                                                *)

WithStatus(s) == {i \in Revisions : rows[i].status = s}

\* order by revision_number desc limit 1, and 0 when there is no row.
Latest(S) == IF S = {} THEN 0 ELSE CHOOSE i \in S : \A j \in S : j <= i

LatestDraft  == Latest(WithStatus("draft"))
LatestActive == Latest(WithStatus("active"))

\* CurrentRevisionID: the draft when there is one, otherwise the active revision.
CurrentRevision == IF LatestDraft # 0 THEN LatestDraft ELSE LatestActive

\* activeRevisionNumber: the token the runtime compares.
\* (Mutant: client changes do not count.)
RevisionNumberOnly == LatestActive
ActiveRevisionNumber == LatestActive + generation

\* The configuration a gateway should serve.
ActiveConfig ==
    [rev |-> LatestActive, clients |-> clients, token |-> ActiveRevisionNumber,
     edits |-> {c.edit : c \in rows[LatestActive].content}]

InProgress(pc) == pc \notin {"start", "done", "failed"}

\* The highest token that is in doubt when the active configuration changes and
\* its token does not rise.
TokenInDoubt == IF history.ambiguous < ActiveRevisionNumber
                 THEN ActiveRevisionNumber ELSE history.ambiguous

-----------------------------------------------------------------------------
(* An edit: the lookups of the adapter, then WithDraftRevision.            *)

\* ListRoutes, outside the transaction: the route IDs of the current revision.
EditReadRoutes(e) ==
    /\ edit[e].pc = "start"
    /\ edit' = [edit EXCEPT ![e].pc = "select",
                            ![e].routes = IF e \in ScopedEdits THEN CurrentRevision ELSE 0]
    /\ UNCHANGED <<rows, nextNumber, generation, clients, activation, history>>

\* ensureDraftRevision reuses the latest draft.
EditSelectDraft(e) ==
    /\ edit[e].pc = "select"
    /\ edit' = IF LatestDraft # 0
               THEN [edit EXCEPT ![e].pc = "write", ![e].rev = LatestDraft]
               ELSE [edit EXCEPT ![e].pc = "insert"]
    /\ UNCHANGED <<rows, nextNumber, generation, clients, activation, history>>

\* It selects the active revision and inserts a draft; the number is taken from
\* the sequence even if the transaction is rolled back.
EditInsertDraft(e) ==
    /\ edit[e].pc = "insert" /\ nextNumber <= MaxRevision
    /\ nextNumber' = nextNumber + 1
    /\ edit' = [edit EXCEPT ![e].pc = IF LatestActive = 0 THEN "write" ELSE "clone",
                            ![e].source = LatestActive, ![e].rev = nextNumber,
                            ![e].new = TRUE]
    /\ UNCHANGED <<rows, generation, clients, activation, history>>

\* remapOptionalID: a route ID that is not one of the source revision's routes
\* was not cloned.
Remappable(S, source) == \A c \in S : c.route \in {0, source}
Remap(S, target) ==
    {[c EXCEPT !.route = IF c.route = 0 THEN 0 ELSE target] : c \in S}

\* cloneActiveRevisionAsDraft.
\* (Mutant: the draft starts empty.)
EditCloneNothing(e) ==
    /\ edit[e].pc = "clone"
    /\ edit' = [edit EXCEPT ![e].pc = "write"]
    /\ UNCHANGED <<rows, nextNumber, generation, clients, activation, history>>
EditClone(e) ==
    LET content == rows[edit[e].source].content
    IN  /\ edit[e].pc = "clone"
        /\ Remappable(content, edit[e].source)
        /\ edit' = [edit EXCEPT ![e].pc = "write",
                                ![e].content = Remap(content, edit[e].rev)]
        /\ UNCHANGED <<rows, nextNumber, generation, clients, activation, history>>

\* The draft the edit found was activated since (unit_of_work.go:121).
LateEdit(e) == ~ edit[e].new /\ rows[edit[e].rev].status # "draft"

\* The draft the edit has made is not the only one, or its source is not what
\* is active any more (draft.go:12).
ForkedDraft(e) == edit[e].new /\ (LatestDraft # 0 \/ edit[e].source # LatestActive)

\* The upsert and the commit.  The upsert names the revision by its ID and does
\* not look at its status.
EditCommit(e) ==
    LET r    == edit[e].rev
        item == [edit |-> e, route |-> edit[e].routes]
    IN  /\ edit[e].pc = "write"
        /\ rows' = [rows EXCEPT ![r] =
                IF edit[e].new
                THEN [status |-> "draft", content |-> edit[e].content \union {item}]
                ELSE [status |-> rows[r].status, content |-> rows[r].content \union {item}]]
        /\ edit' = [edit EXCEPT ![e].pc = "done"]
        /\ history' =
              [forked    |-> history.forked \/ LateEdit(e) \/ ForkedDraft(e),
               ambiguous |-> IF LateEdit(e) THEN TokenInDoubt ELSE history.ambiguous]
        /\ UNCHANGED <<nextNumber, generation, clients, activation>>

\* An error, or a canceled request: the transaction is rolled back.
EditFail(e) ==
    /\ InProgress(edit[e].pc)
    /\ edit' = [edit EXCEPT ![e].pc = "failed"]
    /\ UNCHANGED <<rows, nextNumber, generation, clients, activation, history>>

Edit(e) ==
    \/ EditReadRoutes(e) \/ EditSelectDraft(e) \/ EditInsertDraft(e)
    \/ EditClone(e) \/ EditCommit(e) \/ EditFail(e)

-----------------------------------------------------------------------------
(* ActivateDraftRevision.                                                  *)

ActivateSelect(a) ==
    /\ activation[a].pc = "start"
    /\ LatestDraft # 0
    /\ activation' = [activation EXCEPT ![a].pc = "selected", ![a].rev = LatestDraft]
    /\ UNCHANGED <<rows, nextNumber, generation, clients, edit, history>>

\* The bundle update and the snapshot row lock the revision against another
\* activation of it; then the deactivating update takes its snapshot of the
\* active rows.
ActivateDeactivate(a) ==
    /\ activation[a].pc = "selected"
    /\ \A b \in Activations :
          activation[b].pc = "deactivating" => activation[b].rev # activation[a].rev
    /\ activation' = [activation EXCEPT ![a].pc = "deactivating",
                                        ![a].active = WithStatus("active")]
    /\ UNCHANGED <<rows, nextNumber, generation, clients, edit, history>>

\* The draft the activation selected is older than a revision activated since.
OlderRevision(a) == activation[a].rev < LatestActive

\* A row of the snapshot that is no longer active is skipped (the WHERE is
\* evaluated again on the row it waited for); a row that became active since
\* is not in the snapshot.  Last, the draft is set active and committed.
\* (Mutant: the draft is activated before the others are deactivated.)
ActivateThenDeactivate(a) ==
    /\ activation[a].pc = "deactivating"
    /\ rows' = [i \in Revisions |->
                  IF i \in activation[a].active \union {activation[a].rev}
                  THEN [rows[i] EXCEPT !.status = "rejected"] ELSE rows[i]]
    /\ activation' = [activation EXCEPT ![a].pc = "notify"]
    /\ UNCHANGED <<nextNumber, generation, clients, edit, history>>
ActivateCommit(a) ==
    /\ activation[a].pc = "deactivating"
    /\ rows' = [i \in Revisions |->
                  IF i = activation[a].rev THEN [rows[i] EXCEPT !.status = "active"]
                  ELSE IF i \in activation[a].active /\ rows[i].status = "active"
                  THEN [rows[i] EXCEPT !.status = "rejected"]
                  ELSE rows[i]]
    /\ activation' = [activation EXCEPT ![a].pc = "notify"]
    /\ history' =
          [forked    |-> history.forked \/ OlderRevision(a),
           ambiguous |-> IF OlderRevision(a) THEN TokenInDoubt ELSE history.ambiguous]
    /\ UNCHANGED <<nextNumber, generation, clients, edit>>

\* NotifyConfigActivated after the commit, best effort: it may be lost.
ActivateNotify(a) ==
    /\ activation[a].pc = "notify"
    /\ activation' = [activation EXCEPT ![a].pc = "done"]
    /\ UNCHANGED <<rows, nextNumber, generation, clients, edit, history>>

ActivateFail(a) ==
    /\ activation[a].pc \in {"selected", "deactivating"}
    /\ activation' = [activation EXCEPT ![a].pc = "failed"]
    /\ UNCHANGED <<rows, nextNumber, generation, clients, edit, history>>

Activate(a) ==
    \/ ActivateSelect(a) \/ ActivateDeactivate(a) \/ ActivateCommit(a) \/ ActivateFail(a)

-----------------------------------------------------------------------------
(* Gateway clients: Create, Upsert or Revoke with BumpGeneration, in one   *)
(* transaction; the generation row serializes them.                        *)

\* (Mutant: the mutation does not bump the generation.)
ChangeClientsNoBump ==
    /\ clients < MaxGeneration
    /\ clients' = clients + 1
    /\ UNCHANGED <<rows, nextNumber, generation, edit, activation, history>>
ChangeClients ==
    /\ generation < MaxGeneration
    /\ generation' = generation + 1
    /\ clients' = clients + 1
    /\ UNCHANGED <<rows, nextNumber, edit, activation, history>>

StoreNext ==
    \/ \E e \in Edits : Edit(e)
    \/ \E a \in Activations : Activate(a) \/ ActivateNotify(a)
    \/ ChangeClients

StoreSpec == StoreInit /\ [][StoreNext]_storeVars

-----------------------------------------------------------------------------
(* Properties.                                                             *)

\* However requests interleave, the runtime always finds an active revision.
ActiveExists == LatestActive # 0

\* Every change to what the gateways should serve raises the token, so they
\* notice it, but for two things that requests which overlap can do: an edit
\* commits into a revision activated since it looked for its draft, and the
\* older of two drafts is activated last.
TokenAdvances ==
    [][ActiveConfig' # ActiveConfig =>
          \/ ActiveRevisionNumber' > ActiveRevisionNumber
          \/ \E e \in Edits : EditCommit(e) /\ LateEdit(e)
          \/ \E a \in Activations : ActivateCommit(a) /\ OlderRevision(a)]_storeVars

\* A committed edit stays in the configuration, in the revision that edits and
\* activations work on from then on, through every reuse, clone, failure and
\* activation; only a late edit, a forked draft or the activation of an older
\* revision, which take requests that overlap, can leave one behind.
EditsKept ==
    ~ history.forked =>
        \A e \in Edits : edit[e].pc = "done" =>
            \E c \in rows[CurrentRevision].content : c.edit = e
=============================================================================
