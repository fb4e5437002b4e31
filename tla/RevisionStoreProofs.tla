------------------------- MODULE RevisionStoreProofs -------------------------
(***************************************************************************)
(* Proofs about the configuration revisions, for any edits and             *)
(* activations and however they overlap.                                   *)
(***************************************************************************)
EXTENDS RevisionStore, FiniteSetTheorems, WellFoundedInduction, TLAPS

-----------------------------------------------------------------------------
(* The latest revision of a set.                                           *)

\* Revisions are numbered from one.
LEMMA RevisionsType == MaxRevision \in Nat /\ MaxRevision >= 1 /\ Revisions \subseteq Nat \ {0}
<1>1. IsFiniteSet(Edits)
  BY StoreAssumption, Zenon
<1>2. Cardinality(Edits) \in Nat
  BY <1>1, FS_CardinalityType
<1> QED
  BY <1>2 DEF MaxRevision, Revisions

\* A nonempty set of revisions has a member above the others.
LEMMA LatestExists ==
    ASSUME NEW S \in SUBSET Revisions, S # {}
    PROVE  \E i \in S : \A j \in S : j <= i
<1> DEFINE R == OpToRel(<, Nat)
<1> DEFINE Distances == {MaxRevision - i : i \in S}
<1>0. \A i \in S : i \in Nat /\ 1 <= i /\ i <= MaxRevision
  BY RevisionsType DEF Revisions
<1>1. Distances \subseteq Nat /\ Distances # {}
  <2>1. \A i \in S : MaxRevision - i \in Nat
    BY <1>0, RevisionsType
  <2>2. \A i \in S : MaxRevision - i \in Distances
    OBVIOUS
  <2> QED
    BY <2>1, <2>2
<1>2. IsWellFoundedOn(R, Nat)
  BY NatLessThanWellFounded
<1>3. PICK d \in Distances : \A n \in Distances : ~ (<<n, d>> \in R)
  <2> HIDE DEF R, Distances
  <2> QED
    BY <1>1, <1>2, WFMin
<1>4. \A n \in Distances : ~ (n < d)
  BY <1>1, <1>3 DEF OpToRel
<1>5. PICK i \in S : d = MaxRevision - i
  BY <1>3
<1>6. \A j \in S : j <= i
  <2> SUFFICES ASSUME NEW j \in S PROVE j <= i
    OBVIOUS
  <2>1. MaxRevision - j \in Distances
    OBVIOUS
  <2>2. ~ (MaxRevision - j < MaxRevision - i)
    BY <1>4, <1>5, <2>1
  <2> QED
    BY <1>0, <2>2, RevisionsType
<1> QED
  BY <1>6

\* The latest of a nonempty set of revisions is one of them.
LEMMA LatestIsMember ==
    ASSUME NEW S \in SUBSET Revisions, S # {}
    PROVE  Latest(S) \in S
BY LatestExists DEF Latest

\* The latest of some revisions is one of them, or 0 when there is none.
LEMMA LatestType ==
    ASSUME NEW S \in SUBSET Revisions
    PROVE  /\ Latest(S) \in 0..MaxRevision
           /\ Latest(S) # 0 => Latest(S) \in S
           /\ S # {} => Latest(S) # 0
<1>0. 0 \in 0..MaxRevision /\ \A i \in S : i \in 0..MaxRevision /\ i # 0
  BY RevisionsType DEF Revisions
<1>1. CASE S = {}
  BY <1>0, <1>1 DEF Latest
<1>2. CASE S # {}
  BY <1>0, <1>2, LatestIsMember
<1> QED
  BY <1>1, <1>2

\* Rows of a status are revisions.
LEMMA WithStatusType ==
    ASSUME NEW s
    PROVE  WithStatus(s) \in SUBSET Revisions
BY DEF WithStatus

\* What the lookups of draft and active revision return.
LEMMA LatestsType ==
    /\ LatestDraft \in 0..MaxRevision /\ LatestActive \in 0..MaxRevision
    /\ CurrentRevision \in 0..MaxRevision
    /\ LatestDraft # 0 => LatestDraft \in WithStatus("draft")
    /\ LatestActive # 0 <=> WithStatus("active") # {}
<1>1. LatestDraft \in 0..MaxRevision /\ (LatestDraft # 0 => LatestDraft \in WithStatus("draft"))
  BY LatestType, WithStatusType DEF LatestDraft
<1>2. LatestActive \in 0..MaxRevision
      /\ (LatestActive # 0 => LatestActive \in WithStatus("active"))
      /\ (WithStatus("active") # {} => LatestActive # 0)
  BY LatestType, WithStatusType DEF LatestActive
<1> QED
  BY <1>1, <1>2 DEF CurrentRevision

\* A token in doubt is one that the history can hold.
LEMMA TokenInDoubtType ==
    ASSUME StoreTypeOK
    PROVE  TokenInDoubt \in 0..(MaxRevision + MaxGeneration)
<1>1. MaxGeneration \in Nat
  BY StoreAssumption, Zenon
<1>2. ActiveRevisionNumber \in 0..(MaxRevision + MaxGeneration)
  BY <1>1, LatestsType, RevisionsType DEF StoreTypeOK, ActiveRevisionNumber
<1> QED
  BY <1>2 DEF TokenInDoubt, StoreTypeOK, History

-----------------------------------------------------------------------------
(* The revisions: their types, and the active revision.                    *)

\* A draft that an edit has inserted and not committed is nobody else's, and an
\* activation works on a revision that exists.
DraftsApart ==
    /\ \A i \in Revisions : i >= nextNumber => rows[i].status = "none"
    /\ \A e \in Edits : edit[e].pc \in {"start", "select", "insert"} => ~ edit[e].new
    /\ \A e \in Edits : edit[e].pc \in {"clone", "write"} => edit[e].rev \in Revisions
    /\ \A e \in Edits : edit[e].pc = "clone" => edit[e].source \in Revisions
    /\ \A e \in Edits : edit[e].new /\ edit[e].pc \in {"clone", "write"} =>
          rows[edit[e].rev].status = "none" /\ edit[e].rev < nextNumber
    /\ \A e, f \in Edits :
          /\ edit[e].new /\ edit[e].pc \in {"clone", "write"}
          /\ edit[f].new /\ edit[f].pc \in {"clone", "write"}
          /\ edit[e].rev = edit[f].rev
          => e = f
    /\ \A a \in Activations : activation[a].pc \in {"selected", "deactivating"} =>
          /\ activation[a].rev \in Revisions
          /\ rows[activation[a].rev].status # "none"

StoreInv ==
    /\ StoreTypeOK /\ DraftsApart
    /\ WithStatus("active") # {}
    /\ clients = generation

\* The seeded store satisfies the invariant.
LEMMA StoreInitInv == StoreInit => StoreInv
<1> SUFFICES ASSUME StoreInit PROVE StoreInv
  OBVIOUS
<1> USE RevisionsType DEF StoreInit
<1>1. rows \in [Revisions -> Row]
  BY DEF Row, Statuses
<1>2. nextNumber \in 1..(MaxRevision + 1) /\ MaxGeneration \in Nat
  <2>1. MaxGeneration \in Nat
    BY StoreAssumption, Zenon
  <2> QED
    BY <2>1
<1>3. edit \in [Edits -> EditTx]
  BY DEF EditTx
<1>4. activation \in [Activations -> ActivationTx]
  BY DEF ActivationTx
<1>10. history \in History
  BY <1>2 DEF History
<1>5. StoreTypeOK
  BY <1>1, <1>2, <1>3, <1>4, <1>10 DEF StoreTypeOK
<1>6. \A i \in Revisions : i >= nextNumber => rows[i].status = "none"
  BY DEF Revisions
<1>7. /\ \A e \in Edits : edit[e].pc = "start" /\ edit[e].new = FALSE
      /\ \A a \in Activations : activation[a].pc = "start"
  OBVIOUS
<1>8. DraftsApart
  BY <1>6, <1>7 DEF DraftsApart
<1>9. 1 \in WithStatus("active")
  BY DEF WithStatus, Revisions
<1> QED
  BY <1>5, <1>8, <1>9 DEF StoreInv

\* An edit's own steps, up to the commit, write nothing the others see.
LEMMA EditTypes ==
    ASSUME StoreInv, NEW e \in Edits, Edit(e), ~ EditCommit(e)
    PROVE  /\ edit' = [edit EXCEPT ![e] = edit'[e]] /\ edit'[e] \in EditTx
           /\ nextNumber' \in 1..(MaxRevision + 1) /\ nextNumber' >= nextNumber
           /\ UNCHANGED <<rows, generation, clients, activation, history>>
<1> USE DEF StoreInv, StoreTypeOK
<1>0. edit[e] \in EditTx /\ nextNumber \in Nat /\ MaxRevision \in Nat
  BY RevisionsType
<1>1. CASE EditReadRoutes(e)
  <2> DEFINE r == IF e \in ScopedEdits THEN CurrentRevision ELSE 0
  <2>1. r \in 0..MaxRevision
    BY <1>0, LatestsType
  <2>2. edit' = [edit EXCEPT ![e] = [edit[e] EXCEPT !.pc = "select", !.routes = r]]
    BY <1>1 DEF EditReadRoutes
  <2> HIDE DEF r
  <2>3. edit' = [edit EXCEPT ![e] = edit'[e]] /\ edit'[e] \in EditTx
    BY <1>0, <2>1, <2>2 DEF EditTx
  <2> QED
    BY <1>0, <1>1, <2>3 DEF EditReadRoutes
<1>2. CASE EditSelectDraft(e)
  <2> DEFINE found == [edit[e] EXCEPT !.pc = "write", !.rev = LatestDraft]
             missing == [edit[e] EXCEPT !.pc = "insert"]
  <2>1. edit' = [edit EXCEPT ![e] = found] \/ edit' = [edit EXCEPT ![e] = missing]
    BY <1>2 DEF EditSelectDraft
  <2>2. LatestDraft \in 0..MaxRevision
    BY LatestsType
  <2>3. found \in EditTx /\ missing \in EditTx
    BY <1>0, <2>2 DEF EditTx
  <2>4. edit' = [edit EXCEPT ![e] = edit'[e]] /\ edit'[e] \in EditTx
    <3> HIDE DEF found, missing
    <3> QED
      BY <2>1, <2>3
  <2> QED
    BY <1>0, <1>2, <2>4 DEF EditSelectDraft
<1>3. CASE EditInsertDraft(e)
  <2>1. PICK pc \in {"write", "clone"} :
           edit' = [edit EXCEPT ![e] = [edit[e] EXCEPT !.pc = pc, !.source = LatestActive,
                                                       !.rev = nextNumber, !.new = TRUE]]
    BY <1>3 DEF EditInsertDraft
  <2>2. LatestActive \in 0..MaxRevision /\ nextNumber \in 0..MaxRevision
    BY <1>0, <1>3, LatestsType DEF EditInsertDraft
  <2>3. edit' = [edit EXCEPT ![e] = edit'[e]] /\ edit'[e] \in EditTx
    BY <1>0, <2>1, <2>2 DEF EditTx
  <2> QED
    BY <1>0, <1>3, <2>2, <2>3 DEF EditInsertDraft
<1>4. CASE EditClone(e)
  <2> DEFINE copied == Remap(rows[edit[e].source].content, edit[e].rev)
  <2>1. edit[e].source \in Revisions /\ edit[e].rev \in 0..MaxRevision
    BY <1>0, <1>4 DEF EditClone, DraftsApart, EditTx
  <2>2. rows[edit[e].source].content \subseteq Item
    BY <2>1 DEF Row
  <2>3. copied \in SUBSET Item
    <3>1. 0 \in 0..MaxRevision
      BY <1>0
    <3> QED
      BY <2>1, <2>2, <3>1 DEF Remap, Item
  <2>4. edit' = [edit EXCEPT ![e] = [edit[e] EXCEPT !.pc = "write", !.content = copied]]
    BY <1>4 DEF EditClone
  <2> HIDE DEF copied
  <2>5. edit' = [edit EXCEPT ![e] = edit'[e]] /\ edit'[e] \in EditTx
    BY <1>0, <2>3, <2>4 DEF EditTx
  <2> QED
    BY <1>0, <1>4, <2>5 DEF EditClone
<1>5. CASE EditFail(e)
  BY <1>0, <1>5 DEF EditFail, EditTx
<1> QED
  BY <1>1, <1>2, <1>3, <1>4, <1>5 DEF Edit

\* A draft that is being built stays apart.
LEMMA EditApart ==
    ASSUME StoreInv, NEW e \in Edits, Edit(e), ~ EditCommit(e)
    PROVE  StoreInv'
<1> USE DEF StoreInv
<1>1. /\ edit' = [edit EXCEPT ![e] = edit'[e]] /\ edit'[e] \in EditTx
      /\ nextNumber' \in 1..(MaxRevision + 1) /\ nextNumber' >= nextNumber
      /\ UNCHANGED <<rows, generation, clients, activation, history>>
  BY EditTypes
<1>2. StoreTypeOK'
  BY <1>1 DEF StoreTypeOK
<1>3. WithStatus("active")' # {}
  BY <1>1 DEF WithStatus
<1>4. \A f \in Edits \ {e} : edit'[f] = edit[f]
  BY <1>1 DEF StoreTypeOK
<1>5. nextNumber \in Nat /\ nextNumber' \in Nat /\ nextNumber' >= nextNumber
      /\ Revisions \subseteq Nat
  BY <1>1, RevisionsType DEF StoreTypeOK
\* What the step leaves true of e itself.
<1>6. /\ edit'[e].pc \in {"start", "select", "insert"} => ~ edit'[e].new
      /\ edit'[e].pc \in {"clone", "write"} => edit'[e].rev \in Revisions
      /\ edit'[e].pc = "clone" => edit'[e].source \in Revisions
      /\ edit'[e].new /\ edit'[e].pc \in {"clone", "write"} =>
            /\ rows[edit'[e].rev].status = "none" /\ edit'[e].rev < nextNumber'
            /\ \/ edit'[e].rev = nextNumber
               \/ edit[e].new /\ edit[e].pc = "clone" /\ edit'[e].rev = edit[e].rev
  <2> USE DEF StoreTypeOK
  <2>1. CASE EditReadRoutes(e)
    BY <2>1 DEF EditReadRoutes, DraftsApart, EditTx
  <2>2. CASE EditSelectDraft(e)
    BY <2>2, LatestsType, WithStatusType DEF EditSelectDraft, DraftsApart, EditTx
  <2>3. CASE EditInsertDraft(e)
    <3>1. nextNumber \in Revisions /\ nextNumber' = nextNumber + 1
      BY <2>3, RevisionsType DEF EditInsertDraft, Revisions
    <3>2. edit'[e].rev = nextNumber /\ edit'[e].pc \in {"write", "clone"}
      BY <2>3 DEF EditInsertDraft, EditTx
    <3>3. edit'[e].pc = "clone" => edit'[e].source \in Revisions
      BY <2>3, LatestsType DEF EditInsertDraft, EditTx, Revisions
    <3>4. rows[nextNumber].status = "none"
      BY <3>1, <1>5 DEF DraftsApart
    <3> QED
      BY <1>5, <3>1, <3>2, <3>3, <3>4
  <2>4. CASE EditClone(e)
    <3>1. /\ edit[e].pc = "clone" /\ edit'[e].pc = "write"
          /\ edit'[e].rev = edit[e].rev /\ edit'[e].new = edit[e].new
      BY <2>4 DEF EditClone, EditTx
    <3>2. /\ edit[e].rev \in Revisions
          /\ edit[e].new => rows[edit[e].rev].status = "none" /\ edit[e].rev < nextNumber
      BY <3>1 DEF DraftsApart
    <3>3. edit[e].rev < nextNumber => edit[e].rev < nextNumber'
      <4>1. edit[e].rev \in Nat
        BY <1>5, <3>2
      <4> QED
        BY <1>5, <4>1
    <3> QED
      BY <3>1, <3>2, <3>3
  <2>5. CASE EditFail(e)
    BY <2>5 DEF EditFail, EditTx
  <2> QED
    BY <2>1, <2>2, <2>3, <2>4, <2>5 DEF Edit
<1>7. DraftsApart'
  <2>1. \A i \in Revisions : i >= nextNumber' => rows'[i].status = "none"
    BY <1>1, <1>5 DEF DraftsApart
  <2>2. \A f \in Edits : edit'[f].new /\ edit'[f].pc \in {"clone", "write"} =>
           rows'[edit'[f].rev].status = "none" /\ edit'[f].rev < nextNumber'
    BY <1>1, <1>4, <1>5, <1>6, RevisionsType DEF DraftsApart, Revisions
  <2>3. \A f \in Edits \ {e} :
           edit'[f].new /\ edit'[f].pc \in {"clone", "write"}
           /\ edit'[e].new /\ edit'[e].pc \in {"clone", "write"} =>
              edit'[f].rev # edit'[e].rev
    BY <1>4, <1>5, <1>6 DEF DraftsApart
  <2>4. /\ \A f \in Edits : edit'[f].pc \in {"start", "select", "insert"} => ~ edit'[f].new
        /\ \A f \in Edits : edit'[f].pc \in {"clone", "write"} => edit'[f].rev \in Revisions
        /\ \A f \in Edits : edit'[f].pc = "clone" => edit'[f].source \in Revisions
    BY <1>4, <1>6 DEF DraftsApart
  <2>5. \A f, g \in Edits :
          /\ edit'[f].new /\ edit'[f].pc \in {"clone", "write"}
          /\ edit'[g].new /\ edit'[g].pc \in {"clone", "write"}
          /\ edit'[f].rev = edit'[g].rev
          => f = g
    BY <1>4, <2>3 DEF DraftsApart
  <2> QED
    BY <1>1, <2>1, <2>2, <2>4, <2>5 DEF DraftsApart
<1> QED
  BY <1>1, <1>2, <1>3, <1>7

\* A commit writes to its own draft or into a revision that exists already, and
\* leaves the status of every other row, and of every active one, as it was.
LEMMA CommitInv ==
    ASSUME StoreInv, NEW e \in Edits, EditCommit(e)
    PROVE  StoreInv'
<1> USE DEF StoreInv
<1> DEFINE r == edit[e].rev
           item == [edit |-> e, route |-> edit[e].routes]
<1>1. /\ edit[e].pc = "write" /\ edit' = [edit EXCEPT ![e].pc = "done"]
      /\ UNCHANGED <<nextNumber, generation, clients, activation>>
  BY DEF EditCommit
<1>2. r \in Revisions /\ edit[e] \in EditTx /\ rows[r] \in Row
  BY <1>1 DEF DraftsApart, StoreTypeOK
<1>3. item \in Item
  BY <1>2 DEF Item, EditTx
<1>4. PICK row \in Row :
        /\ rows' = [rows EXCEPT ![r] = row]
        /\ \/ edit[e].new /\ row.status = "draft"
           \/ ~ edit[e].new /\ row.status = rows[r].status
  <2>1. CASE edit[e].new
    <3> DEFINE row == [status |-> "draft", content |-> edit[e].content \union {item}]
    <3>1. rows' = [rows EXCEPT ![r] = row]
      BY <2>1 DEF EditCommit
    <3>2. row \in Row /\ row.status = "draft"
      BY <1>2, <1>3 DEF Row, Statuses, EditTx
    <3> QED
      BY <2>1, <3>1, <3>2
  <2>2. CASE ~ edit[e].new
    <3> DEFINE row == [status |-> rows[r].status, content |-> rows[r].content \union {item}]
    <3>1. rows' = [rows EXCEPT ![r] = row]
      BY <2>2 DEF EditCommit
    <3>2. row \in Row /\ row.status = rows[r].status
      BY <1>2, <1>3 DEF Row
    <3> QED
      BY <2>2, <3>1, <3>2
  <2> QED
    BY <2>1, <2>2
<1>5. /\ rows' \in [Revisions -> Row]
      /\ \A i \in Revisions \ {r} : rows'[i] = rows[i]
      /\ rows'[r].status = row.status
  BY <1>2, <1>4 DEF StoreTypeOK
<1>6. edit'[e].pc = "done" /\ edit' \in [Edits -> EditTx]
      /\ \A f \in Edits \ {e} : edit'[f] = edit[f]
  BY <1>1, <1>2 DEF StoreTypeOK, EditTx
<1>14. history' \in History
  <2>1. TokenInDoubt \in 0..(MaxRevision + MaxGeneration)
    BY TokenInDoubtType
  <2>2. LateEdit(e) \in BOOLEAN /\ ForkedDraft(e) \in BOOLEAN
    BY DEF LateEdit, ForkedDraft
  <2> HIDE DEF r, item
  <2> QED
    BY <2>1, <2>2 DEF EditCommit, StoreTypeOK, History
<1>7. StoreTypeOK'
  BY <1>1, <1>5, <1>6, <1>14 DEF StoreTypeOK
<1>8. edit[e].new => rows[r].status = "none" /\ r < nextNumber
  BY <1>1 DEF DraftsApart
<1>9. WithStatus("active")' # {}
  <2>1. PICK i \in Revisions : rows[i].status = "active"
    BY DEF WithStatus
  <2>2. rows'[i].status = "active"
    BY <1>4, <1>5, <1>8, <2>1
  <2> QED
    BY <2>2 DEF WithStatus
<1>10. \A i \in Revisions : i >= nextNumber => rows'[i].status = "none"
  <2> SUFFICES ASSUME NEW i \in Revisions, i >= nextNumber PROVE rows'[i].status = "none"
    OBVIOUS
  <2>1. rows[i].status = "none"
    BY DEF DraftsApart
  <2>2. edit[e].new => i # r
    BY <1>8, RevisionsType DEF StoreTypeOK
  <2> QED
    BY <1>4, <1>5, <2>1, <2>2
<1>11. \A f \in Edits : edit'[f].new /\ edit'[f].pc \in {"clone", "write"} =>
         rows'[edit'[f].rev].status = "none"
  <2> SUFFICES ASSUME NEW f \in Edits \ {e}, edit[f].new, edit[f].pc \in {"clone", "write"}
               PROVE  rows'[edit[f].rev].status = "none"
    BY <1>6
  <2>1. rows[edit[f].rev].status = "none" /\ edit[f].rev \in Revisions
    BY DEF DraftsApart
  <2>2. edit[e].new => edit[f].rev # r
    BY <1>1 DEF DraftsApart
  <2> QED
    BY <1>4, <1>5, <2>1, <2>2
<1>12. \A a \in Activations : activation[a].pc \in {"selected", "deactivating"} =>
          /\ activation[a].rev \in Revisions
          /\ rows'[activation[a].rev].status # "none"
  <2> SUFFICES ASSUME NEW a \in Activations, activation[a].pc \in {"selected", "deactivating"}
               PROVE  /\ activation[a].rev \in Revisions
                      /\ rows'[activation[a].rev].status # "none"
    OBVIOUS
  <2>1. activation[a].rev \in Revisions /\ rows[activation[a].rev].status # "none"
    BY DEF DraftsApart
  <2> QED
    BY <1>4, <1>5, <2>1
<1>13. DraftsApart'
  BY <1>1, <1>6, <1>10, <1>11, <1>12 DEF DraftsApart
<1> QED
  BY <1>1, <1>7, <1>9, <1>13

\* Whoever deactivates the others sets its own revision active in the same commit.
LEMMA ActivateInv ==
    ASSUME StoreInv, NEW a \in Activations, Activate(a) \/ ActivateNotify(a)
    PROVE  StoreInv'
<1> USE DEF StoreInv
<1>1. UNCHANGED <<nextNumber, generation, clients, edit>>
  BY DEF Activate, ActivateSelect, ActivateDeactivate, ActivateCommit, ActivateFail,
         ActivateNotify
<1>2. activation[a] \in ActivationTx
  BY DEF StoreTypeOK
<1>3. CASE ActivateSelect(a)
  <2> DEFINE x == [activation[a] EXCEPT !.pc = "selected", !.rev = LatestDraft]
  <2>1. activation' = [activation EXCEPT ![a] = x] /\ UNCHANGED <<rows, history>>
    BY <1>3 DEF ActivateSelect
  <2>2. LatestDraft \in Revisions /\ rows[LatestDraft].status = "draft"
        /\ LatestDraft \in 0..MaxRevision
    BY <1>3, LatestsType DEF ActivateSelect, WithStatus
  <2>3. x \in ActivationTx /\ x.rev = LatestDraft
    BY <1>2, <2>2 DEF ActivationTx
  <2> HIDE DEF x
  <2> QED
    BY <1>1, <2>1, <2>2, <2>3 DEF StoreTypeOK, DraftsApart, WithStatus
<1>4. CASE ActivateDeactivate(a)
  <2> DEFINE x == [activation[a] EXCEPT !.pc = "deactivating", !.active = WithStatus("active")]
  <2>1. activation' = [activation EXCEPT ![a] = x] /\ UNCHANGED <<rows, history>>
        /\ activation[a].pc = "selected"
    BY <1>4 DEF ActivateDeactivate
  <2>2. x \in ActivationTx /\ x.rev = activation[a].rev
    BY <1>2, WithStatusType DEF ActivationTx
  <2> HIDE DEF x
  <2> QED
    BY <1>1, <2>1, <2>2 DEF StoreTypeOK, DraftsApart, WithStatus
<1>5. CASE ActivateFail(a) \/ ActivateNotify(a)
  <2>1. PICK pc \in {"failed", "done"} :
           activation' = [activation EXCEPT ![a] = [activation[a] EXCEPT !.pc = pc]]
           /\ UNCHANGED <<rows, history>>
    BY <1>5 DEF ActivateFail, ActivateNotify
  <2> DEFINE x == [activation[a] EXCEPT !.pc = pc]
  <2>2. x \in ActivationTx /\ x.pc = pc
    BY <1>2 DEF ActivationTx
  <2> HIDE DEF x
  <2> QED
    BY <1>1, <2>1, <2>2 DEF StoreTypeOK, DraftsApart, WithStatus, x
<1>6. CASE ActivateCommit(a)
  <2>1. /\ activation[a].pc = "deactivating" /\ activation[a].rev \in Revisions
        /\ rows[activation[a].rev].status # "none"
    BY <1>6 DEF ActivateCommit, DraftsApart
  <2>2. \A i \in Revisions : rows[i] \in Row
    BY DEF StoreTypeOK
  <2>3. /\ rows' \in [Revisions -> Row]
        /\ rows'[activation[a].rev].status = "active"
        /\ \A i \in Revisions : rows'[i].status = "none" <=> rows[i].status = "none"
    BY <1>6, <2>1, <2>2 DEF ActivateCommit, Row, Statuses
  <2> DEFINE x == [activation[a] EXCEPT !.pc = "notify"]
  <2>4. activation' = [activation EXCEPT ![a] = x]
    BY <1>6 DEF ActivateCommit
  <2>5. x \in ActivationTx /\ x.pc = "notify"
    BY <1>2 DEF ActivationTx
  <2> HIDE DEF x
  <2>9. history' \in History
    <3>1. TokenInDoubt \in 0..(MaxRevision + MaxGeneration)
      BY TokenInDoubtType
    <3>2. OlderRevision(a) \in BOOLEAN
      BY DEF OlderRevision
    <3> QED
      BY <1>6, <3>1, <3>2 DEF ActivateCommit, StoreTypeOK, History
  <2>6. StoreTypeOK'
    BY <1>1, <2>3, <2>4, <2>5, <2>9 DEF StoreTypeOK
  <2>7. WithStatus("active")' # {}
    BY <2>1, <2>3 DEF WithStatus
  <2>8. DraftsApart'
    BY <1>1, <2>3, <2>4, <2>5 DEF DraftsApart, StoreTypeOK
  <2> QED
    BY <1>1, <2>6, <2>7, <2>8
<1> QED
  BY <1>3, <1>4, <1>5, <1>6 DEF Activate

\* A client change keeps the invariant.
LEMMA ChangeClientsInv == ASSUME StoreInv, ChangeClients PROVE StoreInv'
<1>1. MaxGeneration \in Nat
  BY StoreAssumption, Zenon
<1>2. UNCHANGED <<rows, nextNumber, edit, activation, history>> /\ generation' = generation + 1
      /\ generation < MaxGeneration /\ clients' = clients + 1
  BY DEF ChangeClients
<1>3. generation' \in 0..MaxGeneration /\ clients' = generation'
  BY <1>1, <1>2 DEF StoreInv, StoreTypeOK
<1> QED
  BY <1>2, <1>3 DEF StoreInv, StoreTypeOK, DraftsApart, WithStatus

\* Every step keeps the invariant, however requests overlap.
LEMMA StoreNextInv == StoreInv /\ [StoreNext]_storeVars => StoreInv'
<1> SUFFICES ASSUME StoreInv, [StoreNext]_storeVars PROVE StoreInv'
  OBVIOUS
<1>1. CASE UNCHANGED storeVars
  BY <1>1 DEF storeVars, StoreInv, StoreTypeOK, DraftsApart, WithStatus
<1> QED
  BY <1>1, EditApart, CommitInv, ActivateInv, ChangeClientsInv DEF StoreNext

\* The invariant has the types and an active revision.
LEMMA ActiveFromInv == StoreInv => StoreTypeOK /\ ActiveExists
BY LatestsType DEF StoreInv, ActiveExists

\* However edits and activations interleave, the runtime always finds an active
\* revision (unit_of_work.go).
THEOREM StoreKeepsActive == StoreSpec => []ActiveExists
BY StoreInitInv, StoreNextInv, ActiveFromInv, PTL DEF StoreSpec

-----------------------------------------------------------------------------
(* The token: what changes the active configuration.                       *)

\* Of two revisions of a set the latest is the one above the others.
LEMMA LatestIs ==
    ASSUME NEW S \in SUBSET Revisions, NEW i \in S, \A j \in S : j <= i
    PROVE  Latest(S) = i
<1>1. \A j \in S : j \in Nat
  BY RevisionsType
<1> DEFINE P(k) == k \in S /\ \A j \in S : j <= k
<1>2. P(i) /\ \A k \in S : P(k) => k = i
  BY <1>1
<1> QED
  BY <1>1, <1>2 DEF Latest

\* The latest active revision is an active one, and is no draft.
LEMMA ActiveIsRow ==
    ASSUME StoreInv
    PROVE  LatestActive \in WithStatus("active") /\ LatestActive \in Revisions
<1>1. WithStatus("active") # {}
  BY DEF StoreInv
<1>2. LatestActive # 0 /\ LatestActive \in WithStatus("active")
  BY <1>1, LatestType, WithStatusType DEF LatestActive
<1> QED
  BY <1>2, WithStatusType

\* The active configuration is that of the latest active row.
LEMMA ActiveConfigSame ==
    ASSUME StoreInv, LatestActive' = LatestActive,
           rows'[LatestActive].content = rows[LatestActive].content,
           UNCHANGED <<generation, clients>>
    PROVE  UNCHANGED ActiveConfig
BY DEF ActiveConfig, ActiveRevisionNumber

\* An edit that is not late changes a draft, or makes one.
LEMMA EditLeavesActive ==
    ASSUME StoreInv, NEW e \in Edits, Edit(e), ~ (EditCommit(e) /\ LateEdit(e))
    PROVE  WithStatus("active")' = WithStatus("active") /\ UNCHANGED ActiveConfig
<1>0. LatestActive \in WithStatus("active") /\ LatestActive \in Revisions
  BY ActiveIsRow
<1>1. CASE ~ EditCommit(e)
  <2>1. UNCHANGED <<rows, generation, clients>>
    BY <1>1, EditTypes
  <2>2. WithStatus("active")' = WithStatus("active")
    BY <2>1 DEF WithStatus
  <2>3. LatestActive' = LatestActive
    BY <2>2 DEF LatestActive
  <2> QED
    BY <2>1, <2>2, <2>3, ActiveConfigSame
<1>2. CASE EditCommit(e)
  <2> DEFINE r == edit[e].rev
  <2>1. /\ r \in Revisions /\ rows \in [Revisions -> Row] /\ rows[r].status # "active"
        /\ UNCHANGED <<generation, clients>>
    BY <1>2 DEF EditCommit, LateEdit, StoreInv, DraftsApart, StoreTypeOK
  <2>2. /\ rows'[r].status # "active"
        /\ \A i \in Revisions \ {r} : rows'[i] = rows[i]
    BY <1>2, <2>1 DEF EditCommit
  <2>3. WithStatus("active")' = WithStatus("active")
    BY <2>1, <2>2 DEF WithStatus
  <2>4. LatestActive' = LatestActive
    BY <2>3 DEF LatestActive
  <2>5. rows'[LatestActive] = rows[LatestActive]
    BY <1>0, <2>1, <2>2 DEF WithStatus
  <2> QED
    BY <2>1, <2>3, <2>4, <2>5, ActiveConfigSame
<1> QED
  BY <1>1, <1>2

\* An activation of a revision at least as new as the active one makes it the
\* latest, and writes nothing into any revision.
LEMMA ActivationRaises ==
    ASSUME StoreInv, NEW a \in Activations, ActivateCommit(a), ~ OlderRevision(a)
    PROVE  /\ UNCHANGED ActiveConfig \/ ActiveRevisionNumber' > ActiveRevisionNumber
           /\ activation'[a].pc = "notify"
<1> DEFINE r == activation[a].rev
<1>1. /\ r \in Revisions /\ rows \in [Revisions -> Row] /\ activation[a] \in ActivationTx
      /\ activation \in [Activations -> ActivationTx]
      /\ UNCHANGED <<generation, clients>> /\ generation \in Nat
  <2>1. MaxGeneration \in Nat
    BY StoreAssumption, Zenon
  <2> QED
    BY <2>1 DEF ActivateCommit, StoreInv, DraftsApart, StoreTypeOK
<1>2. activation'[a].pc = "notify"
  BY <1>1 DEF ActivateCommit, ActivationTx
<1>3. /\ LatestActive \in Revisions /\ LatestActive \in Nat /\ r \in Nat
      /\ LatestActive <= r
  <2>1. LatestActive \in Revisions
    BY ActiveIsRow
  <2>2. LatestActive \in Nat /\ r \in Nat
    BY <1>1, <2>1, RevisionsType
  <2>3. ~ (r < LatestActive)
    BY DEF OlderRevision
  <2> HIDE DEF r
  <2> QED
    BY <2>1, <2>2, <2>3
<1>4. \A i \in Revisions : rows[i].status = "active" => i <= LatestActive
  <2> SUFFICES ASSUME NEW i \in WithStatus("active") PROVE i <= LatestActive
    BY DEF WithStatus
  <2> USE DEF StoreInv
  <2>1. PICK k \in WithStatus("active") : \A j \in WithStatus("active") : j <= k
    <3> DEFINE S == WithStatus("active")
    <3>1. LatestActive = Latest(S) /\ S \in SUBSET Revisions /\ S # {}
      BY WithStatusType DEF LatestActive
    <3> HIDE DEF S
    <3>2. \E k \in S : \A j \in S : j <= k
      BY <3>1, LatestExists
    <3> QED
      BY <3>2 DEF S
  <2>2. LatestActive = k
    BY <2>1, LatestIs, WithStatusType DEF LatestActive
  <2> QED
    BY <2>1, <2>2
<1>5. /\ rows'[r].status = "active"
      /\ \A i \in Revisions : rows'[i].content = rows[i].content
      /\ \A i \in Revisions \ {r} : rows'[i].status = "active" => rows[i].status = "active"
  <2>1. \A i \in Revisions : rows[i] \in Row
    BY <1>1
  <2> QED
    BY <1>1, <2>1 DEF ActivateCommit, Row, Statuses
<1>6. LatestActive' = r
  <2> DEFINE S == {i \in Revisions : rows'[i].status = "active"}
  <2>1. S \in SUBSET Revisions /\ r \in S
    BY <1>1, <1>5
  <2>2. \A j \in S : j <= r
    <3> SUFFICES ASSUME NEW j \in Revisions, rows'[j].status = "active", j # r PROVE j <= r
      BY <1>3
    <3>1. j <= LatestActive /\ j \in Nat
      BY <1>4, <1>5, RevisionsType
    <3> QED
      BY <1>3, <3>1
  <2>3. LatestActive' = Latest(S)
    BY DEF LatestActive, WithStatus, Latest
  <2> HIDE DEF S, r
  <2> QED
    BY <2>1, <2>2, <2>3, LatestIs
<1> HIDE DEF r
<1>7. CASE r = LatestActive
  BY <1>1, <1>2, <1>3, <1>5, <1>6, <1>7, ActiveConfigSame
<1>8. CASE r # LatestActive
  BY <1>1, <1>2, <1>3, <1>6, <1>8 DEF ActiveRevisionNumber
<1> QED
  BY <1>7, <1>8

\* The other steps of an activation change no revision.
LEMMA ActivationWaits ==
    ASSUME StoreInv, NEW a \in Activations,
           Activate(a) \/ ActivateNotify(a), ~ ActivateCommit(a)
    PROVE  UNCHANGED ActiveConfig
<1>1. UNCHANGED <<rows, generation, clients>>
  BY DEF Activate, ActivateSelect, ActivateDeactivate, ActivateFail, ActivateNotify
<1>2. LatestActive' = LatestActive
  BY <1>1 DEF LatestActive, WithStatus
<1> QED
  BY <1>1, <1>2, ActiveConfigSame

\* A client change raises the token of the active revision.
LEMMA ClientsRaise ==
    ASSUME StoreInv, ChangeClients
    PROVE  ActiveRevisionNumber' > ActiveRevisionNumber
<1>1. MaxGeneration \in Nat
  BY StoreAssumption, Zenon
<1>2. generation \in Nat /\ LatestActive \in Nat
  BY <1>1, LatestsType, RevisionsType DEF StoreInv, StoreTypeOK
<1>3. UNCHANGED rows /\ generation' = generation + 1
  BY DEF ChangeClients
<1>4. LatestActive' = LatestActive
  BY <1>3 DEF LatestActive, WithStatus
<1> QED
  BY <1>2, <1>3, <1>4 DEF ActiveRevisionNumber

\* Only a late edit and the activation of an older revision change what the
\* gateways should serve without raising the token.
LEMMA TokenNext ==
    ASSUME StoreInv, [StoreNext]_storeVars
    PROVE  \/ UNCHANGED ActiveConfig
           \/ ActiveRevisionNumber' > ActiveRevisionNumber
           \/ \E e \in Edits : EditCommit(e) /\ LateEdit(e)
           \/ \E a \in Activations : ActivateCommit(a) /\ OlderRevision(a)
<1>1. CASE UNCHANGED storeVars
  <2>1. UNCHANGED <<rows, generation, clients>>
    BY <1>1 DEF storeVars
  <2>2. LatestActive' = LatestActive
    BY <2>1 DEF LatestActive, WithStatus
  <2> QED
    BY <2>1, <2>2, ActiveConfigSame
<1> QED
  BY <1>1, EditLeavesActive, ActivationRaises, ActivationWaits, ClientsRaise
     DEF StoreNext, Activate

\* However requests overlap, every change to what the gateways should serve
\* raises the token they compare, but for a late edit (unit_of_work.go:121) and
\* the activation of an older revision (activation.go).
THEOREM TokenRises == StoreSpec => TokenAdvances
<1>1. StoreInv /\ [StoreNext]_storeVars
         => StoreInv' /\ [ActiveConfig' # ActiveConfig =>
              \/ ActiveRevisionNumber' > ActiveRevisionNumber
              \/ \E e \in Edits : EditCommit(e) /\ LateEdit(e)
              \/ \E a \in Activations : ActivateCommit(a) /\ OlderRevision(a)]_storeVars
  BY StoreNextInv, TokenNext
<1> QED
  BY <1>1, StoreInitInv, PTL DEF StoreSpec, TokenAdvances

-----------------------------------------------------------------------------
(* The edits that are in the current revision.                             *)

EditsOf(S) == {c.edit : c \in S}

\* A draft is cloned from a revision that was active, and is newer; of two
\* activations of a revision one waits for the other.
ClonesApart ==
    /\ \A e \in Edits : edit[e].new /\ edit[e].pc \in {"clone", "write"} =>
          /\ edit[e].source \in Revisions /\ edit[e].source < edit[e].rev
          /\ rows[edit[e].source].status \in {"active", "rejected"}
    /\ \A e \in Edits : edit[e].pc = "clone" => edit[e].new
    /\ \A a, b \in Activations :
          /\ activation[a].pc = "deactivating" /\ activation[b].pc = "deactivating"
          /\ activation[a].rev = activation[b].rev
          => a = b

\* The revisions were active one after the other, and the draft, if there is
\* one, comes next.
OneLine ==
    /\ \A i, j \in Revisions : rows[i].status = "draft" /\ rows[j].status = "draft" => i = j
    /\ \A i, j \in Revisions : rows[i].status = "active" /\ rows[j].status = "active" => i = j
    /\ \A i, j \in Revisions : rows[i].status = "draft" /\ rows[j].status = "active" => j < i
    /\ \A i, j \in Revisions : rows[i].status = "rejected" /\ rows[j].status = "active" => i < j

\* An activation of the draft deactivates what is active.
DeactivatesActive ==
    \A a \in Activations :
        activation[a].pc = "deactivating" /\ activation[a].rev \in WithStatus("draft")
            => activation[a].active = WithStatus("active")

\* A clone has the edits of its source.
ClonesHold ==
    \A e \in Edits : edit[e].new /\ edit[e].pc = "write" =>
        EditsOf(edit[e].content) = EditsOf(rows[edit[e].source].content)

\* What edits have committed is in the draft, or in the active revision when
\* there is no draft.
EditsHeld ==
    \A e \in Edits : edit[e].pc = "done" =>
        /\ \A i \in WithStatus("draft") : e \in EditsOf(rows[i].content)
        /\ WithStatus("draft") = {} =>
              \A i \in WithStatus("active") : e \in EditsOf(rows[i].content)

Straight == OneLine /\ DeactivatesActive /\ ClonesHold /\ EditsHeld

EditInv == StoreInv /\ ClonesApart /\ (~ history.forked => Straight)

\* The seeded store satisfies the invariant.
LEMMA EditInit == StoreInit => EditInv
<1> SUFFICES ASSUME StoreInit PROVE EditInv
  OBVIOUS
<1>1. /\ \A e \in Edits : edit[e].pc = "start" /\ ~ edit[e].new
      /\ \A a \in Activations : activation[a].pc = "start"
      /\ \A i \in Revisions : rows[i].status = IF i = 1 THEN "active" ELSE "none"
  BY DEF StoreInit
<1> QED
  BY <1>1, StoreInitInv
     DEF EditInv, ClonesApart, Straight, OneLine, DeactivatesActive, ClonesHold, EditsHeld

\* Remapping the routes of the records keeps the edits.
LEMMA RemapKeepsEdits ==
    ASSUME NEW S \in SUBSET Item, NEW target
    PROVE  EditsOf(Remap(S, target)) = EditsOf(S)
<1> DEFINE Copy(c) == [c EXCEPT !.route = IF c.route = 0 THEN 0 ELSE target]
<1>1. \A c \in S : Copy(c).edit = c.edit
  BY DEF Item
<1>2. Remap(S, target) = {Copy(c) : c \in S}
  BY DEF Remap
<1> HIDE DEF Copy
<1> QED
  BY <1>1, <1>2 DEF EditsOf

\* What an edit has prepared, before it commits.
LEMMA EditPrepared ==
    ASSUME EditInv, NEW e \in Edits, Edit(e), ~ EditCommit(e)
    PROVE  /\ edit'[e].pc \notin {"start", "done"}
           /\ edit'[e].pc = "clone" => edit'[e].new
           /\ edit'[e].new /\ edit'[e].pc \in {"clone", "write"} =>
                /\ edit'[e].source \in Revisions /\ edit'[e].source < edit'[e].rev
                /\ rows[edit'[e].source].status \in {"active", "rejected"}
           /\ edit'[e].new /\ edit'[e].pc = "write" =>
                EditsOf(edit'[e].content) = EditsOf(rows[edit'[e].source].content)
<1> USE DEF EditInv, StoreInv, StoreTypeOK
<1>0. edit[e] \in EditTx
  OBVIOUS
<1>1. CASE EditReadRoutes(e)
  BY <1>0, <1>1 DEF EditReadRoutes, EditTx
<1>2. CASE EditSelectDraft(e)
  <2>1. edit[e].pc = "select" /\ ~ edit[e].new
    BY <1>2 DEF EditSelectDraft, DraftsApart
  <2>2. edit'[e].pc \in {"write", "insert"} /\ ~ edit'[e].new
    BY <1>0, <1>2, <2>1 DEF EditSelectDraft, EditTx
  <2> QED
    BY <2>2
<1>3. CASE EditInsertDraft(e)
  <2>1. LatestActive \in Revisions /\ LatestActive # 0 /\ LatestActive \in WithStatus("active")
    BY ActiveIsRow, RevisionsType
  <2>2. /\ edit'[e].pc = "clone" /\ edit'[e].new
        /\ edit'[e].source = LatestActive /\ edit'[e].rev = nextNumber
    BY <1>0, <1>3, <2>1 DEF EditInsertDraft, EditTx
  <2>3. LatestActive < nextNumber
    <3>1. ~ (LatestActive >= nextNumber)
      BY <2>1 DEF DraftsApart, WithStatus
    <3>2. LatestActive \in Nat /\ nextNumber \in Nat
      BY <2>1, RevisionsType
    <3> QED
      BY <3>1, <3>2
  <2> QED
    BY <2>1, <2>2, <2>3 DEF WithStatus
<1>4. CASE EditClone(e)
  <2> DEFINE copied == Remap(rows[edit[e].source].content, edit[e].rev)
  <2>1. /\ edit[e].pc = "clone" /\ edit[e].new /\ edit[e].source \in Revisions
        /\ edit[e].source < edit[e].rev
        /\ rows[edit[e].source].status \in {"active", "rejected"}
    BY <1>4 DEF EditClone, ClonesApart
  <2>2. edit' = [edit EXCEPT ![e] = [edit[e] EXCEPT !.pc = "write", !.content = copied]]
    BY <1>4 DEF EditClone
  <2>3. EditsOf(copied) = EditsOf(rows[edit[e].source].content)
    <3>1. rows[edit[e].source].content \in SUBSET Item
      BY <2>1 DEF Row
    <3> QED
      BY <3>1, RemapKeepsEdits
  <2> HIDE DEF copied
  <2>4. /\ edit'[e].pc = "write" /\ edit'[e].content = copied
        /\ edit'[e].new = edit[e].new /\ edit'[e].rev = edit[e].rev
        /\ edit'[e].source = edit[e].source
    BY <1>0, <2>2 DEF EditTx
  <2> QED
    BY <2>1, <2>3, <2>4
<1>5. CASE EditFail(e)
  BY <1>0, <1>5 DEF EditFail, EditTx
<1> QED
  BY <1>1, <1>2, <1>3, <1>4, <1>5 DEF Edit

\* The steps of an edit before its commit change no revision.
LEMMA EditPrepares ==
    ASSUME EditInv, NEW e \in Edits, Edit(e), ~ EditCommit(e)
    PROVE  EditInv'
<1>1. StoreInv'
  BY EditApart DEF EditInv
<1>2. /\ edit' = [edit EXCEPT ![e] = edit'[e]]
      /\ UNCHANGED <<rows, activation, history>>
  BY EditTypes DEF EditInv
<1>3. \A f \in Edits \ {e} : edit'[f] = edit[f]
  BY <1>2 DEF EditInv, StoreInv, StoreTypeOK
<1>4. ClonesApart'
  BY <1>2, <1>3, EditPrepared DEF EditInv, ClonesApart
<1>5. ASSUME Straight PROVE Straight'
  <2>1. OneLine' /\ DeactivatesActive'
    BY <1>2, <1>5 DEF Straight, OneLine, DeactivatesActive, WithStatus
  <2>2. ClonesHold'
    BY <1>2, <1>3, <1>5, EditPrepared DEF Straight, ClonesHold
  <2>3. \A f \in Edits : edit'[f].pc = "done" => edit[f].pc = "done"
    BY <1>3, EditPrepared
  <2>4. EditsHeld'
    BY <1>2, <1>5, <2>3 DEF Straight, EditsHeld, WithStatus
  <2> QED
    BY <2>1, <2>2, <2>4 DEF Straight
<1> QED
  BY <1>1, <1>2, <1>4, <1>5 DEF EditInv

\* An edit commits to the draft it found, or to the one it made.
LEMMA EditCommits ==
    ASSUME EditInv, NEW e \in Edits, EditCommit(e)
    PROVE  EditInv'
<1> DEFINE r == edit[e].rev
           item == [edit |-> e, route |-> edit[e].routes]
           base == IF edit[e].new THEN edit[e].content ELSE rows[r].content
<1>1. StoreInv'
  BY CommitInv DEF EditInv
<1>2. /\ edit[e].pc = "write" /\ edit' = [edit EXCEPT ![e].pc = "done"]
      /\ UNCHANGED activation
      /\ history'.forked = (history.forked \/ LateEdit(e) \/ ForkedDraft(e))
  BY DEF EditCommit
<1>3. /\ r \in Revisions /\ edit[e] \in EditTx /\ rows \in [Revisions -> Row]
      /\ edit \in [Edits -> EditTx]
  BY <1>2 DEF DraftsApart, StoreTypeOK, EditInv, StoreInv
<1>4. /\ edit'[e].pc = "done"
      /\ \A f \in Edits \ {e} : edit'[f] = edit[f]
  BY <1>2, <1>3 DEF EditTx
<1>5. edit[e].new => rows[r].status = "none"
  BY <1>2 DEF EditInv, StoreInv, DraftsApart
<1>6. /\ rows'[r].status = IF edit[e].new THEN "draft" ELSE rows[r].status
      /\ rows'[r].content = base \union {item}
      /\ \A i \in Revisions \ {r} : rows'[i] = rows[i]
  BY <1>3 DEF EditCommit
<1> HIDE DEF item
<1>7. ClonesApart'
  <2>1. \A i \in Revisions : rows[i].status \in {"active", "rejected"} =>
           rows'[i].status = rows[i].status
    BY <1>5, <1>6
  <2> QED
    BY <1>2, <1>4, <2>1 DEF EditInv, ClonesApart
<1>8. ASSUME ~ history'.forked PROVE Straight'
  <2> USE DEF EditInv
  <2>1. Straight /\ ~ LateEdit(e) /\ ~ ForkedDraft(e)
    BY <1>2, <1>8
  <2>2. ~ edit[e].new => rows[r].status = "draft"
    BY <2>1 DEF LateEdit
  <2>3. rows'[r].status = "draft"
    BY <1>6, <2>2
  <2>4. \A i \in Revisions \ {r} : rows[i].status # "draft"
    <3>1. CASE ~ edit[e].new
      BY <1>3, <2>1, <2>2, <3>1 DEF Straight, OneLine
    <3>2. CASE edit[e].new
      <4>1. LatestDraft = 0
        BY <2>1, <3>2 DEF ForkedDraft
      <4>2. WithStatus("draft") = {}
        BY <4>1, LatestType, WithStatusType DEF LatestDraft
      <4> QED
        BY <4>2 DEF WithStatus
    <3> QED
      BY <3>1, <3>2
  <2>5. \A i \in Revisions : rows'[i].status = "active" <=> rows[i].status = "active" /\ i # r
    BY <1>6, <2>3
  <2>6. \A j \in Revisions : rows[j].status = "active" => j < r
    <3>1. CASE ~ edit[e].new
      BY <1>3, <2>1, <2>2, <3>1 DEF Straight, OneLine
    <3>2. CASE edit[e].new
      <4>1. edit[e].source = LatestActive /\ edit[e].source < r
        BY <1>2, <2>1, <3>2 DEF ForkedDraft, ClonesApart
      <4>2. LatestActive \in WithStatus("active")
        BY ActiveIsRow
      <4> QED
        BY <2>1, <4>1, <4>2 DEF Straight, OneLine, WithStatus
    <3> QED
      BY <3>1, <3>2
  <2>7. OneLine'
    <3>1. \A i \in Revisions : rows'[i].status = "draft" <=> i = r
      BY <1>3, <1>6, <2>3, <2>4
    <3>2. \A i \in Revisions : rows'[i].status = "rejected" => rows[i].status = "rejected"
      BY <1>6, <2>3
    <3> HIDE DEF r
    <3> QED
      BY <2>1, <2>5, <2>6, <3>1, <3>2 DEF Straight, OneLine
  <2>8. WithStatus("active")' = WithStatus("active")
    <3>1. \A i \in Revisions : rows'[i].status = "active" <=> rows[i].status = "active"
      BY <1>3, <1>5, <2>2, <2>5
    <3> QED
      BY <3>1 DEF WithStatus
  <2>9. WithStatus("draft")' = {r}
    <3>1. \A i \in Revisions : rows'[i].status = "draft" <=> i = r
      BY <1>3, <1>6, <2>3, <2>4
    <3> QED
      BY <1>3, <3>1 DEF WithStatus
  <2>10. DeactivatesActive'
    <3> SUFFICES ASSUME NEW a \in Activations, activation[a].pc = "deactivating",
                        activation[a].rev = r
                 PROVE  activation[a].active = WithStatus("active")
      BY <1>2, <2>8, <2>9 DEF DeactivatesActive
    <3>1. rows[r].status # "none"
      BY DEF StoreInv, DraftsApart
    <3>2. r \in WithStatus("draft")
      BY <1>3, <1>5, <2>2, <3>1 DEF WithStatus
    <3> QED
      BY <2>1, <3>2 DEF Straight, DeactivatesActive
  <2>11. ClonesHold'
    <3> SUFFICES ASSUME NEW f \in Edits \ {e}, edit[f].new, edit[f].pc = "write"
                 PROVE  EditsOf(edit[f].content) = EditsOf(rows'[edit[f].source].content)
      BY <1>4 DEF ClonesHold, EditsOf
    <3>1. edit[f].source \in Revisions
          /\ rows[edit[f].source].status \in {"active", "rejected"}
      BY DEF ClonesApart
    <3>2. edit[f].source # r
      BY <1>5, <2>2, <3>1
    <3> QED
      BY <1>6, <2>1, <3>1, <3>2 DEF Straight, ClonesHold
  <2>12. EditsHeld'
    <3>1. \A g \in Edits : edit[g].pc = "done" => g \in EditsOf(base)
      <4>1. CASE ~ edit[e].new
        BY <1>3, <2>1, <2>2, <4>1 DEF Straight, EditsHeld, WithStatus
      <4>2. CASE edit[e].new
        <5>1. edit[e].source = LatestActive /\ LatestActive \in WithStatus("active")
          BY <2>1, <4>2, ActiveIsRow DEF ForkedDraft
        <5>2. WithStatus("draft") = {}
          BY <1>3, <1>5, <2>4, <4>2 DEF WithStatus
        <5>3. EditsOf(edit[e].content) = EditsOf(rows[LatestActive].content)
          BY <1>2, <2>1, <4>2, <5>1 DEF Straight, ClonesHold
        <5> QED
          BY <2>1, <4>2, <5>1, <5>2, <5>3 DEF Straight, EditsHeld
      <4> QED
        BY <4>1, <4>2
    <3>2. item.edit = e
      BY DEF item
    <3> HIDE DEF base
    <3>3. \A g \in Edits : edit'[g].pc = "done" => g \in EditsOf(rows'[r].content)
      BY <1>4, <1>6, <3>1, <3>2 DEF EditsOf
    <3> QED
      BY <2>9, <3>3 DEF EditsHeld
  <2> QED
    BY <2>7, <2>10, <2>11, <2>12 DEF Straight
<1> QED
  BY <1>1, <1>7, <1>8 DEF EditInv

\* An activation selects and looks, before it commits.
LEMMA ActivationPrepares ==
    ASSUME EditInv, NEW a \in Activations,
           Activate(a) \/ ActivateNotify(a), ~ ActivateCommit(a)
    PROVE  EditInv'
<1>1. StoreInv'
  BY ActivateInv DEF EditInv
<1>2. UNCHANGED <<rows, edit, history>>
  BY DEF Activate, ActivateSelect, ActivateDeactivate, ActivateFail, ActivateNotify
<1>3. activation[a] \in ActivationTx /\ activation \in [Activations -> ActivationTx]
  BY DEF EditInv, StoreInv, StoreTypeOK
<1>4. /\ \A b \in Activations \ {a} : activation'[b] = activation[b]
      /\ activation'[a].pc = "deactivating" =>
            /\ activation'[a].active = WithStatus("active")
            /\ \A b \in Activations \ {a} :
                  activation[b].pc = "deactivating" => activation[b].rev # activation'[a].rev
  <2>1. CASE ActivateSelect(a)
    BY <1>3, <2>1 DEF ActivateSelect, ActivationTx
  <2>2. CASE ActivateDeactivate(a)
    BY <1>3, <2>2 DEF ActivateDeactivate, ActivationTx
  <2>3. CASE ActivateFail(a) \/ ActivateNotify(a)
    BY <1>3, <2>3 DEF ActivateFail, ActivateNotify, ActivationTx
  <2> QED
    BY <2>1, <2>2, <2>3 DEF Activate
<1>5. ClonesApart'
  BY <1>2, <1>4 DEF EditInv, ClonesApart
<1>6. ASSUME Straight PROVE Straight'
  <2>1. OneLine' /\ ClonesHold' /\ EditsHeld'
    BY <1>2, <1>6 DEF Straight, OneLine, ClonesHold, EditsHeld, WithStatus
  <2>2. DeactivatesActive'
    BY <1>2, <1>4, <1>6 DEF Straight, DeactivatesActive, WithStatus
  <2> QED
    BY <2>1, <2>2 DEF Straight
<1> QED
  BY <1>1, <1>2, <1>5, <1>6 DEF EditInv

\* An activation makes the draft the one active revision, or finds its revision
\* active already.
LEMMA ActivationCommits ==
    ASSUME EditInv, NEW a \in Activations, ActivateCommit(a)
    PROVE  EditInv'
<1> DEFINE r == activation[a].rev
<1>1. StoreInv'
  BY ActivateInv DEF EditInv, Activate
<1>2. /\ activation[a].pc = "deactivating" /\ activation' = [activation EXCEPT ![a].pc = "notify"]
      /\ UNCHANGED edit
      /\ history'.forked = (history.forked \/ OlderRevision(a))
  BY DEF ActivateCommit
<1>3. /\ activation \in [Activations -> ActivationTx] /\ rows \in [Revisions -> Row]
      /\ r \in Revisions /\ rows[r].status # "none"
  BY <1>2 DEF EditInv, StoreInv, StoreTypeOK, DraftsApart
<1>4. /\ activation'[a].pc = "notify"
      /\ \A b \in Activations \ {a} : activation'[b] = activation[b]
  BY <1>2, <1>3 DEF ActivationTx
<1>5. /\ rows'[r].status = "active"
      /\ \A i \in Revisions \ {r} :
            rows'[i].status = IF i \in activation[a].active /\ rows[i].status = "active"
                              THEN "rejected" ELSE rows[i].status
      /\ \A i \in Revisions : rows'[i].content = rows[i].content
  <2>1. \A i \in Revisions : rows[i] \in Row
    BY <1>3
  <2> QED
    BY <1>3, <2>1 DEF ActivateCommit, Row, Statuses
<1>6. ClonesApart'
  <2>1. \A i \in Revisions : rows[i].status \in {"active", "rejected"} =>
           rows'[i].status \in {"active", "rejected"}
    BY <1>5
  <2> QED
    BY <1>2, <1>4, <2>1 DEF EditInv, ClonesApart
<1>7. ASSUME ~ history'.forked PROVE Straight'
  <2> USE DEF EditInv
  <2>1. Straight /\ ~ (r < LatestActive)
    BY <1>2, <1>7 DEF OlderRevision
  <2>2. LatestActive \in Revisions /\ rows[LatestActive].status = "active"
    BY ActiveIsRow DEF WithStatus
  <2>3. rows[r].status \in {"active", "draft"}
    <3>1. rows[r].status # "rejected"
      BY <1>3, <2>1, <2>2 DEF Straight, OneLine
    <3> QED
      BY <1>3, <3>1 DEF Row, Statuses
  <2>4. ClonesHold'
    <3>1. \A f \in Edits : edit[f].new /\ edit[f].pc = "write" => edit[f].source \in Revisions
      BY DEF ClonesApart
    <3> QED
      BY <1>2, <1>5, <2>1, <3>1 DEF Straight, ClonesHold
  <2>5. CASE rows[r].status = "active"
    <3>1. \A i \in Revisions : rows[i].status = "active" => i = r
      BY <1>3, <2>1, <2>5 DEF Straight, OneLine
    <3>2. \A i \in Revisions : rows'[i].status = rows[i].status
      BY <1>5, <2>5, <3>1
    <3>3. \A s : WithStatus(s)' = WithStatus(s)
      BY <3>2 DEF WithStatus
    <3>4. WithStatus("draft")' = WithStatus("draft") /\ WithStatus("active")' = WithStatus("active")
      BY <3>3
    <3>5. OneLine'
      BY <2>1, <3>2 DEF Straight, OneLine
    <3>6. DeactivatesActive'
      BY <1>4, <2>1, <3>4 DEF Straight, DeactivatesActive
    <3>7. EditsHeld'
      <4>1. WithStatus("draft") \subseteq Revisions /\ WithStatus("active") \subseteq Revisions
        BY DEF WithStatus
      <4> QED
        BY <1>2, <1>5, <2>1, <3>4, <4>1 DEF Straight, EditsHeld
    <3> QED
      BY <2>4, <3>5, <3>6, <3>7 DEF Straight
  <2>6. CASE rows[r].status = "draft"
    <3>1. \A i \in Revisions : rows[i].status = "draft" => i = r
      BY <1>3, <2>1, <2>6 DEF Straight, OneLine
    <3>2. \A i \in Revisions : rows[i].status = "active" => i < r /\ i # r
      BY <1>3, <2>1, <2>6 DEF Straight, OneLine
    <3>3. activation[a].active = WithStatus("active")
      BY <1>2, <1>3, <2>1, <2>6 DEF Straight, DeactivatesActive, WithStatus
    <3>4. \A i \in Revisions \ {r} :
             rows'[i].status = IF rows[i].status = "active" THEN "rejected" ELSE rows[i].status
      BY <1>5, <3>3 DEF WithStatus
    <3>5. \A i \in Revisions : rows'[i].status # "draft"
      BY <1>5, <3>1, <3>4
    <3>6. \A i \in Revisions : rows'[i].status = "active" <=> i = r
      BY <1>3, <1>5, <3>4
    <3>7. \A i \in Revisions : rows'[i].status = "rejected" => i < r
      <4> SUFFICES ASSUME NEW i \in Revisions, rows'[i].status = "rejected" PROVE i < r
        OBVIOUS
      <4>1. rows[i].status = "active" \/ rows[i].status = "rejected"
        BY <1>5, <3>4
      <4>2. ASSUME rows[i].status = "rejected" PROVE i < r
        <5>1. i < LatestActive
          BY <2>1, <2>2, <4>2 DEF Straight, OneLine
        <5>2. LatestActive < r
          BY <2>2, <3>2
        <5>3. i \in Nat /\ LatestActive \in Nat /\ r \in Nat
          BY <1>3, <2>2, RevisionsType
        <5> HIDE DEF r
        <5> QED
          BY <5>1, <5>2, <5>3
      <4> QED
        BY <3>2, <4>1, <4>2
    <3>8. OneLine'
      BY <3>5, <3>6, <3>7 DEF OneLine
    <3>9. WithStatus("draft")' = {} /\ WithStatus("active")' = {r}
      BY <1>3, <3>5, <3>6 DEF WithStatus
    <3>10. DeactivatesActive'
      BY <3>9 DEF DeactivatesActive
    <3>11. EditsHeld'
      <4>1. r \in WithStatus("draft")
        BY <1>3, <2>6 DEF WithStatus
      <4> QED
        BY <1>2, <1>3, <1>5, <2>1, <3>9, <4>1 DEF Straight, EditsHeld
    <3> QED
      BY <2>4, <3>8, <3>10, <3>11 DEF Straight
  <2> QED
    BY <2>3, <2>5, <2>6
<1> QED
  BY <1>1, <1>6, <1>7 DEF EditInv

\* Every step keeps the committed edits in the line of the revisions, unless it
\* forks it.
LEMMA EditNext == EditInv /\ [StoreNext]_storeVars => EditInv'
<1> SUFFICES ASSUME EditInv, [StoreNext]_storeVars PROVE EditInv'
  OBVIOUS
<1>1. ASSUME UNCHANGED <<rows, edit, activation, history>> PROVE EditInv'
  <2>1. StoreInv'
    BY StoreNextInv DEF EditInv
  <2> QED
    BY <1>1, <2>1 DEF EditInv, ClonesApart, Straight, OneLine, DeactivatesActive, ClonesHold,
                      EditsHeld, WithStatus
<1>2. CASE UNCHANGED storeVars
  BY <1>1, <1>2 DEF storeVars
<1>3. CASE ChangeClients
  BY <1>1, <1>3 DEF ChangeClients
<1>4. ASSUME NEW e \in Edits, Edit(e) PROVE EditInv'
  BY <1>4, EditPrepares, EditCommits
<1>5. ASSUME NEW a \in Activations, Activate(a) \/ ActivateNotify(a) PROVE EditInv'
  BY <1>5, ActivationPrepares, ActivationCommits
<1> QED
  BY <1>2, <1>3, <1>4, <1>5 DEF StoreNext

\* The edits done are in the draft, or in what is active.
LEMMA EditsFromInv == EditInv => EditsKept
<1> SUFFICES ASSUME EditInv, ~ history.forked, NEW e \in Edits, edit[e].pc = "done"
             PROVE  \E c \in rows[CurrentRevision].content : c.edit = e
  BY DEF EditsKept
<1>0. EditsHeld
  BY DEF EditInv, Straight
<1>1. e \in EditsOf(rows[CurrentRevision].content)
  <2>1. CASE LatestDraft # 0
    <3>1. LatestDraft \in WithStatus("draft")
      BY <2>1, LatestsType
    <3> QED
      BY <1>0, <2>1, <3>1 DEF CurrentRevision, EditsHeld
  <2>2. CASE LatestDraft = 0
    <3>1. WithStatus("draft") = {}
      BY <2>2, LatestType, WithStatusType DEF LatestDraft
    <3>2. LatestActive \in WithStatus("active")
      BY ActiveIsRow DEF EditInv
    <3> QED
      BY <1>0, <2>2, <3>1, <3>2 DEF CurrentRevision, EditsHeld
  <2> QED
    BY <2>1, <2>2
<1> QED
  BY <1>1 DEF EditsOf

\* A committed edit is in the revision that edits and activations work on from
\* then on, through any interleaving without a late edit, a forked draft or the
\* activation of an older revision (unit_of_work.go, draft.go, activation.go).
THEOREM EditsStay == StoreSpec => []EditsKept
BY EditInit, EditNext, EditsFromInv, PTL DEF StoreSpec

=============================================================================
