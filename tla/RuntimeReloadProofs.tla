------------------------ MODULE RuntimeReloadProofs ------------------------
(***************************************************************************)
(* Proofs about the watchers, for any number of watchers, edits,           *)
(* activations and restarts.                                               *)
(***************************************************************************)
EXTENDS RuntimeReload, RevisionStoreProofs

-----------------------------------------------------------------------------
(* Types.                                                                  *)

TypeInv == StoreInv /\ TypeOK

\* What a reload reads is a configuration and a token.
LEMMA ActiveConfigType ==
    ASSUME StoreInv
    PROVE  ActiveConfig \in Config /\ ActiveRevisionNumber \in Nat
<1>1. MaxGeneration \in Nat
  BY StoreAssumption, Zenon
<1>2. /\ generation \in 0..MaxGeneration /\ clients \in 0..MaxGeneration
      /\ rows \in [Revisions -> Row]
  BY DEF StoreInv, StoreTypeOK
<1>3. LatestActive \in 0..MaxRevision /\ LatestActive \in Revisions /\ MaxRevision \in Nat
  BY LatestsType, ActiveIsRow, RevisionsType
<1>4. /\ ActiveRevisionNumber \in 0..(MaxRevision + MaxGeneration)
      /\ ActiveRevisionNumber \in Nat
  BY <1>1, <1>2, <1>3 DEF ActiveRevisionNumber
<1>5. {c.edit : c \in rows[LatestActive].content} \in SUBSET Edits
  <2>1. rows[LatestActive].content \subseteq Item
    BY <1>2, <1>3 DEF Row
  <2> QED
    BY <2>1 DEF Item
<1> QED
  BY <1>2, <1>3, <1>4, <1>5 DEF ActiveConfig, Config

\* No configuration is a value of what a watcher serves.
LEMMA NoConfigType == NoConfig \in Config
<1>1. MaxGeneration \in Nat
  BY StoreAssumption, Zenon
<1> QED
  BY <1>1, RevisionsType DEF NoConfig, Config

\* A watcher starts well typed.
LEMMA BootingType == Booting \in Watcher
BY NoConfigType DEF Booting, Watcher

\* The watchers start well typed.
LEMMA InitType == Init => TypeInv
<1> SUFFICES ASSUME Init PROVE TypeInv
  OBVIOUS
<1>1. StoreInv
  BY StoreInitInv DEF Init
<1>2. MaxCrashes \in Nat
  BY ReloadAssumption, Zenon
<1>3. /\ watcher \in [Watchers -> Watcher] /\ ready \in BOOLEAN
      /\ crashes \in 0..MaxCrashes
  BY <1>2, BootingType DEF Init
<1> QED
  BY <1>1, <1>3 DEF TypeInv, TypeOK, StoreInv

\* A watcher's step changes that watcher, and never the store.
LEMMA WatcherTypes ==
    ASSUME TypeInv, NEW w \in Watchers, WatcherStep(w)
    PROVE  /\ watcher' = [watcher EXCEPT ![w] = watcher'[w]] /\ watcher'[w] \in Watcher
           /\ ready' \in BOOLEAN
           /\ UNCHANGED <<storeVars, crashes>>
<1> USE DEF TypeInv, TypeOK
<1>0. watcher[w] \in Watcher /\ watcher \in [Watchers -> Watcher] /\ ready \in BOOLEAN
  OBVIOUS
<1>1. CASE Boot(w)
  <2> DEFINE x == [watcher[w] EXCEPT !.pc = "subscribe", !.served = ActiveConfig]
  <2>1. watcher' = [watcher EXCEPT ![w] = x] /\ UNCHANGED <<storeVars, crashes>>
        /\ ready' \in BOOLEAN
    BY <1>1 DEF Boot
  <2>3. ActiveConfig \in Config
    BY ActiveConfigType
  <2>2. x \in Watcher
    BY <1>0, <2>3 DEF Watcher
  <2> HIDE DEF x
  <2> QED
    BY <1>0, <2>1, <2>2
<1>2. CASE Subscribe(w)
  <2> DEFINE x == [watcher[w] EXCEPT !.pc = "check", !.conn = "listening"]
  <2>1. watcher' = [watcher EXCEPT ![w] = x] /\ UNCHANGED <<storeVars, crashes>>
        /\ ready' \in BOOLEAN
    BY <1>2 DEF Subscribe
  <2>2. x \in Watcher
    BY <1>0 DEF Watcher
  <2> HIDE DEF x
  <2> QED
    BY <1>0, <2>1, <2>2
<1>3. CASE SubscribeFails(w)
  <2> DEFINE x == [watcher[w] EXCEPT !.pc = "check"]
  <2>1. watcher' = [watcher EXCEPT ![w] = x] /\ UNCHANGED <<storeVars, crashes>>
        /\ ready' \in BOOLEAN
    BY <1>3 DEF SubscribeFails
  <2>2. x \in Watcher
    BY <1>0 DEF Watcher
  <2> HIDE DEF x
  <2> QED
    BY <1>0, <2>1, <2>2
<1>4. CASE ConnectionLost(w)
  <2>1. PICK p \in {FALSE, watcher[w].pending} :
           watcher' = [watcher EXCEPT ![w].conn = "closed", ![w].pending = p]
    BY <1>4 DEF ConnectionLost
  <2>2. p \in BOOLEAN
    BY <1>0, <2>1 DEF Watcher
  <2>3. watcher' = [watcher EXCEPT ![w] = watcher'[w]] /\ watcher'[w] \in Watcher
    BY <1>0, <2>1, <2>2 DEF Watcher
  <2> QED
    BY <1>4, <2>3 DEF ConnectionLost
<1>5. CASE SubscriberClosed(w)
  <2> DEFINE x == [watcher[w] EXCEPT !.conn = "none"]
  <2>1. watcher' = [watcher EXCEPT ![w] = x] /\ UNCHANGED <<storeVars, crashes>>
        /\ ready' \in BOOLEAN
    BY <1>5 DEF SubscriberClosed
  <2>2. x \in Watcher
    BY <1>0 DEF Watcher
  <2> HIDE DEF x
  <2> QED
    BY <1>0, <2>1, <2>2
<1>6. CASE Notified(w)
  <2> DEFINE x == [watcher[w] EXCEPT !.pc = "check", !.pending = FALSE]
  <2>1. watcher' = [watcher EXCEPT ![w] = x] /\ UNCHANGED <<storeVars, crashes>>
        /\ ready' \in BOOLEAN
    BY <1>6 DEF Notified
  <2>2. x \in Watcher
    BY <1>0 DEF Watcher
  <2> HIDE DEF x
  <2> QED
    BY <1>0, <2>1, <2>2
<1>7. CASE Tick(w)
  <2> DEFINE x == [watcher[w] EXCEPT !.pc = "check"]
  <2>1. watcher' = [watcher EXCEPT ![w] = x] /\ UNCHANGED <<storeVars, crashes>>
        /\ ready' \in BOOLEAN
    BY <1>7 DEF Tick
  <2>2. x \in Watcher
    BY <1>0 DEF Watcher
  <2> HIDE DEF x
  <2> QED
    BY <1>0, <2>1, <2>2
<1>8. CASE CheckFails(w) \/ LoadFails(w) \/ CompileFails(w)
  <2> DEFINE x == [watcher[w] EXCEPT !.pc = "wait", !.failed = TRUE]
  <2>1. watcher' = [watcher EXCEPT ![w] = x] /\ UNCHANGED <<storeVars, crashes>>
        /\ ready' \in BOOLEAN
    BY <1>8 DEF CheckFails, LoadFails, CompileFails, ReloadFails
  <2>2. x \in Watcher
    BY <1>0 DEF Watcher
  <2> HIDE DEF x
  <2> QED
    BY <1>0, <2>1, <2>2
<1>9. CASE CheckSame(w)
  <2> DEFINE x == [watcher[w] EXCEPT !.pc = "wait", !.missed = FALSE, !.failed = FALSE]
  <2>1. watcher' = [watcher EXCEPT ![w] = x] /\ UNCHANGED <<storeVars, crashes>>
        /\ ready' \in BOOLEAN
    BY <1>9 DEF CheckSame
  <2>2. x \in Watcher
    BY <1>0 DEF Watcher
  <2> HIDE DEF x
  <2> QED
    BY <1>0, <2>1, <2>2
<1>10. CASE CheckChanged(w)
  <2> DEFINE x == [watcher[w] EXCEPT !.pc = "load"]
  <2>1. watcher' = [watcher EXCEPT ![w] = x] /\ UNCHANGED <<storeVars, crashes>>
        /\ ready' \in BOOLEAN
    BY <1>10 DEF CheckChanged
  <2>2. x \in Watcher
    BY <1>0 DEF Watcher
  <2> HIDE DEF x
  <2> QED
    BY <1>0, <2>1, <2>2
<1>11. CASE Load(w)
  <2> DEFINE x == [watcher[w] EXCEPT !.pc = "swap", !.loaded = ActiveConfig, !.missed = FALSE]
  <2>1. watcher' = [watcher EXCEPT ![w] = x] /\ UNCHANGED <<storeVars, crashes>>
        /\ ready' \in BOOLEAN
    BY <1>11 DEF Load
  <2>3. ActiveConfig \in Config
    BY ActiveConfigType
  <2>2. x \in Watcher
    BY <1>0, <2>3 DEF Watcher
  <2> HIDE DEF x
  <2> QED
    BY <1>0, <2>1, <2>2
<1>12. CASE Publish(w)
  <2> DEFINE x == [watcher[w] EXCEPT !.pc = "wait", !.failed = FALSE, !.served = watcher[w].loaded]
  <2>1. watcher' = [watcher EXCEPT ![w] = x] /\ UNCHANGED <<storeVars, crashes>>
        /\ ready' \in BOOLEAN
    BY <1>12 DEF Publish
  <2>2. x \in Watcher
    BY <1>0 DEF Watcher
  <2> HIDE DEF x
  <2> QED
    BY <1>0, <2>1, <2>2
<1> QED
  BY <1>1, <1>2, <1>3, <1>4, <1>5, <1>6, <1>7, <1>8, <1>9, <1>10, <1>11, <1>12 DEF WatcherStep

\* Every step keeps the types, of store and watchers.
LEMMA NextType == TypeInv /\ [Next]_vars => TypeInv'
<1> SUFFICES ASSUME TypeInv, [Next]_vars PROVE TypeInv'
  OBVIOUS
<1> USE DEF TypeInv, TypeOK
<1>1. CASE UNCHANGED vars
  <2>1. StoreInv'
    BY <1>1, StoreNextInv DEF vars
  <2> QED
    BY <1>1, <2>1 DEF vars, reloadVars, StoreInv
<1>2. CASE StoreStep /\ UNCHANGED <<ready, crashes>>
  <2>1. StoreNext
    BY <1>2 DEF StoreStep, StoreNext
  <2>2. StoreInv'
    BY <2>1, StoreNextInv
  <2>3. watcher' \in [Watchers -> Watcher]
    <3>1. \A v \in Watchers : watcher[v] \in Watcher
      OBVIOUS
    <3>2. \A x \in Watcher : /\ [x EXCEPT !.pending = TRUE] \in Watcher
                             /\ [x EXCEPT !.missed = TRUE] \in Watcher
      BY DEF Watcher
    <3>3. UNCHANGED watcher \/ Notify \/ NotifyLost
      BY <1>2 DEF StoreStep
    <3> HIDE DEF TypeInv, TypeOK
    <3>4. CASE Notify
      BY <3>1, <3>2, <3>4 DEF Notify
    <3>5. CASE NotifyLost
      BY <3>1, <3>2, <3>5 DEF NotifyLost
    <3> QED
      BY <3>3, <3>4, <3>5 DEF TypeInv, TypeOK
  <2> QED
    BY <1>2, <2>2, <2>3 DEF StoreInv
<1>3. ASSUME NEW w \in Watchers, WatcherStep(w) PROVE TypeInv'
  <2>1. /\ watcher' = [watcher EXCEPT ![w] = watcher'[w]] /\ watcher'[w] \in Watcher
        /\ ready' \in BOOLEAN
        /\ UNCHANGED <<storeVars, crashes>>
    BY <1>3, WatcherTypes
  <2>2. StoreInv'
    BY <2>1, StoreNextInv
  <2>3. watcher' \in [Watchers -> Watcher]
    BY <2>1
  <2> QED
    BY <2>1, <2>2, <2>3 DEF StoreInv
<1>4. CASE Crash
  <2>1. MaxCrashes \in Nat
    BY ReloadAssumption, Zenon
  <2>2. /\ watcher' \in [Watchers -> Watcher] /\ ready' \in BOOLEAN
        /\ crashes' \in 0..MaxCrashes /\ UNCHANGED storeVars
    BY <1>4, <2>1, BootingType DEF Crash
  <2>3. StoreInv'
    BY <2>2, StoreNextInv
  <2> QED
    BY <2>2, <2>3 DEF StoreInv
<1> QED
  BY <1>1, <1>2, <1>3, <1>4 DEF Next

\* The store, the watchers and the readiness state keep their types.
THEOREM ReloadTypeCorrect == Spec => []TypeOK
<1>1. TypeInv => TypeOK
  BY DEF TypeInv
<1> QED
  BY <1>1, InitType, NextType, PTL DEF Spec

-----------------------------------------------------------------------------
(* What a watcher serves, against the active configuration.                *)

\* A loaded configuration has a token that was used, and when it is not in doubt
\* and is the active one's, it is the active configuration.
Current(cfg) ==
    /\ cfg.token <= TokenInDoubt
    /\ cfg.token = ActiveRevisionNumber /\ cfg.token > history.ambiguous
          => cfg = ActiveConfig

\* Nothing has told the watcher of a change, nothing is about to, and the active
\* token is not in doubt.
Undisturbed(w) ==
    /\ watcher[w].conn = "listening" /\ ~ watcher[w].pending /\ ~ watcher[w].missed
    /\ \A a \in Activations : activation[a].pc # "notify"
    /\ ActiveRevisionNumber > history.ambiguous

Follows(w) ==
    /\ watcher[w].pc # "boot" => Current(watcher[w].served)
    /\ watcher[w].pc = "swap" => Current(watcher[w].loaded)
    /\ Undisturbed(w) /\ watcher[w].pc = "swap" => watcher[w].loaded = ActiveConfig
    /\ Undisturbed(w) /\ watcher[w].pc = "wait" /\ ~ watcher[w].failed =>
          watcher[w].served = ActiveConfig

ReloadInv == TypeInv /\ \A w \in Watchers : Follows(w)

\* Watchers that have loaded nothing follow the store.
LEMMA InitReload == Init => ReloadInv
<1> SUFFICES ASSUME Init PROVE ReloadInv
  OBVIOUS
<1>1. TypeInv
  BY InitType
<1>2. \A w \in Watchers : watcher[w].pc = "boot"
  BY DEF Init, Booting
<1> QED
  BY <1>1, <1>2 DEF ReloadInv, Follows

\* Tokens are numbers, and the one in doubt is the highest that was used.
LEMMA TokensType ==
    ASSUME StoreInv
    PROVE  /\ ActiveRevisionNumber \in Nat /\ history.ambiguous \in Nat /\ TokenInDoubt \in Nat
           /\ history.ambiguous <= TokenInDoubt /\ ActiveRevisionNumber <= TokenInDoubt
           /\ TokenInDoubt \in {history.ambiguous, ActiveRevisionNumber}
<1>1. MaxGeneration \in Nat
  BY StoreAssumption, Zenon
<1>2. ActiveRevisionNumber \in Nat
  BY ActiveConfigType
<1>3. history.ambiguous \in Nat
  BY <1>1, RevisionsType DEF StoreInv, StoreTypeOK, History
<1> QED
  BY <1>2, <1>3 DEF TokenInDoubt

\* Tokens are numbers after a step too.
LEMMA TokensTypeNext ==
    (StoreInv => /\ ActiveRevisionNumber \in Nat /\ history.ambiguous \in Nat
                 /\ TokenInDoubt \in Nat
                 /\ history.ambiguous <= TokenInDoubt /\ ActiveRevisionNumber <= TokenInDoubt)'
<1>1. StoreInv => /\ ActiveRevisionNumber \in Nat /\ history.ambiguous \in Nat
                  /\ TokenInDoubt \in Nat
                  /\ history.ambiguous <= TokenInDoubt /\ ActiveRevisionNumber <= TokenInDoubt
  BY TokensType
<1> QED
  BY <1>1, PTL

\* A step of the store keeps the active configuration, or raises its token, or
\* puts the tokens used so far in doubt.
LEMMA StoreTokens ==
    ASSUME StoreInv, StoreNext
    PROVE  \/ /\ history'.ambiguous = history.ambiguous
              /\ UNCHANGED ActiveConfig \/ ActiveRevisionNumber' > ActiveRevisionNumber
           \/ history'.ambiguous = TokenInDoubt
<1>1. ASSUME NEW e \in Edits, Edit(e), ~ EditCommit(e)
      PROVE  UNCHANGED <<ActiveConfig, history>>
  BY <1>1, EditTypes, EditLeavesActive
<1>2. ASSUME NEW e \in Edits, EditCommit(e)
      PROVE  IF LateEdit(e) THEN history'.ambiguous = TokenInDoubt
             ELSE UNCHANGED ActiveConfig /\ history'.ambiguous = history.ambiguous
  <2>1. CASE LateEdit(e)
    BY <1>2, <2>1 DEF EditCommit
  <2>2. CASE ~ LateEdit(e)
    <3>1. UNCHANGED ActiveConfig
      BY <1>2, <2>2, EditLeavesActive DEF Edit
    <3> QED
      BY <1>2, <2>2, <3>1 DEF EditCommit
  <2> QED
    BY <2>1, <2>2
<1>3. ASSUME NEW a \in Activations, Activate(a) \/ ActivateNotify(a), ~ ActivateCommit(a)
      PROVE  UNCHANGED <<ActiveConfig, history>>
  <2>1. UNCHANGED history
    BY <1>3 DEF Activate, ActivateSelect, ActivateDeactivate, ActivateFail, ActivateNotify
  <2> QED
    BY <1>3, <2>1, ActivationWaits
<1>4. ASSUME NEW a \in Activations, ActivateCommit(a)
      PROVE  IF OlderRevision(a) THEN history'.ambiguous = TokenInDoubt
             ELSE /\ UNCHANGED ActiveConfig \/ ActiveRevisionNumber' > ActiveRevisionNumber
                  /\ history'.ambiguous = history.ambiguous
  <2>1. CASE OlderRevision(a)
    BY <1>4, <2>1 DEF ActivateCommit
  <2>2. CASE ~ OlderRevision(a)
    <3>1. UNCHANGED ActiveConfig \/ ActiveRevisionNumber' > ActiveRevisionNumber
      BY <1>4, <2>2, ActivationRaises
    <3> QED
      BY <1>4, <2>2, <3>1 DEF ActivateCommit
  <2> QED
    BY <2>1, <2>2
<1>5. ASSUME ChangeClients
      PROVE  ActiveRevisionNumber' > ActiveRevisionNumber /\ UNCHANGED history
  BY <1>5, ClientsRaise DEF ChangeClients
<1> QED
  BY <1>1, <1>2, <1>3, <1>4, <1>5 DEF StoreNext

\* A watcher that takes a step still follows.
LEMMA WatcherFollows ==
    ASSUME ReloadInv, NEW w \in Watchers, WatcherStep(w)
    PROVE  Follows(w)'
<1>1. watcher[w] \in Watcher /\ watcher \in [Watchers -> Watcher] /\ Follows(w)
  BY DEF ReloadInv, TypeInv, TypeOK
<1>2. UNCHANGED storeVars
  BY WatcherTypes DEF ReloadInv
<1>3. LatestActive' = LatestActive
  BY <1>2 DEF storeVars, LatestActive, WithStatus
<1>4. /\ UNCHANGED <<activation, history>>
      /\ ActiveConfig' = ActiveConfig /\ ActiveRevisionNumber' = ActiveRevisionNumber
      /\ TokenInDoubt' = TokenInDoubt
  BY <1>2, <1>3 DEF storeVars, ActiveConfig, ActiveRevisionNumber, TokenInDoubt
<1>5. /\ ActiveConfig.token = ActiveRevisionNumber
      /\ ActiveRevisionNumber <= TokenInDoubt
  BY TokensType DEF ActiveConfig, ReloadInv, TypeInv
<1> HIDE DEF ActiveConfig
<1>6. Current(ActiveConfig)
  BY <1>5 DEF Current
<1> SUFFICES
      /\ watcher'[w].pc # "boot" => Current(watcher'[w].served)
      /\ watcher'[w].pc = "swap" => Current(watcher'[w].loaded)
      /\ /\ watcher'[w].conn = "listening" /\ ~ watcher'[w].pending /\ ~ watcher'[w].missed
         /\ \A a \in Activations : activation[a].pc # "notify"
         /\ ActiveRevisionNumber > history.ambiguous
         => /\ watcher'[w].pc = "swap" => watcher'[w].loaded = ActiveConfig
            /\ watcher'[w].pc = "wait" /\ ~ watcher'[w].failed =>
                  watcher'[w].served = ActiveConfig
  BY <1>4 DEF Follows, Current, Undisturbed
<1>7. CASE Boot(w)
  BY <1>1, <1>6, <1>7 DEF Boot, Watcher
<1>8. CASE Subscribe(w) \/ SubscribeFails(w)
  BY <1>1, <1>8 DEF Subscribe, SubscribeFails, Watcher, Follows
<1>9. CASE ConnectionLost(w)
  BY <1>1, <1>9 DEF ConnectionLost, Watcher, Follows
<1>10. CASE SubscriberClosed(w)
  BY <1>1, <1>10 DEF SubscriberClosed, Watcher, Follows
<1>11. CASE Notified(w) \/ Tick(w)
  BY <1>1, <1>11 DEF Notified, Tick, Watcher, Follows
<1>12. CASE CheckFails(w) \/ LoadFails(w) \/ CompileFails(w)
  BY <1>1, <1>12 DEF CheckFails, LoadFails, CompileFails, ReloadFails, Watcher, Follows
<1>13. CASE CheckSame(w)
  BY <1>1, <1>13 DEF CheckSame, Watcher, Follows, Current
<1>14. CASE CheckChanged(w)
  BY <1>1, <1>14 DEF CheckChanged, Watcher, Follows
<1>15. CASE Load(w)
  BY <1>1, <1>6, <1>15 DEF Load, Watcher, Follows
<1>16. CASE Publish(w)
  BY <1>1, <1>16 DEF Publish, Watcher, Follows, Undisturbed
<1> QED
  BY <1>7, <1>8, <1>9, <1>10, <1>11, <1>12, <1>13, <1>14, <1>15, <1>16 DEF WatcherStep

\* A step of the store that changes the active configuration leaves a trace: an
\* activation that is about to notify, a notification, the loss of one, or a
\* token in doubt.
LEMMA StoreDisturbs ==
    ASSUME ReloadInv, StoreStep, NEW w \in Watchers, Undisturbed(w)'
    PROVE  Undisturbed(w) /\ UNCHANGED ActiveConfig
<1> USE DEF ReloadInv, TypeInv
<1>1. \A v \in Watchers : watcher[v] \in Watcher
  BY DEF TypeOK
<1>2. activation \in [Activations -> ActivationTx]
  BY DEF StoreInv, StoreTypeOK
<1>3. ~ Notify
  BY <1>1 DEF Notify, Undisturbed, Watcher
<1>4. ~ NotifyLost
  BY <1>1 DEF NotifyLost, Undisturbed, Watcher
<1>0. ActiveConfig'.token = ActiveRevisionNumber' /\ ActiveConfig.token = ActiveRevisionNumber
  BY DEF ActiveConfig
<1>5. CASE UNCHANGED watcher /\ \E e \in Edits : Edit(e)
  <2>1. PICK e \in Edits : Edit(e)
    BY <1>5
  <2>2. UNCHANGED activation
    BY <2>1 DEF Edit, EditReadRoutes, EditSelectDraft, EditInsertDraft, EditClone, EditCommit,
                EditFail
  <2>3. ~ (EditCommit(e) /\ LateEdit(e))
    <3> SUFFICES ASSUME EditCommit(e), LateEdit(e) PROVE FALSE
      OBVIOUS
    <3>1. history'.ambiguous = TokenInDoubt /\ UNCHANGED generation
      BY DEF EditCommit
    <3>2. LatestActive' = LatestActive
      <4>1. edit[e].rev \in Revisions /\ rows \in [Revisions -> Row]
        BY DEF EditCommit, StoreInv, DraftsApart, StoreTypeOK
      <4>2. \A i \in Revisions : rows'[i].status = rows[i].status
        BY <4>1 DEF EditCommit, LateEdit
      <4>3. WithStatus("active")' = WithStatus("active")
        BY <4>2 DEF WithStatus
      <4> QED
        BY <4>3 DEF LatestActive
    <3>3. ActiveRevisionNumber' = ActiveRevisionNumber
      BY <3>1, <3>2 DEF ActiveRevisionNumber
    <3>4. ActiveRevisionNumber' > history'.ambiguous
      BY DEF Undisturbed
    <3> QED
      BY <3>1, <3>3, <3>4, TokensType
  <2>4. UNCHANGED ActiveConfig
    BY <2>1, <2>3, EditLeavesActive
  <2>5. history'.ambiguous = history.ambiguous
    BY <2>1, <2>3, EditTypes DEF EditCommit
  <2> QED
    BY <1>0, <1>5, <2>2, <2>4, <2>5 DEF Undisturbed
<1>6. CASE UNCHANGED watcher /\ \E a \in Activations : Activate(a)
  <2>1. PICK a \in Activations : Activate(a)
    BY <1>6
  <2>2. ~ ActivateCommit(a)
    BY <1>2 DEF Undisturbed, ActivateCommit, ActivationTx
  <2>3. UNCHANGED ActiveConfig
    BY <2>1, <2>2, ActivationWaits
  <2>4. UNCHANGED history
    BY <2>1, <2>2 DEF Activate, ActivateSelect, ActivateDeactivate, ActivateFail
  <2>5. \A b \in Activations : activation[b].pc = "notify" => activation'[b].pc = "notify"
    BY <1>2, <2>1, <2>2
       DEF Activate, ActivateSelect, ActivateDeactivate, ActivateFail, ActivationTx
  <2> QED
    BY <1>0, <1>6, <2>3, <2>4, <2>5 DEF Undisturbed
<1> QED
  BY <1>3, <1>4, <1>5, <1>6 DEF StoreStep

\* When the active configuration changes its token rises past that of everything
\* a watcher has loaded, or those are in doubt.
LEMMA StoreFollows ==
    ASSUME ReloadInv, StoreStep, NEW w \in Watchers
    PROVE  Follows(w)'
<1>1. StoreNext
  BY DEF StoreStep, StoreNext
<1>2. /\ StoreInv /\ StoreInv'
      /\ \/ /\ history'.ambiguous = history.ambiguous
            /\ UNCHANGED ActiveConfig \/ ActiveRevisionNumber' > ActiveRevisionNumber
         \/ history'.ambiguous = TokenInDoubt
  BY <1>1, StoreTokens, StoreNextInv DEF ReloadInv, TypeInv
<1>3. /\ ActiveRevisionNumber \in Nat /\ history.ambiguous \in Nat /\ TokenInDoubt \in Nat
      /\ history.ambiguous <= TokenInDoubt /\ ActiveRevisionNumber <= TokenInDoubt
      /\ TokenInDoubt \in {history.ambiguous, ActiveRevisionNumber}
      /\ ActiveRevisionNumber' \in Nat /\ history'.ambiguous \in Nat /\ TokenInDoubt' \in Nat
      /\ history'.ambiguous <= TokenInDoubt' /\ ActiveRevisionNumber' <= TokenInDoubt'
  BY <1>2, TokensType, TokensTypeNext
<1>4. /\ ActiveConfig.token = ActiveRevisionNumber
      /\ ActiveConfig'.token = ActiveRevisionNumber'
  BY DEF ActiveConfig
<1>5. /\ watcher[w] \in Watcher
      /\ watcher[w].loaded.token \in Nat /\ watcher[w].served.token \in Nat
  <2>1. \A cfg \in Config : cfg.token \in Nat
    <3>1. MaxGeneration \in Nat
      BY StoreAssumption, Zenon
    <3> QED
      BY <3>1, RevisionsType DEF Config
  <2> QED
    BY <2>1 DEF ReloadInv, TypeInv, TypeOK, Watcher
<1>6. /\ watcher'[w].pc = watcher[w].pc /\ watcher'[w].failed = watcher[w].failed
      /\ watcher'[w].loaded = watcher[w].loaded /\ watcher'[w].served = watcher[w].served
  <2>1. UNCHANGED watcher \/ Notify \/ NotifyLost
    BY DEF StoreStep
  <2> QED
    BY <1>5, <2>1 DEF Notify, NotifyLost, Watcher
<1> HIDE DEF ActiveConfig, ActiveRevisionNumber, TokenInDoubt
<1>7. \A cfg : cfg.token \in Nat /\ Current(cfg) =>
         /\ cfg.token <= TokenInDoubt'
         /\ cfg.token = ActiveRevisionNumber' /\ cfg.token > history'.ambiguous
               => cfg = ActiveConfig'
  <2> SUFFICES ASSUME NEW cfg, cfg.token \in Nat, Current(cfg)
               PROVE  /\ cfg.token <= TokenInDoubt'
                      /\ cfg.token = ActiveRevisionNumber' /\ cfg.token > history'.ambiguous
                            => cfg = ActiveConfig'
    OBVIOUS
  <2>1. CASE history'.ambiguous = TokenInDoubt
    BY <1>3, <2>1 DEF Current
  <2>2. CASE history'.ambiguous = history.ambiguous /\ UNCHANGED ActiveConfig
    BY <1>3, <1>4, <2>2 DEF Current
  <2>3. CASE history'.ambiguous = history.ambiguous
             /\ ActiveRevisionNumber' > ActiveRevisionNumber
    BY <1>3, <2>3 DEF Current
  <2> QED
    BY <1>2, <2>1, <2>2, <2>3
<1>8. Follows(w)
  BY DEF ReloadInv
<1>9. /\ watcher'[w].pc # "boot" => Current(watcher[w].served)'
      /\ watcher'[w].pc = "swap" => Current(watcher[w].loaded)'
  BY <1>5, <1>6, <1>7, <1>8 DEF Follows, Current
<1> QED
  BY <1>6, <1>8, <1>9, StoreDisturbs DEF Follows

\* Every step keeps the watchers following the store.
LEMMA NextReload == ReloadInv /\ [Next]_vars => ReloadInv'
<1> SUFFICES ASSUME ReloadInv, [Next]_vars PROVE ReloadInv'
  OBVIOUS
<1>1. TypeInv'
  BY NextType DEF ReloadInv
<1>2. ASSUME UNCHANGED storeVars
      PROVE  \A v \in Watchers : watcher'[v] = watcher[v] => Follows(v)'
  <2>2. LatestActive' = LatestActive
    BY <1>2 DEF storeVars, LatestActive, WithStatus
  <2>3. /\ UNCHANGED <<activation, history>>
        /\ ActiveConfig' = ActiveConfig /\ ActiveRevisionNumber' = ActiveRevisionNumber
        /\ TokenInDoubt' = TokenInDoubt
    BY <1>2, <2>2 DEF storeVars, ActiveConfig, ActiveRevisionNumber, TokenInDoubt
  <2> QED
    BY <2>3 DEF ReloadInv, Follows, Current, Undisturbed
<1>3. CASE UNCHANGED vars
  BY <1>1, <1>2, <1>3 DEF vars, reloadVars, ReloadInv
<1>4. CASE StoreStep
  BY <1>1, <1>4, StoreFollows DEF ReloadInv
<1>5. ASSUME NEW w \in Watchers, WatcherStep(w) PROVE ReloadInv'
  <2>1. watcher' = [watcher EXCEPT ![w] = watcher'[w]] /\ UNCHANGED storeVars
    BY <1>5, WatcherTypes DEF ReloadInv
  <2>2. \A v \in Watchers \ {w} : watcher'[v] = watcher[v]
    BY <2>1 DEF ReloadInv, TypeInv, TypeOK
  <2>3. Follows(w)'
    BY <1>5, WatcherFollows
  <2> QED
    BY <1>1, <1>2, <2>1, <2>2, <2>3 DEF ReloadInv
<1>6. CASE Crash
  <2>1. UNCHANGED storeVars /\ \A v \in Watchers : watcher'[v].pc = "boot"
    BY <1>6 DEF Crash, Booting
  <2>2. \A v \in Watchers : Follows(v)'
    BY <2>1 DEF Follows
  <2> QED
    BY <1>1, <1>2, <2>1, <2>2 DEF ReloadInv
<1> QED
  BY <1>3, <1>4, <1>5, <1>6 DEF Next

\* A watcher that follows tells stale by the token and misses no wakeup.
LEMMA ReloadImplies == ReloadInv => TokenTellsStale /\ NoMissedWakeup
BY DEF ReloadInv, Follows, Current, Undisturbed, TokenTellsStale, NoMissedWakeup

\* However requests overlap, a state that carries the token of the active
\* configuration is that configuration, unless an overlap has put that token in
\* doubt: a watcher that finds the tokens equal is right not to reload
\* (runtime/application/usecases.go).
THEOREM TokenIsEnough == Spec => []TokenTellsStale
BY InitReload, NextReload, ReloadImplies, PTL DEF Spec

\* However requests overlap, a listening watcher that is idle, and was told of no
\* change it has not looked at, serves the active configuration, unless an
\* overlap has put its token in doubt (runtime/watcher.go).
THEOREM WakeupsSuffice == Spec => []NoMissedWakeup
BY InitReload, NextReload, ReloadImplies, PTL DEF Spec

=============================================================================
