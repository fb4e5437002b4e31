--------------------------- MODULE RuntimeReload ---------------------------
(***************************************************************************)
(* How a process follows the active configuration (contexts/runtime,       *)
(* bootstrap/assembly_runtime.go), composed with the revision store.       *)
(*                                                                         *)
(* Each watcher of the process owns one ActiveRuntimeState.  It is loaded  *)
(* when the process boots; the watcher then subscribes to activations,     *)
(* compares the token of the state with the token of the store, and loads, *)
(* compiles and swaps when they differ, again on every notification and    *)
(* every poll tick.  All watchers of a process share its ReadinessState.   *)
(***************************************************************************)
EXTENDS RevisionStore

CONSTANTS
    Watchers,       \* the watchers of one process ("serve" runs two)
    BadEdits,       \* edits whose content does not compile
    MaxCrashes      \* bound: restarts of the process

ASSUME ReloadAssumption ==
    /\ IsFiniteSet(Watchers) /\ BadEdits \subseteq Edits /\ MaxCrashes \in Nat

VARIABLES
    watcher,        \* each watcher, its subscription and the state it serves
    ready,          \* ReadinessState.configReady
    crashes

reloadVars == <<watcher, ready, crashes>>
vars == <<storeVars, reloadVars>>

Config == [rev : 0..MaxRevision, clients : 0..MaxGeneration,
           token : 0..(MaxRevision + MaxGeneration), edits : SUBSET Edits]
NoConfig == [rev |-> 0, clients |-> 0, token |-> 0, edits |-> {}]

\* pending: a notification waits to be received; more of them are further
\* reloads, which the poll ticks stand for as well.
\* missed and failed are history: a notification was lost since the last check,
\* and the last reload failed.
Watcher == [pc : {"boot", "subscribe", "check", "load", "swap", "wait"},
            conn : {"none", "listening", "closed"}, pending : BOOLEAN,
            missed : BOOLEAN, failed : BOOLEAN,
            loaded : Config, served : Config]

TypeOK ==
    /\ StoreTypeOK
    /\ watcher \in [Watchers -> Watcher]
    /\ ready \in BOOLEAN
    /\ crashes \in 0..MaxCrashes

Booting == [pc |-> "boot", conn |-> "none", pending |-> FALSE, missed |-> FALSE,
            failed |-> FALSE, loaded |-> NoConfig, served |-> NoConfig]

Init ==
    /\ StoreInit
    /\ watcher = [w \in Watchers |-> Booting]
    /\ ready = TRUE
    /\ crashes = 0

Compiles(cfg) == cfg.edits \cap BadEdits = {}

-----------------------------------------------------------------------------
(* Boot and subscription.                                                  *)

\* newRuntimeState: an active configuration that cannot be loaded or compiled
\* keeps the process from starting.
Boot(w) ==
    /\ watcher[w].pc = "boot" /\ LatestActive # 0 /\ Compiles(ActiveConfig)
    /\ watcher' = [watcher EXCEPT ![w].pc = "subscribe", ![w].served = ActiveConfig]
    /\ UNCHANGED <<storeVars, ready, crashes>>

\* (Mutant: the first check comes before the subscription.)
SubscribeAfterCheck(w) ==
    /\ watcher[w].pc = "wait" /\ watcher[w].conn = "none"
    /\ watcher' = [watcher EXCEPT ![w].conn = "listening"]
    /\ UNCHANGED <<storeVars, ready, crashes>>
Subscribe(w) ==
    /\ watcher[w].pc = "subscribe"
    /\ watcher' = [watcher EXCEPT ![w].pc = "check", ![w].conn = "listening"]
    /\ UNCHANGED <<storeVars, ready, crashes>>

\* The watcher goes on without notifications.
SubscribeFails(w) ==
    /\ watcher[w].pc = "subscribe"
    /\ watcher' = [watcher EXCEPT ![w].pc = "check"]
    /\ ready' = FALSE
    /\ UNCHANGED <<storeVars, crashes>>

\* The listening connection breaks.  A notification already in the channel is
\* still received, one in the connection is lost.
ConnectionLost(w) ==
    /\ watcher[w].conn = "listening"
    /\ \E p \in {FALSE, watcher[w].pending} :
          watcher' = [watcher EXCEPT ![w].conn = "closed", ![w].pending = p]
    /\ UNCHANGED <<storeVars, ready, crashes>>

-----------------------------------------------------------------------------
(* The loop of Run.                                                        *)

SubscriberClosed(w) ==
    /\ watcher[w].pc = "wait" /\ watcher[w].conn = "closed" /\ ~ watcher[w].pending
    /\ watcher' = [watcher EXCEPT ![w].conn = "none"]
    /\ ready' = FALSE
    /\ UNCHANGED <<storeVars, crashes>>

Notified(w) ==
    /\ watcher[w].pc = "wait" /\ watcher[w].pending
    /\ watcher' = [watcher EXCEPT ![w].pc = "check", ![w].pending = FALSE]
    /\ UNCHANGED <<storeVars, ready, crashes>>

Tick(w) ==
    /\ watcher[w].pc = "wait"
    /\ watcher' = [watcher EXCEPT ![w].pc = "check"]
    /\ UNCHANGED <<storeVars, ready, crashes>>

-----------------------------------------------------------------------------
(* ReloadIfChanged.                                                        *)

\* A step that fails marks the configuration degraded and ends the reload.
ReloadFails(w, pc) ==
    /\ watcher[w].pc = pc
    /\ watcher' = [watcher EXCEPT ![w].pc = "wait", ![w].failed = TRUE]
    /\ ready' = FALSE
    /\ UNCHANGED <<storeVars, crashes>>

CheckFails(w) == ReloadFails(w, "check")

CheckSame(w) ==
    /\ watcher[w].pc = "check" /\ LatestActive # 0
    /\ ActiveRevisionNumber = watcher[w].served.token
    /\ watcher' = [watcher EXCEPT ![w].pc = "wait", ![w].missed = FALSE,
                                  ![w].failed = FALSE]
    /\ UNCHANGED <<storeVars, ready, crashes>>

CheckChanged(w) ==
    /\ watcher[w].pc = "check" /\ LatestActive # 0
    /\ ActiveRevisionNumber # watcher[w].served.token
    /\ watcher' = [watcher EXCEPT ![w].pc = "load"]
    /\ UNCHANGED <<storeVars, ready, crashes>>

\* LoadRuntimeConfig reads everything in one repeatable-read transaction.
Load(w) ==
    /\ watcher[w].pc = "load" /\ LatestActive # 0
    /\ watcher' = [watcher EXCEPT ![w].pc = "swap", ![w].loaded = ActiveConfig,
                                  ![w].missed = FALSE]
    /\ UNCHANGED <<storeVars, ready, crashes>>

LoadFails(w) == ReloadFails(w, "load")

\* CompileRuntime fails, or Swap rejects a runtime without routes.
CompileFails(w) ==
    /\ ~ Compiles(watcher[w].loaded)
    /\ ReloadFails(w, "swap")

\* (Mutant: the state keeps the token of the snapshot it replaces.)
PublishOldToken(w) ==
    /\ watcher[w].pc = "swap" /\ Compiles(watcher[w].loaded)
    /\ watcher' = [watcher EXCEPT ![w].pc = "wait", ![w].failed = FALSE,
          ![w].served = [watcher[w].loaded EXCEPT !.token = watcher[w].served.token]]
    /\ ready' = TRUE
    /\ UNCHANGED <<storeVars, crashes>>
Publish(w) ==
    /\ watcher[w].pc = "swap" /\ Compiles(watcher[w].loaded)
    /\ watcher' = [watcher EXCEPT ![w].pc = "wait", ![w].failed = FALSE,
                                  ![w].served = watcher[w].loaded]
    /\ ready' = TRUE
    /\ UNCHANGED <<storeVars, crashes>>

WatcherStep(w) ==
    \/ Boot(w) \/ Subscribe(w) \/ SubscribeFails(w) \/ ConnectionLost(w)
    \/ SubscriberClosed(w) \/ Notified(w) \/ Tick(w)
    \/ CheckFails(w) \/ CheckSame(w) \/ CheckChanged(w)
    \/ Load(w) \/ LoadFails(w) \/ CompileFails(w) \/ Publish(w)

\* The process stops or dies, and is started again.
Crash ==
    /\ crashes < MaxCrashes
    /\ crashes' = crashes + 1
    /\ watcher' = [w \in Watchers |-> Booting]
    /\ ready' = TRUE
    /\ UNCHANGED storeVars

-----------------------------------------------------------------------------
(* The store's steps, and the notifications they send.                     *)

Notify ==
    watcher' = [w \in Watchers |->
        IF watcher[w].conn = "listening"
        THEN [watcher[w] EXCEPT !.pending = TRUE] ELSE watcher[w]]

\* pg_notify in a statement of its own fails, or its sender has died.
NotifyLost == watcher' = [w \in Watchers |-> [watcher[w] EXCEPT !.missed = TRUE]]

StoreStep ==
    \/ /\ \/ \E e \in Edits : Edit(e)
          \/ \E a \in Activations : Activate(a)
       /\ UNCHANGED watcher
    \/ (\E a \in Activations : ActivateNotify(a)) /\ (Notify \/ NotifyLost)
    \/ ChangeClients /\ Notify

Next ==
    \/ StoreStep /\ UNCHANGED <<ready, crashes>>
    \/ \E w \in Watchers : WatcherStep(w)
    \/ Crash

Spec == Init /\ [][Next]_vars

\* The ticker goes on; PostgreSQL is not down at every check or every load; a
\* goroutine is not stopped between two statements.
Fairness ==
    \A w \in Watchers :
        /\ WF_vars(Boot(w)) /\ WF_vars(Subscribe(w) \/ SubscribeFails(w))
        /\ WF_vars(Tick(w) \/ Notified(w))
        /\ SF_vars(CheckSame(w) \/ CheckChanged(w))
        /\ SF_vars(Load(w))
        /\ WF_vars(Publish(w) \/ CompileFails(w))
FairSpec == Spec /\ Fairness

-----------------------------------------------------------------------------
(* Properties.                                                             *)

\* A state that carries the token of the active configuration is that
\* configuration, so it is right not to reload it.  Requests that overlap can
\* give a token to two configurations; every later, higher token is sound again.
TokenTellsStale ==
    \A w \in Watchers :
        /\ watcher[w].pc # "boot"
        /\ watcher[w].served.token = ActiveRevisionNumber
        /\ ActiveRevisionNumber > history.ambiguous
        => watcher[w].served = ActiveConfig

\* No wakeup is missed between subscribing, checking and waiting: an idle
\* watcher that listens serves the active configuration, unless it has a
\* notification to receive, one was lost, its last reload failed, or requests
\* that overlapped have left the token in doubt.
NoMissedWakeup ==
    \A w \in Watchers :
        LET s == watcher[w]
        IN  /\ s.pc = "wait" /\ s.conn = "listening"
            /\ ~ s.pending /\ ~ s.missed /\ ~ s.failed
            /\ \A a \in Activations : activation[a].pc # "notify"
            /\ ActiveRevisionNumber > history.ambiguous
            => s.served = ActiveConfig

\* Once the operators stop changing it, every watcher comes to serve the active
\* configuration, provided it compiles and its token is not in doubt.
ServesActive ==
    \A w \in Watchers :
        <>[](Compiles(ActiveConfig) /\ ActiveRevisionNumber > history.ambiguous
                => watcher[w].served = ActiveConfig)

\* Readiness tells whether the configuration is safe to serve now: when the
\* failures end and the watcher listens and serves the active configuration for
\* good, the process does not stay degraded.
ReadinessRecovers ==
    \A w \in Watchers :
        <>[](/\ ~ watcher[w].failed /\ watcher[w].conn = "listening"
             /\ watcher[w].served = ActiveConfig) => []<>ready
=============================================================================
