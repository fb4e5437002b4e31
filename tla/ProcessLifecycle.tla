-------------------------- MODULE ProcessLifecycle --------------------------
(***************************************************************************)
(* The life of a process in serve mode (app/app.go, bootstrap, runtime/    *)
(* worker.go), composed with the event pipeline of the gateway.            *)
(*                                                                         *)
(* runServe builds the gateway, the control API and the worker, each with  *)
(* connections and goroutines of its own, runs them as three children,     *)
(* cancels their context at the first error, and when all have returned    *)
(* cleans up in reverse order.  The ClickHouse monitor is the third writer *)
(* of the health gate, besides the handlers and the flusher.               *)
(***************************************************************************)
EXTENDS EventPipeline

CONSTANTS
    Shadows,    \* the events recorded by shadow verdicts, which outlive their
                \* requests; the others are written by requests
    Queries,    \* requests of the control API
    Loops       \* the goroutines of the worker that are configured

ASSUME LifecycleAssumption ==
    /\ Shadows \subseteq Events /\ Queries \intersect Events = {}
    /\ Loops \subseteq {"watcher", "retention", "audit"}

VARIABLES
    serve,      \* runServe: where it is, the part it builds or cleans, its error
    canceled,   \* the context of the children is done: a signal, or an error
    child,      \* StartServer of each server and Worker.Run
    loops,      \* the goroutines of Worker.Run that still run
    arrived,    \* the requests of the gateway that its server has accepted, and
                \* those of the control API that are in flight
    monitor,    \* the ClickHouse health monitor of the gateway
    probed,     \* ghost: it marked the gate healthy since the last failed Flush
    background, \* the other goroutines started with each part
    connections \* the connections of each part

lifecycleVars == <<serve, canceled, child, loops, arrived, monitor,
                   probed, background, connections>>

allVars == <<vars, lifecycleVars>>

Parts    == <<"gateway", "control", "worker">>
PartSet  == Range(Parts)
Requests == Events \ Shadows

\* The goroutines that work on a part's connections, besides the pipeline and
\* the monitor of the gateway and the loops of the worker.
Goroutines(p) == IF p = "gateway" THEN {"replay", "watcher"} ELSE {"monitor"}

\* cleanup: the watcher is canceled; wait: so are the other goroutines.
ServeSteps == {"build", "opened", "run", "cleanup", "wait", "returned"}

LifecycleTypeOK ==
    /\ TypeOK
    /\ serve \in [pc : ServeSteps, part : 0..Len(Parts), err : BOOLEAN]
    /\ canceled \in BOOLEAN /\ probed \in BOOLEAN
    /\ child \in [PartSet -> {"none", "running", "stopping", "failing", "returned"}]
    /\ loops \subseteq Loops
    /\ arrived \subseteq Requests \union Queries
    /\ monitor \in {"none", "running", "stopped"}
    /\ background \in [PartSet -> SUBSET {"replay", "watcher", "monitor"}]
    /\ connections \in [PartSet -> {"none", "open", "closed"}]

LifecycleInit ==
    /\ Init
    /\ serve = [pc |-> "build", part |-> 1, err |-> FALSE]
    /\ canceled = FALSE
    /\ child = [p \in PartSet |-> "none"]
    /\ loops = {} /\ arrived = {}
    /\ monitor = "none" /\ probed = FALSE
    /\ background = [p \in PartSet |-> {}]
    /\ connections = [p \in PartSet |-> "none"]

Part == Parts[serve.part]

-----------------------------------------------------------------------------
(* Building: GatewayHandler, ControlHandler, Worker.                       *)

\* openProductionDeps: it leaves nothing open when it fails.  The pipeline and
\* the replay worker of the gateway start here, and a monitor for each part.
BuildOpens ==
    /\ serve.pc = "build"
    /\ connections' = [connections EXCEPT ![Part] = "open"]
    /\ background' = [background EXCEPT ![Part] = Goroutines(Part) \ {"watcher"}]
    /\ monitor' = IF Part = "gateway" THEN "running" ELSE monitor
    /\ serve' = [serve EXCEPT !.pc = "opened"]
    /\ UNCHANGED <<vars, canceled, child, loops, arrived, probed>>

BuildFails ==
    /\ serve.pc = "build"
    /\ serve' = [pc |-> IF serve.part = 1 THEN "returned" ELSE "cleanup",
                 part |-> serve.part - 1, err |-> TRUE]
    /\ UNCHANGED <<vars, canceled, child, loops, arrived, monitor, probed, background,
                   connections>>

\* The configuration is loaded; the gateway starts its watcher.  After the
\* worker the three children are started.
BuildSucceeds ==
    /\ serve.pc = "opened"
    /\ background' = [background EXCEPT ![Part] = Goroutines(Part)]
    /\ IF serve.part < Len(Parts)
       THEN /\ serve' = [serve EXCEPT !.pc = "build", !.part = @ + 1]
            /\ UNCHANGED <<child, loops>>
       ELSE /\ serve' = [serve EXCEPT !.pc = "run"]
            /\ child' = [p \in PartSet |-> "running"]
            /\ loops' = Loops
    /\ UNCHANGED <<vars, canceled, arrived, monitor, probed, connections>>

\* Loading fails: the part cleans up after itself, then those built before it.
\* ControlHandler loads nothing.
LoadFails ==
    /\ serve.pc = "opened" /\ Part # "control"
    /\ serve' = [serve EXCEPT !.pc = "cleanup", !.err = TRUE]
    /\ UNCHANGED <<vars, canceled, child, loops, arrived, monitor, probed, background,
                   connections>>

Build == BuildOpens \/ BuildFails \/ BuildSucceeds \/ LoadFails

-----------------------------------------------------------------------------
(* The children and the context they share.                                *)

\* A signal; with an error, runServe cancels the context itself.
Signal ==
    /\ ~ canceled /\ serve.pc \in {"build", "opened", "run"}
    /\ canceled' = TRUE
    /\ UNCHANGED <<vars, serve, child, loops, arrived, monitor, probed,
                   background, connections>>

\* childError: an error is passed on unless it says that the context was
\* canceled; so is a return nobody asked for.  runServe does nothing but receive
\* the results, so sending and receiving one is a single step; the first error
\* is the one it returns, and cancels the context.
Returns(p, failed) ==
    /\ child' = [child EXCEPT ![p] = "returned"]
    /\ serve' = [serve EXCEPT !.err = @ \/ failed]
    /\ canceled' = (canceled \/ failed)
    /\ UNCHANGED <<vars, loops, arrived, monitor, probed, background, connections>>

InFlight(p) ==
    IF p = "control" THEN arrived \intersect Queries
    ELSE {e \in arrived \ Queries : handler[e] \notin {"sent", "refused", "dropped"}}

\* StartServer: ListenAndServe fails or panics.  Requests in flight go on.
ListenFails(p) ==
    /\ child[p] = "running" /\ p # "worker"
    /\ Returns(p, TRUE)

\* The context is done and Shutdown returns once no request is in flight.
\* (Mutant: the server is closed instead.)
ServerCloses(p) ==
    /\ child[p] = "running" /\ canceled
    /\ Returns(p, FALSE)
ShutdownDrains(p) ==
    /\ child[p] = "running" /\ canceled
    /\ InFlight(p) = {}
    /\ Returns(p, FALSE)

\* (Mutant: Shutdown has no timeout and waits for the requests.)
ShutdownWaits(p) ==
    /\ child[p] = "running" /\ canceled
    /\ InFlight(p) = {}
    /\ Returns(p, TRUE)
\* Or ShutdownTimeout passes first: the error is returned and the requests
\* that are in flight go on.
ShutdownTimesOut(p) ==
    /\ child[p] = "running" /\ canceled
    /\ InFlight(p) # {}
    /\ Returns(p, TRUE)

\* Worker.Run: a loop ends with an error (the audit loop never does) and the
\* worker cancels the others, or the context is done first.
LoopFails(l) ==
    /\ child["worker"] = "running" /\ l \in loops /\ l # "audit"
    /\ loops' = loops \ {l}
    /\ child' = [child EXCEPT !["worker"] = "failing"]
    /\ UNCHANGED <<vars, serve, canceled, arrived, monitor, probed,
                   background, connections>>

WorkerStops ==
    /\ child["worker"] = "running" /\ canceled
    /\ child' = [child EXCEPT !["worker"] = "stopping"]
    /\ UNCHANGED <<vars, serve, canceled, loops, arrived, monitor, probed,
                   background, connections>>

LoopStops(l) ==
    /\ child["worker"] \in {"stopping", "failing"} /\ l \in loops
    /\ loops' = loops \ {l}
    /\ UNCHANGED <<vars, serve, canceled, child, arrived, monitor, probed,
                   background, connections>>

WorkerReturns ==
    /\ child["worker"] \in {"stopping", "failing"} /\ loops = {}
    /\ Returns("worker", child["worker"] = "failing")

Children ==
    \/ \E p \in {"gateway", "control"} :
          ListenFails(p) \/ ShutdownDrains(p) \/ ShutdownTimesOut(p)
    \/ \E l \in Loops : LoopFails(l) \/ LoopStops(l)
    \/ WorkerStops \/ WorkerReturns

AllReceived ==
    /\ serve.pc = "run"
    /\ \A p \in PartSet : child[p] = "returned"
    /\ serve' = [serve EXCEPT !.pc = "cleanup"]
    /\ UNCHANGED <<vars, canceled, child, loops, arrived, monitor, probed, background,
                   connections>>

-----------------------------------------------------------------------------
(* Cleaning up: the closure of GatewayHandler, then productionDeps.cleanup *)

GoTo(pc) == serve' = [serve EXCEPT !.pc = pc]

\* cancelWatcher, <-watcherDone; then cancelPipeline, cancelReplay and
\* cancelMonitor.
CleanupStop ==
    /\ serve.pc = "cleanup" /\ "watcher" \notin background[Part]
    /\ IF Part = "gateway" THEN CancelPipeline ELSE UNCHANGED vars
    /\ GoTo("wait")
    /\ UNCHANGED <<canceled, child, loops, arrived, monitor, probed, background,
                   connections>>

\* <-pipelineDone, <-replayDone, <-monitorDone.
\* (Mutant: the replay worker is canceled but not waited for.)
NoReplayWait ==
    /\ background[Part] \subseteq {"replay"}
    /\ Part = "gateway" => flusher.pc = "stopped" /\ monitor = "stopped"
AllDone ==
    /\ background[Part] = {}
    /\ Part = "gateway" => flusher.pc = "stopped" /\ monitor = "stopped"

\* After the last part runServe returns.
PartDone ==
    serve' = IF serve.part = 1 THEN [serve EXCEPT !.pc = "returned", !.part = 0]
             ELSE [serve EXCEPT !.pc = "cleanup", !.part = @ - 1]

\* The ClickHouse connection is closed, and then the pool; when the first fails
\* cleanup returns at once, runCleanup ignores the error, and the pool is left
\* to the end of the process.  Closing the pool waits for statements of control
\* requests still in flight; the context of these is done, which ends them.
CloseConnections ==
    /\ serve.pc = "wait" /\ AllDone
    /\ connections' = [connections EXCEPT ![Part] = "closed"]
    /\ PartDone
    /\ UNCHANGED <<vars, canceled, child, loops, arrived, monitor, probed, background>>

Cleanup == CleanupStop \/ CloseConnections

-----------------------------------------------------------------------------
(* The goroutines.                                                         *)

\* A canceled goroutine ends: the watcher before the others.
Stopped(p, g) ==
    serve.pc = IF g = "watcher" THEN "cleanup" ELSE "wait"

GoroutineEnds(p, g) ==
    /\ g \in background[p] /\ Part = p /\ Stopped(p, g)
    /\ background' = [background EXCEPT ![p] = @ \ {g}]
    /\ UNCHANGED <<vars, serve, canceled, child, loops, arrived, monitor,
                   probed, connections>>

\* Run is back in its select, or has returned, after a Flush with an error.
FlushFailed == flusher.pc \in {"wait", "stopped"} /\ flusher.firstErr

\* runClickHouseHealthMonitor: a check at once and at every tick.
\* (Mutant: there is only the check at the start.)
MonitorChecksOnce(ok) ==
    /\ monitor = "running" /\ serve.pc \in {"build", "opened"}
    /\ MonitorMarks(ok)
    /\ probed' = (FlushFailed /\ (probed \/ ok))
    /\ UNCHANGED <<serve, canceled, child, loops, arrived, monitor, background, connections>>
MonitorChecks(ok) ==
    /\ monitor = "running"
    /\ MonitorMarks(ok)
    /\ probed' = (FlushFailed /\ (probed \/ ok))
    /\ UNCHANGED <<serve, canceled, child, loops, arrived, monitor, background, connections>>

MonitorStops ==
    /\ monitor = "running" /\ Part = "gateway" /\ serve.pc = "wait"
    /\ monitor' = "stopped"
    /\ UNCHANGED <<vars, serve, canceled, child, loops, arrived, probed,
                   background, connections>>

Background ==
    \/ \E p \in PartSet : \E g \in background[p] : GoroutineEnds(p, g)
    \/ MonitorChecks(TRUE) \/ MonitorChecks(FALSE) \/ MonitorStops

-----------------------------------------------------------------------------
(* The pipeline of the gateway, and the requests that write to it.         *)

Arrive(e) ==
    /\ child["gateway"] = "running" /\ e \in Requests \ arrived
    /\ arrived' = arrived \union {e}
    /\ UNCHANGED <<vars, serve, canceled, child, loops, monitor, probed,
                   background, connections>>

\* A request of the control API, which works on the pool and on the ClickHouse
\* connection, arrives and is answered, or hangs.
QueryArrives(c) ==
    /\ child["control"] = "running" /\ c \in Queries \ arrived
    /\ arrived' = arrived \union {c}
    /\ UNCHANGED <<vars, serve, canceled, child, loops, monitor, probed,
                   background, connections>>

QueryEnds(c) ==
    /\ c \in arrived \intersect Queries
    /\ arrived' = arrived \ {c}
    /\ UNCHANGED <<vars, serve, canceled, child, loops, monitor, probed,
                   background, connections>>

\* The event of a request is enqueued by its handler; a shadow verdict may
\* complete whenever the gateway has been serving.
MayEnqueue(e) ==
    \/ e \in arrived
    \/ e \in Shadows /\ child["gateway"] # "none"

Handlers == \E e \in Events : MayEnqueue(e) /\ Enqueue(e) /\ UNCHANGED lifecycleVars

RunPipeline ==
    /\ connections["gateway"] # "none"
    /\ Run
    /\ probed' = FALSE
    /\ UNCHANGED <<serve, canceled, child, loops, arrived, monitor, background, connections>>

LifecycleNext ==
    \/ Build \/ Signal \/ Children \/ AllReceived \/ Cleanup
    \/ Background
    \/ \E e \in Events : Arrive(e)
    \/ \E c \in Queries : QueryArrives(c) \/ QueryEnds(c)
    \/ Handlers \/ RunPipeline
    \/ DrainExpires /\ UNCHANGED lifecycleVars

LifecycleSpec == LifecycleInit /\ [][LifecycleNext]_allVars

\* What ends once it may: startup and cleanup steps, servers and loops told to
\* stop.  None of it can be repeated, so one condition stands for all of them.
Winding ==
    \/ Build \/ AllReceived \/ Cleanup
    \/ \E p \in {"gateway", "control"} : ShutdownDrains(p) \/ ShutdownTimesOut(p)
    \/ WorkerStops \/ WorkerReturns \/ \E l \in Loops : LoopStops(l)
    \/ \E p \in PartSet : \E g \in background[p] : GoroutineEnds(p, g)
    \/ MonitorStops

Recording(e) == handler[e] # "start" /\ Enqueue(e) /\ UNCHANGED lifecycleVars

\* Every goroutine keeps running and timers fire.  A request of either server or a
\* shadow verdict may hang, and no signal need come.  ClickHouse
\* does not fail every probe for ever.
LifecycleFairness ==
    /\ WF_allVars(Winding)
    /\ WF_allVars(MonitorChecks(TRUE))
    /\ WF_allVars(RunPipeline) /\ SF_allVars(RunDone /\ RunPipeline)
    /\ \A e \in Events : WF_allVars(Recording(e))

FairLifecycle == LifecycleSpec /\ LifecycleFairness

-----------------------------------------------------------------------------
(* Properties.                                                             *)

\* A Flush that returned an error leaves the gate unhealthy, whatever handlers
\* store into it and however many batches after the failed one were written,
\* until a later Flush or a probe of ClickHouse succeeds.
FailureShows ==
    FlushFailed => ~ gate.healthy \/ probed

\* The connections of a part are closed only after the goroutines, loops, monitor
\* and pipeline that work on them have stopped, on every path out of startup,
\* running and shutdown; and as long as nothing has failed, after the requests of
\* the control API too.  After an error they may find their connections closed:
\* its listener failed, or its Shutdown timed out, and they go on.
UsersGoneBeforeClose ==
    \A p \in PartSet : connections[p] = "closed" =>
        /\ background[p] = {}
        /\ p = "gateway" => flusher.pc = "stopped" /\ monitor = "stopped"
        /\ p = "worker" => loops = {}
        /\ p = "control" => serve.err \/ InFlight(p) = {}

\* When serve returns without an error, every event a request put into the
\* queue has been written or reported lost.
CleanStopDrains ==
    serve.pc = "returned" /\ ~ serve.err =>
        \A e \in Requests : handler[e] = "sent" => e \in sunk \union lost

\* Shutdown ends: once a signal came, or one child failed and has to take the
\* others down, serve returns, whatever requests hang and whatever else fails.
ServeReturns == canceled \/ serve.err ~> serve.pc = "returned"

\* A gate that a dropped event or a failed write made unhealthy does not lock
\* the gateway out for ever: with no request admitted nothing is flushed, and
\* the monitor must open it again.
GateRecovers == ~ gate.healthy ~> gate.healthy \/ serve.pc \notin {"build", "opened", "run"}
=============================================================================
