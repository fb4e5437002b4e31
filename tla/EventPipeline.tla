--------------------------- MODULE EventPipeline ---------------------------
(***************************************************************************)
(* The asynchronous event pipeline (traffic/adapters/events: pipeline.go,  *)
(* health.go, DurableSink.WriteBatch of durable_sink.go).                  *)
(*                                                                         *)
(* Request handlers call Enqueue, one goroutine per event; a single        *)
(* flusher goroutine (Pipeline.Run) drains the channel in batches into the *)
(* durable sink and reports the outcome to the strict health gate that     *)
(* admission reads.  Atomic loads and stores are separate steps, so every  *)
(* interleaving of handlers and flusher is a behaviour.                    *)
(***************************************************************************)
EXTENDS Integers, Sequences, FiniteSets, Functions

CONSTANTS
    Events,             \* events, each enqueued once by its own goroutine
    Capacity,           \* PipelineOptions.Capacity
    BatchSize,          \* PipelineOptions.BatchSize
    MarkUnhealthyDrop,  \* PipelineOptions.MarkUnhealthyDrop
    SpoolFails          \* may Append fail while its context is alive?

ASSUME PipelineAssumption ==
    /\ Capacity \in Nat \ {0} /\ BatchSize \in Nat \ {0}
    /\ MarkUnhealthyDrop \in BOOLEAN /\ SpoolFails \in BOOLEAN
    /\ IsFiniteSet(Events)

VARIABLES
    queue,      \* Pipeline.events
    closed,     \* Pipeline.closed
    dropped,    \* Pipeline.dropped
    gate,       \* HealthGate: two atomics
    handler,    \* each Enqueue call: where it is
    flusher,    \* Pipeline.Run: where it is, its batch, and Flush's firstErr
    context,    \* the context the flusher's writes run under
    sunk,       \* the events the primary or the spool has taken
    lost        \* the events of batches that both writes refused

vars == <<queue, closed, dropped, gate, handler, flusher, context, sunk, lost>>

Reasons == {"", "event_queue_saturated", "clickhouse_write_failed",
            "clickhouse_unhealthy"}

HandlerStates == {"start", "send", "sent", "refused", "drop", "reason",
                  "unhealthy", "dropped"}

\* wait: in Run's select.  collect, write, rewrite: in Flush.  succeeded,
\* failed: marking the gate after a batch; reported: after Flush returned an
\* error.  Each of these stores the reason first and then healthy ("...2").
FlusherStates == {"wait", "closing", "collect", "write", "rewrite", "succeeded",
                  "succeeded2", "failed", "failed2", "return", "reported2", "stopped"}

TypeOK ==
    /\ queue \in Seq(Events) /\ Len(queue) <= Capacity
    /\ closed \in BOOLEAN
    /\ dropped \in Nat
    /\ gate \in [healthy : BOOLEAN, reason : Reasons]
    /\ handler \in [Events -> HandlerStates]
    /\ flusher \in [pc : FlusherStates, batch : Seq(Events), firstErr : BOOLEAN]
    /\ Len(flusher.batch) <= BatchSize
    /\ context \in {"live", "canceled", "drain", "expired"}
    /\ sunk \in SUBSET Events /\ lost \in SUBSET Events

Init ==
    /\ queue = <<>> /\ closed = FALSE /\ dropped = 0
    /\ gate = [healthy |-> TRUE, reason |-> ""]
    /\ handler = [e \in Events |-> "start"]
    /\ flusher = [pc |-> "wait", batch |-> <<>>, firstErr |-> FALSE]
    /\ context = "live"
    /\ sunk = {} /\ lost = {}

-----------------------------------------------------------------------------
(* Enqueue.                                                                *)

\* The closed flag is read once; the select comes later.
EnqueueStart(e) ==
    /\ handler[e] = "start"
    /\ handler' = [handler EXCEPT ![e] = IF closed THEN "drop" ELSE "send"]
    /\ UNCHANGED <<queue, closed, dropped, gate, flusher, context, sunk, lost>>

EnqueueSend(e) ==
    /\ handler[e] = "send" /\ Len(queue) < Capacity
    /\ queue' = Append(queue, e)
    /\ handler' = [handler EXCEPT ![e] = "sent"]
    /\ UNCHANGED <<closed, dropped, gate, flusher, context, sunk, lost>>

\* The request's context is done: the caller gets its error, and nothing counts
\* the event.
EnqueueRefused(e) ==
    /\ handler[e] = "send"
    /\ handler' = [handler EXCEPT ![e] = "refused"]
    /\ UNCHANGED <<queue, closed, dropped, gate, flusher, context, sunk, lost>>

EnqueueFull(e) ==
    /\ handler[e] = "send" /\ Len(queue) = Capacity
    /\ handler' = [handler EXCEPT ![e] = "drop"]
    /\ UNCHANGED <<queue, closed, dropped, gate, flusher, context, sunk, lost>>

\* (Mutant: only the drops on a full queue are counted.)
DropFullOnly(e) ==
    /\ handler[e] = "drop"
    /\ dropped' = IF closed THEN dropped ELSE dropped + 1
    /\ handler' = [handler EXCEPT ![e] = IF MarkUnhealthyDrop THEN "reason" ELSE "dropped"]
    /\ UNCHANGED <<queue, closed, gate, flusher, context, sunk, lost>>
Drop(e) ==
    /\ handler[e] = "drop"
    /\ dropped' = dropped + 1
    /\ handler' = [handler EXCEPT ![e] = IF MarkUnhealthyDrop THEN "reason" ELSE "dropped"]
    /\ UNCHANGED <<queue, closed, gate, flusher, context, sunk, lost>>

\* markDropUnhealthy: HealthGate.MarkUnhealthy stores the reason, then the flag.
DropReason(e) ==
    /\ handler[e] = "reason"
    /\ gate' = [gate EXCEPT !.reason = "event_queue_saturated"]
    /\ handler' = [handler EXCEPT ![e] = "unhealthy"]
    /\ UNCHANGED <<queue, closed, dropped, flusher, context, sunk, lost>>

DropUnhealthy(e) ==
    /\ handler[e] = "unhealthy"
    /\ gate' = [gate EXCEPT !.healthy = FALSE]
    /\ handler' = [handler EXCEPT ![e] = "dropped"]
    /\ UNCHANGED <<queue, closed, dropped, flusher, context, sunk, lost>>

Enqueue(e) ==
    \/ EnqueueStart(e) \/ EnqueueSend(e) \/ EnqueueRefused(e) \/ EnqueueFull(e)
    \/ Drop(e) \/ DropReason(e) \/ DropUnhealthy(e)

-----------------------------------------------------------------------------
(* Run and Flush.                                                          *)

\* The ticker fires: Flush under Run's context, canceled or not.
RunTick ==
    /\ flusher.pc = "wait"
    /\ flusher' = [flusher EXCEPT !.pc = "collect", !.firstErr = FALSE]
    /\ UNCHANGED <<queue, closed, dropped, gate, handler, context, sunk, lost>>

\* The context is done: Close, and then the final Flush under a fresh context.
RunDone ==
    /\ flusher.pc = "wait" /\ context = "canceled"
    /\ flusher' = [flusher EXCEPT !.pc = "closing"]
    /\ UNCHANGED <<queue, closed, dropped, gate, handler, context, sunk, lost>>

Close ==
    /\ flusher.pc = "closing"
    /\ closed' = TRUE
    /\ context' = "drain"
    /\ flusher' = [flusher EXCEPT !.pc = "collect", !.firstErr = FALSE]
    /\ UNCHANGED <<queue, dropped, gate, handler, sunk, lost>>

\* nextBatch receives one event at a time until the batch is full or the
\* channel is empty; an empty batch ends Flush.
Receive ==
    /\ flusher.pc = "collect"
    /\ Len(flusher.batch) < BatchSize /\ queue # <<>>
    /\ flusher' = [flusher EXCEPT !.batch = Append(@, Head(queue))]
    /\ queue' = Tail(queue)
    /\ UNCHANGED <<closed, dropped, gate, handler, context, sunk, lost>>

\* (Mutant: nextBatch waits for a full batch.)
BatchReadyWhenFull ==
    /\ flusher.pc = "collect"
    /\ Len(flusher.batch) = BatchSize
    /\ flusher' = [flusher EXCEPT !.pc = "write"]
    /\ UNCHANGED <<queue, closed, dropped, gate, handler, context, sunk, lost>>
BatchReady ==
    /\ flusher.pc = "collect"
    /\ Len(flusher.batch) = BatchSize \/ queue = <<>>
    /\ flusher' = [flusher EXCEPT !.pc = IF flusher.batch = <<>> THEN "return" ELSE "write"]
    /\ UNCHANGED <<queue, closed, dropped, gate, handler, context, sunk, lost>>

ContextAlive == context \in {"live", "drain"}

\* DurableSink.WriteBatch: the primary takes the batch, or it fails and the
\* spool takes the batch, or both fail.  Append looks at the context first, so
\* the spool takes nothing once the context is done.
SinkSucceeds == sunk' = sunk \union Range(flusher.batch)

\* The spool may have taken some of the batch before it failed, and the primary
\* may have taken all of it before it reported an error.
SinkFails ==
    /\ ~ ContextAlive \/ SpoolFails
    /\ \E k \in 0..Len(flusher.batch) :
          /\ k > 0 => ContextAlive \/ k = Len(flusher.batch)
          /\ sunk' = sunk \union Range(SubSeq(flusher.batch, 1, k))

WriteSucceeds ==
    /\ flusher.pc = "write"
    /\ SinkSucceeds
    /\ flusher' = [flusher EXCEPT !.pc = "succeeded"]
    /\ UNCHANGED <<queue, closed, dropped, gate, handler, context, lost>>

WriteFails ==
    /\ flusher.pc = "write"
    /\ SinkFails
    /\ flusher' = [flusher EXCEPT !.pc = "rewrite", !.firstErr = TRUE]
    /\ UNCHANGED <<queue, closed, dropped, gate, handler, context, lost>>

\* The batch is written once more with status "failed"; whatever comes of it,
\* Flush reports the failure and moves on.
RewriteSucceeds ==
    /\ flusher.pc = "rewrite"
    /\ SinkSucceeds
    /\ flusher' = [flusher EXCEPT !.pc = "failed"]
    /\ UNCHANGED <<queue, closed, dropped, gate, handler, context, lost>>

RewriteFails ==
    /\ flusher.pc = "rewrite"
    /\ SinkFails
    /\ lost' = lost \union (Range(flusher.batch) \ sunk')
    /\ flusher' = [flusher EXCEPT !.pc = "failed"]
    /\ UNCHANGED <<queue, closed, dropped, gate, handler, context>>

\* markWriteSucceeded: then MarkHealthy's reason, then its flag.
MarkSucceeded ==
    /\ flusher.pc = "succeeded"
    /\ gate' = [gate EXCEPT !.reason = ""]
    /\ flusher' = [flusher EXCEPT !.pc = "succeeded2"]
    /\ UNCHANGED <<queue, closed, dropped, handler, context, sunk, lost>>

MarkHealthy ==
    /\ flusher.pc = "succeeded2"
    /\ gate' = [gate EXCEPT !.healthy = TRUE]
    /\ flusher' = [flusher EXCEPT !.pc = "collect", !.batch = <<>>]
    /\ UNCHANGED <<queue, closed, dropped, handler, context, sunk, lost>>

\* markWriteFailed, in Flush for a batch and in Run for the error of Flush.
MarkFailed ==
    /\ flusher.pc = "failed"
    /\ gate' = [gate EXCEPT !.reason = "clickhouse_write_failed"]
    /\ flusher' = [flusher EXCEPT !.pc = "failed2"]
    /\ UNCHANGED <<queue, closed, dropped, handler, context, sunk, lost>>

MarkUnhealthy ==
    /\ flusher.pc = "failed2"
    /\ gate' = [gate EXCEPT !.healthy = FALSE]
    /\ flusher' = [flusher EXCEPT !.pc = "collect", !.batch = <<>>]
    /\ UNCHANGED <<queue, closed, dropped, handler, context, sunk, lost>>

\* Where Run goes after Flush.
AfterFlush == IF closed THEN "stopped" ELSE "wait"

FlushReturns ==
    /\ flusher.pc = "return" /\ ~ flusher.firstErr
    /\ flusher' = [flusher EXCEPT !.pc = AfterFlush]
    /\ UNCHANGED <<queue, closed, dropped, gate, handler, context, sunk, lost>>

\* (Mutant: Run ignores the error of Flush.)
FlushErrorIgnored ==
    /\ flusher.pc = "return" /\ flusher.firstErr
    /\ flusher' = [flusher EXCEPT !.pc = AfterFlush]
    /\ UNCHANGED <<queue, closed, dropped, gate, handler, context, sunk, lost>>
FlushReturnsError ==
    /\ flusher.pc = "return" /\ flusher.firstErr
    /\ gate' = [gate EXCEPT !.reason = "clickhouse_write_failed"]
    /\ flusher' = [flusher EXCEPT !.pc = "reported2"]
    /\ UNCHANGED <<queue, closed, dropped, handler, context, sunk, lost>>

ReportUnhealthy ==
    /\ flusher.pc = "reported2"
    /\ gate' = [gate EXCEPT !.healthy = FALSE]
    /\ flusher' = [flusher EXCEPT !.pc = AfterFlush]
    /\ UNCHANGED <<queue, closed, dropped, handler, context, sunk, lost>>

Run ==
    \/ RunTick \/ RunDone \/ Close \/ Receive \/ BatchReady
    \/ WriteSucceeds \/ WriteFails \/ RewriteSucceeds \/ RewriteFails
    \/ MarkSucceeded \/ MarkHealthy \/ MarkFailed \/ MarkUnhealthy
    \/ FlushReturns \/ FlushReturnsError \/ ReportUnhealthy

-----------------------------------------------------------------------------
(* Shutdown: CancelPipeline, and the deadline of the final drain.          *)

CancelPipeline ==
    /\ context = "live" /\ context' = "canceled"
    /\ UNCHANGED <<queue, closed, dropped, gate, handler, flusher, sunk, lost>>

DrainExpires ==
    /\ context = "drain" /\ context' = "expired"
    /\ UNCHANGED <<queue, closed, dropped, gate, handler, flusher, sunk, lost>>

-----------------------------------------------------------------------------
(* The third writer of the gate: the ClickHouse monitor (ProcessLifecycle  *)
(* says when it runs).  Admission reads only the flag, so both stores of   *)
(* the gate are one step here.                                             *)

MonitorMarks(ok) ==
    /\ gate' = [healthy |-> ok, reason |-> IF ok THEN "" ELSE "clickhouse_unhealthy"]
    /\ UNCHANGED <<queue, closed, dropped, handler, flusher, context, sunk, lost>>

Next ==
    \/ \E e \in Events : Enqueue(e)
    \/ Run
    \/ CancelPipeline \/ DrainExpires
    \/ \E ok \in BOOLEAN : MonitorMarks(ok)

Spec == Init /\ [][Next]_vars

-----------------------------------------------------------------------------
(* Properties.                                                             *)

Dropping == {e \in Events : handler[e] \in {"reason", "unhealthy", "dropped"}}

Held == Range(queue) \union Range(flusher.batch) \union sunk \union lost

\* The events Enqueue has sent, and no others, are at every moment in the channel,
\* in the batch being written, in the sink, or in a batch reported as failed, and
\* the drop counter is the number of those a full or closed channel turned away.
\* In neither are the events refused because the request's context was done: the
\* gateway ignores that error.  One left in the channel after the final drain
\* stays there.
Accounted ==
    /\ dropped = Cardinality(Dropping)
    /\ Held = {e \in Events : handler[e] = "sent"}

\* A queued event is written or reported lost, unless the pipeline stops first.
QueuedIsFlushed ==
    \A e \in Events :
        e \in Range(queue) ~> e \in sunk \union lost \/ flusher.pc = "stopped"
=============================================================================
