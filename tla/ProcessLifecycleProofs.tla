------------------------ MODULE ProcessLifecycleProofs ------------------------
(***************************************************************************)
(* Proofs about the event pipeline and the process around it, for any      *)
(* events, capacity, batch size and loops.                                 *)
(***************************************************************************)
EXTENDS ProcessLifecycle, FiniteSetTheorems, TLAPS

-----------------------------------------------------------------------------
(* Sequences and their ranges.                                             *)

\* The elements of a sequence over S are in S.
LEMMA RangeOfSeq ==
    ASSUME NEW S, NEW s \in Seq(S)
    PROVE  /\ Range(s) \subseteq S
           /\ (s = <<>>) => Range(s) = {}
BY DEF Range

\* Appending adds one element.
LEMMA RangeOfAppend ==
    ASSUME NEW S, NEW s \in Seq(S), NEW e \in S
    PROVE  /\ Append(s, e) \in Seq(S)
           /\ Len(Append(s, e)) = Len(s) + 1
           /\ Range(Append(s, e)) = Range(s) \union {e}
<1>1. DOMAIN Append(s, e) = 1..(Len(s) + 1) /\ DOMAIN s = 1..Len(s) /\ Len(s) \in Nat
  OBVIOUS
<1>2. \A i \in 1..Len(s) : Append(s, e)[i] = s[i]
  OBVIOUS
<1>3. Append(s, e)[Len(s) + 1] = e
  OBVIOUS
<1>4. Range(Append(s, e)) \subseteq Range(s) \union {e}
  BY <1>1, <1>2, <1>3 DEF Range
<1>5. Range(s) \union {e} \subseteq Range(Append(s, e))
  BY <1>1, <1>2, <1>3 DEF Range
<1> QED
  BY <1>4, <1>5

\* Taking the head removes no other element.
LEMMA RangeOfTail ==
    ASSUME NEW S, NEW s \in Seq(S), s # <<>>
    PROVE  /\ Head(s) \in S
           /\ Tail(s) \in Seq(S)
           /\ Len(Tail(s)) = Len(s) - 1
           /\ Range(s) = {Head(s)} \union Range(Tail(s))
<1>1. /\ DOMAIN s = 1..Len(s) /\ DOMAIN Tail(s) = 1..(Len(s) - 1)
      /\ Len(s) \in Nat \ {0}
  OBVIOUS
<1>2. \A i \in 1..(Len(s) - 1) : Tail(s)[i] = s[i + 1]
  OBVIOUS
<1>3. Head(s) = s[1]
  OBVIOUS
<1>4. Range(s) \subseteq {Head(s)} \union Range(Tail(s))
  <2> SUFFICES ASSUME NEW i \in 1..Len(s), i # 1
               PROVE  s[i] \in Range(Tail(s))
    BY <1>1, <1>3 DEF Range
  <2>1. i - 1 \in 1..(Len(s) - 1) /\ Tail(s)[i - 1] = s[i]
    BY <1>1, <1>2
  <2> QED
    BY <1>1, <2>1 DEF Range
<1>5. {Head(s)} \union Range(Tail(s)) \subseteq Range(s)
  <2>1. Head(s) \in Range(s)
    BY <1>1, <1>3 DEF Range
  <2>2. \A i \in 1..(Len(s) - 1) : Tail(s)[i] \in Range(s)
    BY <1>1, <1>2 DEF Range
  <2> QED
    BY <1>1, <2>1, <2>2 DEF Range
<1> QED
  BY <1>1, <1>4, <1>5

\* A prefix has no element of its own.
LEMMA RangeOfPrefix ==
    ASSUME NEW S, NEW s \in Seq(S), NEW k \in 0..Len(s)
    PROVE  Range(SubSeq(s, 1, k)) \subseteq Range(s)
<1>1. DOMAIN s = 1..Len(s) /\ DOMAIN SubSeq(s, 1, k) = 1..k /\ Len(s) \in Nat
  OBVIOUS
<1>2. \A i \in 1..k : SubSeq(s, 1, k)[i] = s[i]
  OBVIOUS
<1> QED
  BY <1>1, <1>2 DEF Range

-----------------------------------------------------------------------------
(* The pipeline: its types.                                                *)

\* The channel and the batch hold at least one event.
LEMMA Sizes == Capacity \in Nat /\ BatchSize \in Nat /\ Capacity > 0 /\ BatchSize > 0
<1>1. Capacity \in Nat \ {0} /\ BatchSize \in Nat \ {0}
  BY PipelineAssumption, Zenon
<1> QED
  BY <1>1

\* The pipeline starts well typed.
LEMMA InitTypeOK == Init => TypeOK
<1> SUFFICES ASSUME Init PROVE TypeOK
  OBVIOUS
<1>0. queue = <<>> /\ flusher.batch = <<>>
  BY DEF Init
<1>1. queue \in Seq(Events) /\ Len(queue) <= Capacity /\ Len(flusher.batch) <= BatchSize
  BY <1>0, Sizes
<1>2. gate \in [healthy : BOOLEAN, reason : Reasons]
  BY DEF Init, Reasons
<1> QED
  BY <1>1, <1>2 DEF Init, TypeOK, HandlerStates, FlusherStates

\* Handing in an event keeps the types.
LEMMA EnqueueTypeOK ==
    ASSUME TypeOK, NEW e \in Events, Enqueue(e)
    PROVE  TypeOK'
<1> USE DEF TypeOK, HandlerStates
<1>1. CASE EnqueueStart(e)
  BY <1>1 DEF EnqueueStart
<1>2. CASE EnqueueSend(e)
  <2>1. queue' = Append(queue, e) /\ Len(queue) < Capacity
    BY <1>2 DEF EnqueueSend
  <2>2. queue' \in Seq(Events) /\ Len(queue') <= Capacity
    BY <2>1, RangeOfAppend, Sizes
  <2> QED
    BY <1>2, <2>2 DEF EnqueueSend
<1>3. CASE EnqueueRefused(e)
  BY <1>3 DEF EnqueueRefused
<1>4. CASE EnqueueFull(e)
  BY <1>4 DEF EnqueueFull
<1>5. CASE Drop(e)
  BY <1>5 DEF Drop
<1>6. CASE DropReason(e)
  BY <1>6 DEF DropReason, Reasons
<1>7. CASE DropUnhealthy(e)
  BY <1>7 DEF DropUnhealthy
<1> QED
  BY <1>1, <1>2, <1>3, <1>4, <1>5, <1>6, <1>7 DEF Enqueue

\* What sink and monitor do to the gate keeps the types.
LEMMA SinkTypeOK ==
    ASSUME TypeOK, SinkSucceeds \/ SinkFails
    PROVE  sunk' \in SUBSET Events
<1>1. Range(flusher.batch) \subseteq Events
  BY RangeOfSeq DEF TypeOK
<1>2. \A k \in 0..Len(flusher.batch) :
        Range(SubSeq(flusher.batch, 1, k)) \subseteq Range(flusher.batch)
  BY RangeOfPrefix DEF TypeOK
<1>3. CASE SinkSucceeds
  BY <1>1, <1>3 DEF SinkSucceeds, TypeOK
<1>4. CASE SinkFails
  BY <1>1, <1>2, <1>4 DEF SinkFails, TypeOK
<1> QED
  BY <1>3, <1>4

\* The flusher's steps keep the types.
LEMMA RunTypeOK ==
    ASSUME TypeOK, Run
    PROVE  TypeOK'
<1> USE DEF TypeOK, FlusherStates
<1>0. <<>> \in Seq(Events) /\ Len(<<>>) <= BatchSize
  BY Sizes
<1>1. CASE RunTick
  BY <1>1 DEF RunTick
<1>2. CASE RunDone
  BY <1>2 DEF RunDone
<1>3. CASE Close
  BY <1>3 DEF Close
<1>4. CASE Receive
  <2>1. /\ Head(queue) \in Events /\ Tail(queue) \in Seq(Events)
        /\ Len(Tail(queue)) <= Capacity
    BY <1>4, RangeOfTail, Sizes DEF Receive
  <2>2. /\ Append(flusher.batch, Head(queue)) \in Seq(Events)
        /\ Len(Append(flusher.batch, Head(queue))) <= BatchSize
    BY <1>4, <2>1, RangeOfAppend, Sizes DEF Receive
  <2> QED
    BY <1>4, <2>1, <2>2 DEF Receive
<1>5. CASE BatchReady
  BY <1>5 DEF BatchReady
<1>6. CASE WriteSucceeds
  BY <1>6, SinkTypeOK DEF WriteSucceeds
<1>7. CASE WriteFails
  BY <1>7, SinkTypeOK DEF WriteFails
<1>8. CASE RewriteSucceeds
  BY <1>8, SinkTypeOK DEF RewriteSucceeds
<1>9. CASE RewriteFails
  <2>1. Range(flusher.batch) \subseteq Events
    BY RangeOfSeq
  <2> QED
    BY <1>9, <2>1, SinkTypeOK DEF RewriteFails
<1>10. CASE MarkSucceeded
  BY <1>10 DEF MarkSucceeded, Reasons
<1>11. CASE MarkHealthy
  BY <1>0, <1>11 DEF MarkHealthy
<1>12. CASE MarkFailed
  BY <1>12 DEF MarkFailed, Reasons
<1>13. CASE MarkUnhealthy
  BY <1>0, <1>13 DEF MarkUnhealthy
<1>14. CASE FlushReturns
  BY <1>14 DEF FlushReturns, AfterFlush
<1>15. CASE FlushReturnsError
  BY <1>15 DEF FlushReturnsError, Reasons
<1>16. CASE ReportUnhealthy
  BY <1>16 DEF ReportUnhealthy, AfterFlush
<1> QED
  BY <1>1, <1>2, <1>3, <1>4, <1>5, <1>6, <1>7, <1>8, <1>9, <1>10, <1>11, <1>12,
     <1>13, <1>14, <1>15, <1>16 DEF Run

\* Every step of the pipeline keeps the types.
LEMMA NextTypeOK == TypeOK /\ [Next]_vars => TypeOK'
<1> SUFFICES ASSUME TypeOK, [Next]_vars PROVE TypeOK'
  OBVIOUS
<1>1. CASE CancelPipeline
  BY <1>1 DEF CancelPipeline, TypeOK
<1>2. CASE DrainExpires
  BY <1>2 DEF DrainExpires, TypeOK
<1>3. ASSUME NEW ok \in BOOLEAN, MonitorMarks(ok) PROVE TypeOK'
  BY <1>3 DEF MonitorMarks, TypeOK, Reasons
<1>4. CASE UNCHANGED vars
  BY <1>4 DEF vars, TypeOK
<1> QED
  BY <1>1, <1>2, <1>3, <1>4, EnqueueTypeOK, RunTypeOK DEF Next

\* The pipeline keeps its types: the channel within its capacity and the batch
\* within its size (pipeline.go).
THEOREM PipelineTypeCorrect == Spec => []TypeOK
BY InitTypeOK, NextTypeOK, PTL DEF Spec

-----------------------------------------------------------------------------
(* The pipeline: every event is accounted for.                             *)

\* A batch that has been written, or given up, is in the sink or lost.
BatchRecorded ==
    flusher.pc \in {"succeeded", "succeeded2", "failed", "failed2"} =>
        Range(flusher.batch) \subseteq sunk \union lost

AccountedInv == TypeOK /\ BatchRecorded /\ Accounted

\* Finitely many events are between the full channel and the counter.
LEMMA DroppingFinite == IsFiniteSet(Dropping) /\ Cardinality(Dropping) \in Nat
<1>1. IsFiniteSet(Events)
  BY PipelineAssumption, Zenon
<1> QED
  BY <1>1, FS_Subset, FS_CardinalityType DEF Dropping

\* Before any event nothing is to be accounted for.
LEMMA InitAccounted == Init => AccountedInv
<1> SUFFICES ASSUME Init PROVE AccountedInv
  OBVIOUS
<1>1. Dropping = {}
  BY DEF Init, Dropping
<1>2. dropped = Cardinality(Dropping)
  BY <1>1, FS_EmptySet DEF Init
<1>3. \A e \in Events : handler[e] = "start"
  BY DEF Init
<1>4. flusher.pc = "wait" /\ flusher.batch = <<>> /\ queue = <<>>
  BY DEF Init
<1>5. Range(queue) = {} /\ Range(flusher.batch) = {}
  BY <1>4, RangeOfSeq, InitTypeOK DEF TypeOK
<1>6. Held = {e \in Events : handler[e] = "sent"}
  BY <1>3, <1>5 DEF Held, Init
<1> QED
  BY <1>2, <1>4, <1>6, InitTypeOK DEF AccountedInv, Accounted, BatchRecorded

\* A drop is counted once; no other step of a handler changes the two sets.
LEMMA EnqueueAccounted ==
    ASSUME AccountedInv, NEW e \in Events, Enqueue(e)
    PROVE  BatchRecorded' /\ Accounted'
<1> USE DEF AccountedInv
<1>1. handler' = [handler EXCEPT ![e] = handler'[e]] /\ handler'[e] # handler[e]
      /\ UNCHANGED <<flusher, sunk, lost>>
  BY DEF TypeOK, Enqueue, EnqueueStart, EnqueueSend, EnqueueRefused, EnqueueFull,
         Drop, DropReason, DropUnhealthy
<1>2. BatchRecorded'
  BY <1>1 DEF BatchRecorded
<1>3. \A d \in Events \ {e} : handler'[d] = handler[d]
  BY <1>1 DEF TypeOK
<1>4. CASE Drop(e)
  <2>1. e \notin Dropping /\ Dropping' = Dropping \union {e} /\ dropped' = dropped + 1
    BY <1>3, <1>4 DEF Drop, Dropping, TypeOK
  <2>2. Cardinality(Dropping') = Cardinality(Dropping) + 1
    BY <2>1, DroppingFinite, FS_AddElement
  <2>3. \A d \in Events : handler'[d] = "sent" <=> handler[d] = "sent"
    BY <1>3, <1>4 DEF Drop, TypeOK
  <2>4. UNCHANGED queue
    BY <1>4 DEF Drop
  <2>5. Held' = Held
    BY <1>1, <2>4 DEF Held
  <2> QED
    BY <1>2, <2>1, <2>2, <2>3, <2>5 DEF Accounted
<1>5. CASE EnqueueSend(e)
  <2>1. Range(queue') = Range(queue) \union {e}
    BY <1>5, RangeOfAppend DEF EnqueueSend, TypeOK
  <2>2. Dropping' = Dropping /\ dropped' = dropped
    BY <1>3, <1>5 DEF EnqueueSend, Dropping, TypeOK
  <2>3. Held' = Held \union {e}
    BY <1>1, <2>1 DEF Held
  <2>4. handler'[e] = "sent"
    BY <1>5 DEF EnqueueSend, TypeOK
  <2> QED
    BY <1>2, <1>3, <2>2, <2>3, <2>4 DEF Accounted
<1>6. CASE EnqueueStart(e) \/ EnqueueRefused(e) \/ EnqueueFull(e)
           \/ DropReason(e) \/ DropUnhealthy(e)
  <2>1. handler[e] # "sent" /\ handler'[e] # "sent" /\ UNCHANGED <<queue, dropped>>
    BY <1>6 DEF TypeOK, EnqueueStart, EnqueueRefused, EnqueueFull, DropReason, DropUnhealthy
  <2>2. e \in Dropping <=> handler'[e] \in {"reason", "unhealthy", "dropped"}
    BY <1>6 DEF TypeOK, Dropping, EnqueueStart, EnqueueRefused, EnqueueFull,
                DropReason, DropUnhealthy
  <2>3. Dropping' = Dropping
    BY <1>3, <2>2 DEF Dropping
  <2>4. Held' = Held
    BY <1>1, <2>1 DEF Held
  <2> QED
    BY <1>2, <1>3, <2>1, <2>3, <2>4 DEF Accounted
<1> QED
  BY <1>4, <1>5, <1>6 DEF Enqueue

\* An event moves from the queue to the batch, and leaves the batch only when it
\* is in the sink or lost.
LEMMA RunAccounted ==
    ASSUME AccountedInv, Run
    PROVE  BatchRecorded' /\ Accounted'
<1> USE DEF AccountedInv
<1>1. UNCHANGED <<handler, dropped>>
  BY DEF Run, RunTick, RunDone, Close, Receive, BatchReady, WriteSucceeds, WriteFails,
         RewriteSucceeds, RewriteFails, MarkSucceeded, MarkHealthy, MarkFailed,
         MarkUnhealthy, FlushReturns, FlushReturnsError, ReportUnhealthy
<1>2. SUFFICES BatchRecorded' /\ Held' = Held
  BY <1>1, <1>2 DEF Accounted, Dropping
<1>0. ASSUME SinkFails
      PROVE  sunk \subseteq sunk' /\ sunk' \subseteq sunk \union Range(flusher.batch)
  <2>1. PICK k \in 0..Len(flusher.batch) :
               sunk' = sunk \union Range(SubSeq(flusher.batch, 1, k))
    BY <1>0 DEF SinkFails
  <2>2. Range(SubSeq(flusher.batch, 1, k)) \subseteq Range(flusher.batch)
    BY RangeOfPrefix DEF TypeOK
  <2> QED
    BY <2>1, <2>2
<1>3. CASE RunTick \/ RunDone \/ Close \/ BatchReady \/ FlushReturns
           \/ FlushReturnsError \/ ReportUnhealthy
  <2>1. UNCHANGED <<queue, sunk, lost>> /\ flusher'.batch = flusher.batch
    BY <1>3 DEF TypeOK, RunTick, RunDone, Close, BatchReady, FlushReturns,
                FlushReturnsError, ReportUnhealthy
  <2>2. flusher'.pc \in {"collect", "closing", "return", "write", "wait", "stopped", "reported2"}
    BY <1>3 DEF TypeOK, RunTick, RunDone, Close, BatchReady, FlushReturns,
                FlushReturnsError, ReportUnhealthy, AfterFlush
  <2> QED
    BY <2>1, <2>2 DEF BatchRecorded, Held
<1>4. CASE Receive
  <2>1. /\ Head(queue) \in Events
        /\ Range(queue) = {Head(queue)} \union Range(queue')
    BY <1>4, RangeOfTail DEF Receive, TypeOK
  <2>2. Range(flusher'.batch) = Range(flusher.batch) \union {Head(queue)}
    BY <1>4, <2>1, RangeOfAppend DEF Receive, TypeOK
  <2>3. UNCHANGED <<sunk, lost>> /\ flusher'.pc = "collect"
    BY <1>4 DEF Receive, TypeOK
  <2> QED
    BY <2>1, <2>2, <2>3 DEF BatchRecorded, Held
<1>5. CASE WriteSucceeds \/ RewriteSucceeds
  <2>1. UNCHANGED <<queue, lost>> /\ flusher'.batch = flusher.batch
        /\ sunk' = sunk \union Range(flusher.batch)
    BY <1>5 DEF TypeOK, WriteSucceeds, RewriteSucceeds, SinkSucceeds
  <2> QED
    BY <2>1 DEF BatchRecorded, Held
<1>6. CASE WriteFails
  <2>1. UNCHANGED <<queue, lost>> /\ flusher'.batch = flusher.batch
        /\ SinkFails /\ flusher'.pc = "rewrite"
    BY <1>6 DEF TypeOK, WriteFails
  <2> QED
    BY <1>0, <2>1 DEF BatchRecorded, Held
<1>7. CASE RewriteFails
  <2>1. UNCHANGED queue /\ flusher'.batch = flusher.batch
        /\ SinkFails /\ lost' = lost \union (Range(flusher.batch) \ sunk')
    BY <1>7 DEF TypeOK, RewriteFails
  <2> QED
    BY <1>0, <2>1 DEF BatchRecorded, Held
<1>8. CASE MarkSucceeded \/ MarkFailed
  <2>1. UNCHANGED <<queue, sunk, lost>> /\ flusher'.batch = flusher.batch
        /\ flusher.pc \in {"succeeded", "failed"}
    BY <1>8 DEF TypeOK, MarkSucceeded, MarkFailed
  <2> QED
    BY <2>1 DEF BatchRecorded, Held
<1>9. CASE MarkHealthy \/ MarkUnhealthy
  <2>1. UNCHANGED <<queue, sunk, lost>> /\ flusher'.pc = "collect"
        /\ flusher.pc \in {"succeeded2", "failed2"} /\ flusher'.batch = <<>>
    BY <1>9 DEF TypeOK, MarkHealthy, MarkUnhealthy
  <2>2. Range(<<>>) = {}
    BY DEF Range
  <2> QED
    BY <2>1, <2>2 DEF BatchRecorded, Held
<1> QED
  BY <1>3, <1>4, <1>5, <1>6, <1>7, <1>8, <1>9 DEF Run

\* Every step of the pipeline accounts for every event.
LEMMA NextAccounted == AccountedInv /\ [Next]_vars => AccountedInv'
<1> SUFFICES ASSUME AccountedInv, [Next]_vars PROVE AccountedInv'
  OBVIOUS
<1>0. TypeOK'
  BY NextTypeOK DEF AccountedInv
<1>1. CASE \/ CancelPipeline \/ DrainExpires \/ UNCHANGED vars
           \/ \E ok \in BOOLEAN : MonitorMarks(ok)
  <2>1. UNCHANGED <<queue, dropped, handler, flusher, sunk, lost>>
    BY <1>1 DEF CancelPipeline, DrainExpires, vars, MonitorMarks
  <2> QED
    BY <1>0, <2>1 DEF AccountedInv, Accounted, Held, BatchRecorded, Dropping
<1> QED
  BY <1>0, <1>1, EnqueueAccounted, RunAccounted DEF Next, AccountedInv

\* Exactly the events that entered the channel are in it, in the batch, in the sink
\* or reported lost, and the counter is the number of those that a full or closed
\* channel turned away, whatever handlers, flusher and shutdown do (pipeline.go).
THEOREM PipelineAccounts == Spec => []Accounted
<1>1. AccountedInv => Accounted
  BY DEF AccountedInv
<1> QED
  BY <1>1, InitAccounted, NextAccounted, PTL DEF Spec

-----------------------------------------------------------------------------
(* The process: its steps are steps of the pipeline.                       *)

\* What each kind of step does to the pipeline.
LEMMA PipelineUntouched ==
    ASSUME Build \/ Signal \/ Children \/ AllReceived \/ CloseConnections \/ MonitorStops
           \/ (\E p \in PartSet : \E g \in background[p] : GoroutineEnds(p, g))
           \/ (\E e \in Events : Arrive(e))
           \/ (\E c \in Queries : QueryArrives(c) \/ QueryEnds(c))
    PROVE  UNCHANGED vars
<1>1. CASE Build
  BY <1>1 DEF Build, BuildOpens, BuildFails, BuildSucceeds, LoadFails
<1>2. CASE Children
  BY <1>2 DEF Children, ListenFails, ShutdownDrains, ShutdownTimesOut, LoopFails,
              LoopStops, WorkerStops, WorkerReturns, Returns
<1>3. CASE Signal \/ AllReceived \/ CloseConnections \/ MonitorStops
  BY <1>3 DEF Signal, AllReceived, CloseConnections, MonitorStops
<1>4. ASSUME NEW p \in PartSet, NEW g \in background[p], GoroutineEnds(p, g)
      PROVE  UNCHANGED vars
  BY <1>4 DEF GoroutineEnds
<1>5. ASSUME NEW e \in Events, Arrive(e) PROVE UNCHANGED vars
  BY <1>5 DEF Arrive
<1>6. ASSUME NEW c \in Queries, QueryArrives(c) \/ QueryEnds(c) PROVE UNCHANGED vars
  BY <1>6 DEF QueryArrives, QueryEnds
<1> QED
  BY <1>1, <1>2, <1>3, <1>4, <1>5, <1>6

\* A step of the process is a step of the pipeline, or leaves it alone.
LEMMA StepsOfPipeline == [LifecycleNext]_allVars => [Next]_vars
<1> SUFFICES ASSUME [LifecycleNext]_allVars PROVE [Next]_vars
  OBVIOUS
<1>1. CASE UNCHANGED allVars
  BY <1>1 DEF allVars
<1>2. CASE CleanupStop
  BY <1>2 DEF CleanupStop, Next
<1>3. CASE MonitorChecks(TRUE) \/ MonitorChecks(FALSE)
  BY <1>3 DEF MonitorChecks, Next
<1>4. CASE Handlers
  BY <1>4 DEF Handlers, Next
<1>5. CASE RunPipeline
  BY <1>5 DEF RunPipeline, Next
<1>6. CASE DrainExpires
  BY <1>6 DEF Next
<1> QED
  BY <1>1, <1>2, <1>3, <1>4, <1>5, <1>6, PipelineUntouched
     DEF LifecycleNext, Cleanup, Background

\* Whatever the process does, its pipeline behaves as EventPipeline says (app.go
\* starts, cancels and waits for Run and touches nothing of it).
THEOREM ProcessRunsPipeline == LifecycleSpec => Spec
<1>1. LifecycleInit => Init
  BY DEF LifecycleInit
<1> QED
  BY <1>1, StepsOfPipeline, PTL DEF LifecycleSpec, Spec

\* In a whole process too, startup and shutdown included, exactly the events that
\* entered the channel are in it, in the batch, in the sink or reported lost, and
\* the drops are counted (pipeline.go, app.go).
THEOREM EventsAccounted == LifecycleSpec => []Accounted
BY ProcessRunsPipeline, PipelineAccounts, PTL

-----------------------------------------------------------------------------
(* The process: its types.                                                 *)

\* The three parts, in the order they are built.
LEMMA PartsAre ==
    /\ Len(Parts) = 3
    /\ Parts[1] = "gateway" /\ Parts[2] = "control" /\ Parts[3] = "worker"
    /\ PartSet = {"gateway", "control", "worker"}
<1>1. Len(Parts) = 3 /\ DOMAIN Parts = 1..3
  BY DEF Parts
<1>2. Parts[1] = "gateway" /\ Parts[2] = "control" /\ Parts[3] = "worker"
  BY DEF Parts
<1>3. 1..3 = {1, 2, 3}
  OBVIOUS
<1>4. PartSet = {Parts[1], Parts[2], Parts[3]}
  BY <1>1, <1>3 DEF PartSet, Range
<1> QED
  BY <1>1, <1>2, <1>4

\* While there is a part to build or to clean, it is one of the three.
PartKnown == serve.pc # "returned" => serve.part \in 1..3

ServeTypes == LifecycleTypeOK /\ PartKnown

\* Until serve returns the part it is at is one of the three.
LEMMA PartInSet ==
    ASSUME PartKnown, serve.pc # "returned"
    PROVE  Part \in PartSet
BY PartsAre DEF PartKnown, Part

\* The process starts well typed.
LEMMA LifecycleInitTypes == LifecycleInit => ServeTypes
<1> SUFFICES ASSUME LifecycleInit PROVE ServeTypes
  OBVIOUS
<1>1. TypeOK
  BY InitTypeOK DEF LifecycleInit
<1>2. serve \in [pc : ServeSteps, part : 0..3, err : BOOLEAN] /\ PartKnown
  BY DEF LifecycleInit, ServeSteps, PartKnown
<1> QED
  BY <1>1, <1>2, PartsAre DEF LifecycleInit, ServeTypes, LifecycleTypeOK

\* Building a part keeps the types.
LEMMA BuildTypes ==
    ASSUME ServeTypes, Build
    PROVE  LifecycleTypeOK' /\ PartKnown'
<1>0. TypeOK'
  BY PipelineUntouched, NextTypeOK DEF ServeTypes, LifecycleTypeOK
<1> USE PartsAre, PartInSet DEF ServeTypes, LifecycleTypeOK, PartKnown, ServeSteps
<1>1. CASE BuildOpens
  BY <1>0, <1>1 DEF BuildOpens, Goroutines
<1>2. CASE BuildFails
  BY <1>0, <1>2 DEF BuildFails
<1>3. CASE BuildSucceeds
  <2>0. serve \in [pc : ServeSteps, part : 1..3, err : BOOLEAN]
    BY <1>3 DEF BuildSucceeds
  <2>1. serve' \in [pc : ServeSteps, part : 1..3, err : BOOLEAN]
    <3>1. CASE serve.part < Len(Parts)
      <4>1. serve.part + 1 \in 1..3
        BY <2>0, <3>1
      <4>2. serve' = [serve EXCEPT !.pc = "build", !.part = serve.part + 1]
        BY <1>3, <3>1 DEF BuildSucceeds
      <4> QED
        BY <2>0, <4>1, <4>2
    <3>2. CASE ~ (serve.part < Len(Parts))
      BY <1>3, <2>0, <3>2 DEF BuildSucceeds
    <3> QED
      BY <3>1, <3>2
  <2>2. child' \in [PartSet -> {"none", "running", "stopping", "failing", "returned"}]
        /\ loops' \subseteq Loops
    BY <1>3 DEF BuildSucceeds
  <2>3. background' \in [PartSet -> SUBSET {"replay", "watcher", "monitor"}]
    BY <1>3 DEF BuildSucceeds, Goroutines
  <2> QED
    BY <1>0, <1>3, <2>1, <2>2, <2>3 DEF BuildSucceeds
<1>4. CASE LoadFails
  BY <1>0, <1>4 DEF LoadFails
<1> QED
  BY <1>1, <1>2, <1>3, <1>4 DEF Build

\* The return of a child keeps the types.
LEMMA ReturnsTypes ==
    ASSUME ServeTypes, TypeOK', NEW p \in PartSet, NEW failed \in BOOLEAN, Returns(p, failed)
    PROVE  LifecycleTypeOK' /\ PartKnown'
BY PartsAre DEF Returns, ServeTypes, LifecycleTypeOK, PartKnown

\* The children's steps keep the types.
LEMMA ChildrenTypes ==
    ASSUME ServeTypes, Children
    PROVE  LifecycleTypeOK' /\ PartKnown'
<1>0. TypeOK'
  BY PipelineUntouched, NextTypeOK DEF ServeTypes, LifecycleTypeOK
<1>1. ASSUME NEW p \in {"gateway", "control"},
             ListenFails(p) \/ ShutdownDrains(p) \/ ShutdownTimesOut(p)
      PROVE  LifecycleTypeOK' /\ PartKnown'
  <2>1. Returns(p, TRUE) \/ Returns(p, FALSE)
    BY <1>1 DEF ListenFails, ShutdownDrains, ShutdownTimesOut
  <2> QED
    BY <1>0, <2>1, ReturnsTypes, PartsAre
<1>2. CASE WorkerReturns
  BY <1>0, <1>2, ReturnsTypes, PartsAre DEF WorkerReturns
<1> USE <1>0, PartsAre DEF ServeTypes, LifecycleTypeOK, PartKnown
<1>3. CASE WorkerStops
  BY <1>3 DEF WorkerStops
<1>4. ASSUME NEW l \in Loops, LoopFails(l) \/ LoopStops(l)
      PROVE  LifecycleTypeOK' /\ PartKnown'
  BY <1>4 DEF LoopFails, LoopStops
<1> QED
  BY <1>1, <1>2, <1>3, <1>4 DEF Children

\* Every step of the process keeps the types.
LEMMA LifecycleNextTypes == ServeTypes /\ [LifecycleNext]_allVars => ServeTypes'
<1> SUFFICES ASSUME ServeTypes, [LifecycleNext]_allVars
             PROVE  LifecycleTypeOK' /\ PartKnown'
  BY DEF ServeTypes
<1>0. TypeOK'
  BY StepsOfPipeline, NextTypeOK DEF ServeTypes, LifecycleTypeOK
<1> USE <1>0, PartsAre, PartInSet DEF ServeTypes, LifecycleTypeOK, PartKnown, ServeSteps
<1>1. CASE Signal
  BY <1>1 DEF Signal
<1>2. CASE AllReceived
  BY <1>2 DEF AllReceived
<1>3. CASE CleanupStop
  BY <1>3 DEF CleanupStop, GoTo
<1>4. CASE CloseConnections
  <2>0. serve \in [pc : ServeSteps, part : 1..3, err : BOOLEAN]
    BY <1>4 DEF CloseConnections
  <2>1. serve' \in [pc : ServeSteps, part : 0..3, err : BOOLEAN] /\ PartKnown'
    <3>1. CASE serve.part = 1
      <4>1. serve' = [serve EXCEPT !.pc = "returned", !.part = 0]
        BY <1>4, <3>1 DEF CloseConnections, PartDone
      <4>2. serve' = [pc |-> "returned", part |-> 0, err |-> serve.err]
        BY <2>0, <4>1
      <4>3. serve' \in [pc : ServeSteps, part : 0..3, err : BOOLEAN]
            /\ serve'.pc = "returned"
        BY <2>0, <4>2
      <4> QED
        BY <4>3
    <3>2. CASE serve.part # 1
      <4>1. serve.part - 1 \in 1..3
        BY <2>0, <3>2
      <4>2. serve' = [serve EXCEPT !.pc = "cleanup", !.part = serve.part - 1]
        BY <1>4, <3>2 DEF CloseConnections, PartDone
      <4>3. serve' \in [pc : ServeSteps, part : 1..3, err : BOOLEAN]
        BY <2>0, <4>1, <4>2
      <4> QED
        BY <4>3
    <3> QED
      BY <3>1, <3>2
  <2>2. connections' \in [PartSet -> {"none", "open", "closed"}]
    BY <1>4 DEF CloseConnections
  <2> QED
    BY <1>4, <2>1, <2>2 DEF CloseConnections
<1>5. ASSUME NEW p \in PartSet, NEW g \in background[p], GoroutineEnds(p, g)
      PROVE  LifecycleTypeOK' /\ PartKnown'
  BY <1>5 DEF GoroutineEnds
<1>6. ASSUME NEW ok \in BOOLEAN, MonitorChecks(ok)
      PROVE  LifecycleTypeOK' /\ PartKnown'
  BY <1>6 DEF MonitorChecks
<1>7. CASE MonitorStops
  BY <1>7 DEF MonitorStops
<1>8. ASSUME NEW e \in Events, Arrive(e)
      PROVE  LifecycleTypeOK' /\ PartKnown'
  BY <1>8 DEF Arrive
<1>9. CASE RunPipeline
  BY <1>9 DEF RunPipeline
<1>10. CASE UNCHANGED lifecycleVars
  BY <1>10 DEF lifecycleVars
<1>11. ASSUME NEW c \in Queries, QueryArrives(c) \/ QueryEnds(c)
       PROVE  LifecycleTypeOK' /\ PartKnown'
  BY <1>11 DEF QueryArrives, QueryEnds
<1> QED
  BY <1>1, <1>2, <1>3, <1>4, <1>5, <1>6, <1>7, <1>8, <1>9, <1>10, <1>11, BuildTypes, ChildrenTypes
     DEF LifecycleNext, Cleanup, Background, Handlers, allVars

\* The process keeps its types: among them, it never builds or cleans a part
\* beyond the three it has (app.go).
THEOREM LifecycleTypeCorrect == LifecycleSpec => []LifecycleTypeOK
<1>1. ServeTypes => LifecycleTypeOK
  BY DEF ServeTypes
<1> QED
  BY <1>1, LifecycleInitTypes, LifecycleNextTypes, PTL DEF LifecycleSpec

-----------------------------------------------------------------------------
(* The process: connections are closed last.                               *)

\* Outside the time they run the worker has no loops.
LoopsEnded ==
    serve.pc \in {"build", "opened", "cleanup", "wait", "returned"}
        \/ child["worker"] = "returned" => loops = {}

\* Before the cleanup nothing is closed.
NothingClosedYet ==
    serve.pc \in {"build", "opened", "run"} =>
        \A p \in PartSet : connections[p] # "closed"

\* The goroutines and loops of a part are gone before its connections.
GoroutinesGone ==
    \A p \in PartSet : connections[p] = "closed" =>
        /\ background[p] = {}
        /\ p = "gateway" => flusher.pc = "stopped" /\ monitor = "stopped"
        /\ p = "worker" => loops = {}

CloseInv == ServeTypes /\ LoopsEnded /\ NothingClosedYet /\ GoroutinesGone

\* Nothing is open at the start.
LEMMA InitCloseInv == LifecycleInit => CloseInv
<1> SUFFICES ASSUME LifecycleInit PROVE CloseInv
  OBVIOUS
<1>1. loops = {} /\ \A p \in PartSet : connections[p] # "closed"
  BY DEF LifecycleInit
<1> QED
  BY <1>1, LifecycleInitTypes
     DEF CloseInv, LoopsEnded, NothingClosedYet, GoroutinesGone

\* A flusher that has stopped takes no step.
LEMMA StoppedRunsNot == ASSUME TypeOK, Run PROVE flusher.pc # "stopped"
BY DEF Run, RunTick, RunDone, Close, Receive, BatchReady, WriteSucceeds, WriteFails,
       RewriteSucceeds, RewriteFails, MarkSucceeded, MarkHealthy, MarkFailed,
       MarkUnhealthy, FlushReturns, FlushReturnsError, ReportUnhealthy

\* A step that closes nothing, and starts nothing that works on connections,
\* keeps the connections closed last.
LEMMA NothingRestarted ==
    ASSUME CloseInv, UNCHANGED connections, loops' \subseteq loops,
           \A p \in PartSet : background'[p] \subseteq background[p],
           flusher.pc = "stopped" => flusher'.pc = "stopped",
           monitor = "stopped" => monitor' = "stopped"
    PROVE  GoroutinesGone'
BY DEF CloseInv, GoroutinesGone

\* Building opens connections for children not yet run.
LEMMA BuildCloseInv ==
    ASSUME CloseInv, Build
    PROVE  LoopsEnded' /\ NothingClosedYet' /\ GoroutinesGone'
<1> USE DEF CloseInv, ServeTypes, LifecycleTypeOK
<1>1. /\ \A p \in PartSet : connections[p] # "closed"
      /\ loops = {} /\ serve.pc # "returned"
  BY DEF Build, BuildOpens, BuildFails, BuildSucceeds, LoadFails, NothingClosedYet, LoopsEnded
<1>2. \A p \in PartSet : connections'[p] # "closed"
  BY <1>1, PartInSet DEF Build, BuildOpens, BuildFails, BuildSucceeds, LoadFails
<1>3. NothingClosedYet' /\ GoroutinesGone'
  BY <1>2 DEF NothingClosedYet, GoroutinesGone
<1>4. CASE UNCHANGED loops
  BY <1>1, <1>3, <1>4 DEF LoopsEnded
<1>5. CASE BuildSucceeds /\ ~ (serve.part < Len(Parts))
  <2>1. serve'.pc = "run" /\ child' = [p \in PartSet |-> "running"]
    BY <1>5 DEF BuildSucceeds
  <2>2. child'["worker"] = "running"
    BY <2>1, PartsAre
  <2> QED
    BY <1>3, <2>1, <2>2 DEF LoopsEnded
<1> QED
  BY <1>4, <1>5 DEF Build, BuildOpens, BuildFails, BuildSucceeds, LoadFails

\* The children's steps use connections that are open.
LEMMA ChildrenCloseInv ==
    ASSUME CloseInv, Children
    PROVE  LoopsEnded' /\ NothingClosedYet' /\ GoroutinesGone'
<1> USE DEF CloseInv, ServeTypes, LifecycleTypeOK
<1>1. /\ UNCHANGED <<connections, background, monitor, flusher>>
      /\ loops' \subseteq loops /\ serve'.pc = serve.pc
  BY DEF Children, ListenFails, ShutdownDrains, ShutdownTimesOut, LoopFails, LoopStops,
         WorkerStops, WorkerReturns, Returns, vars
<1>2. NothingClosedYet' /\ GoroutinesGone'
  BY <1>1, NothingRestarted DEF NothingClosedYet
<1>3. child'["worker"] = "returned" => child["worker"] = "returned" \/ loops = {}
  BY PartsAre DEF Children, ListenFails, ShutdownDrains, ShutdownTimesOut, LoopFails,
                  LoopStops, WorkerStops, WorkerReturns, Returns
<1> QED
  BY <1>1, <1>2, <1>3 DEF LoopsEnded

\* Cleanup closes what no child or flusher uses any more.
LEMMA CleanupCloseInv ==
    ASSUME CloseInv, Cleanup
    PROVE  LoopsEnded' /\ NothingClosedYet' /\ GoroutinesGone'
<1> USE DEF CloseInv, ServeTypes, LifecycleTypeOK
<1>1. UNCHANGED <<loops, background, monitor, flusher>> /\ loops = {}
  BY DEF Cleanup, CleanupStop, CloseConnections, CancelPipeline, vars, LoopsEnded
<1>2. serve'.pc \in {"cleanup", "wait", "returned"}
  BY DEF Cleanup, CleanupStop, GoTo, CloseConnections, PartDone
<1>3. LoopsEnded' /\ NothingClosedYet'
  BY <1>1, <1>2 DEF LoopsEnded, NothingClosedYet
<1>4. CASE CleanupStop
  BY <1>1, <1>3, <1>4, NothingRestarted DEF CleanupStop
<1>5. CASE CloseConnections
  BY <1>1, <1>3, <1>5, PartInSet DEF CloseConnections, AllDone, GoroutinesGone
<1> QED
  BY <1>4, <1>5 DEF Cleanup

\* Every step keeps connections open as long as they are used.
LEMMA NextCloseInv == CloseInv /\ [LifecycleNext]_allVars => CloseInv'
<1> SUFFICES ASSUME CloseInv, [LifecycleNext]_allVars
             PROVE  LoopsEnded' /\ NothingClosedYet' /\ GoroutinesGone'
  BY LifecycleNextTypes DEF CloseInv
<1> USE DEF CloseInv, ServeTypes, LifecycleTypeOK
<1>1. CASE AllReceived
  <2>1. child["worker"] = "returned" /\ serve'.pc = "cleanup"
    BY <1>1, PartsAre DEF AllReceived
  <2> QED
    BY <1>1, <2>1, NothingRestarted DEF AllReceived, vars, LoopsEnded, NothingClosedYet
<1>2. ASSUME UNCHANGED <<serve, child, loops, connections>>,
             \A p \in PartSet : background'[p] \subseteq background[p],
             flusher.pc = "stopped" => flusher'.pc = "stopped",
             monitor = "stopped" => monitor' = "stopped"
      PROVE  LoopsEnded' /\ NothingClosedYet' /\ GoroutinesGone'
  BY <1>2, NothingRestarted DEF LoopsEnded, NothingClosedYet
<1>3. CASE Signal \/ MonitorStops \/ (\E e \in Events : Arrive(e))
           \/ (\E c \in Queries : QueryArrives(c) \/ QueryEnds(c))
  BY <1>2, <1>3 DEF Signal, MonitorStops, Arrive, QueryArrives, QueryEnds, vars
<1>4. ASSUME NEW p \in PartSet, NEW g \in background[p], GoroutineEnds(p, g)
      PROVE  LoopsEnded' /\ NothingClosedYet' /\ GoroutinesGone'
  BY <1>2, <1>4 DEF GoroutineEnds, vars
<1>5. ASSUME NEW ok \in BOOLEAN, MonitorChecks(ok)
      PROVE  LoopsEnded' /\ NothingClosedYet' /\ GoroutinesGone'
  BY <1>2, <1>5 DEF MonitorChecks, MonitorMarks
<1>6. CASE Handlers
  <2>1. UNCHANGED flusher
    BY <1>6 DEF Handlers, Enqueue, EnqueueStart, EnqueueSend, EnqueueRefused, EnqueueFull,
                Drop, DropReason, DropUnhealthy
  <2> QED
    BY <1>2, <1>6, <2>1 DEF Handlers, lifecycleVars
<1>7. CASE RunPipeline
  BY <1>2, <1>7, StoppedRunsNot DEF RunPipeline
<1>8. CASE (DrainExpires /\ UNCHANGED lifecycleVars) \/ UNCHANGED allVars
  BY <1>2, <1>8 DEF DrainExpires, lifecycleVars, allVars, vars
<1> QED
  BY <1>1, <1>3, <1>4, <1>5, <1>6, <1>7, <1>8, BuildCloseInv, ChildrenCloseInv,
     CleanupCloseInv DEF LifecycleNext, Background

-----------------------------------------------------------------------------
(* The process: the requests of the control API.                           *)

\* Until something fails, only a running server has control requests in flight.
QueriesServed ==
    serve.err \/ child["control"] = "running" \/ InFlight("control") = {}

\* Without an error the cleanup starts after the control server has returned.
CleanupAfterControl ==
    serve.pc \in {"cleanup", "wait", "returned"} =>
        serve.err \/ child["control"] = "returned"

QueryInv == ServeTypes /\ QueriesServed /\ CleanupAfterControl

\* A failed build or load is an error of serve.
LEMMA FailuresSetError ==
    ASSUME ServeTypes, BuildFails \/ LoadFails
    PROVE  serve'.err
<1>1. CASE BuildFails
  <2>1. serve'.err = TRUE
    BY <1>1, Zenon DEF BuildFails
  <2> QED
    BY <2>1
<1>2. CASE LoadFails
  BY <1>2 DEF LoadFails, ServeTypes, LifecycleTypeOK
<1> QED
  BY <1>1, <1>2

\* Control requests arrive while their server runs, and an error is not forgotten.
LEMMA NextQueryInv == QueryInv /\ [LifecycleNext]_allVars => QueryInv'
<1> SUFFICES ASSUME QueryInv, [LifecycleNext]_allVars
             PROVE  QueriesServed' /\ CleanupAfterControl'
  BY LifecycleNextTypes DEF QueryInv
<1> USE DEF QueryInv, ServeTypes, LifecycleTypeOK
<1>1. ASSUME UNCHANGED <<serve, child>>,
             arrived' \intersect Queries \subseteq arrived \intersect Queries
      PROVE  QueriesServed' /\ CleanupAfterControl'
  BY <1>1 DEF QueriesServed, CleanupAfterControl, InFlight
<1>2. CASE Build
  <2>1. CASE BuildFails \/ LoadFails
    BY <2>1, FailuresSetError DEF QueriesServed, CleanupAfterControl
  <2>2. CASE BuildOpens
    <3>1. UNCHANGED <<child, arrived>> /\ serve'.err = serve.err /\ serve'.pc = "opened"
      BY <2>2 DEF BuildOpens
    <3> QED
      BY <3>1 DEF QueriesServed, CleanupAfterControl, InFlight
  <2>3. CASE BuildSucceeds
    <3>1. UNCHANGED arrived /\ serve'.err = serve.err /\ serve'.pc \in {"build", "run"}
      BY <2>3 DEF BuildSucceeds
    <3>2. UNCHANGED child \/ child'["control"] = "running"
      BY <2>3, PartsAre DEF BuildSucceeds
    <3> QED
      BY <3>1, <3>2 DEF QueriesServed, CleanupAfterControl, InFlight
  <2> QED
    BY <1>2, <2>1, <2>2, <2>3 DEF Build
<1>3. CASE Children
  <2>1. /\ UNCHANGED arrived /\ serve'.pc = serve.pc /\ (serve.err => serve'.err)
        /\ child["control"] = "returned" => child'["control"] = "returned"
    BY <1>3, PartsAre DEF Children, ListenFails, ShutdownDrains, ShutdownTimesOut, LoopFails,
                LoopStops, WorkerStops, WorkerReturns, Returns
  <2>2. serve'.err \/ child'["control"] = child["control"] \/ InFlight("control") = {}
    BY <1>3, PartsAre DEF Children, ListenFails, ShutdownDrains, ShutdownTimesOut, LoopFails,
                LoopStops, WorkerStops, WorkerReturns, Returns
  <2> QED
    BY <2>1, <2>2 DEF QueriesServed, CleanupAfterControl, InFlight
<1>4. CASE AllReceived
  <2>1. UNCHANGED <<child, arrived>> /\ serve'.err = serve.err /\ child["control"] = "returned"
    BY <1>4, PartsAre DEF AllReceived
  <2> QED
    BY <2>1 DEF QueriesServed, CleanupAfterControl, InFlight
<1>5. CASE Cleanup
  <2>1. /\ UNCHANGED <<child, arrived>> /\ serve'.err = serve.err
        /\ serve.pc \in {"cleanup", "wait"}
    BY <1>5 DEF Cleanup, CleanupStop, GoTo, CloseConnections, PartDone
  <2> QED
    BY <2>1 DEF QueriesServed, CleanupAfterControl, InFlight
<1>6. CASE Signal \/ MonitorStops \/ RunPipeline \/ UNCHANGED lifecycleVars
           \/ MonitorChecks(TRUE) \/ MonitorChecks(FALSE)
  BY <1>1, <1>6 DEF Signal, MonitorStops, RunPipeline, MonitorChecks, lifecycleVars
<1>7. ASSUME NEW p \in PartSet, NEW g \in background[p], GoroutineEnds(p, g)
      PROVE  QueriesServed' /\ CleanupAfterControl'
  BY <1>1, <1>7 DEF GoroutineEnds
<1>8. ASSUME NEW e \in Events, Arrive(e)
      PROVE  QueriesServed' /\ CleanupAfterControl'
  <2>1. e \notin Queries
    BY LifecycleAssumption
  <2> QED
    BY <1>1, <1>8, <2>1 DEF Arrive
<1>9. ASSUME NEW c \in Queries, QueryArrives(c)
      PROVE  QueriesServed' /\ CleanupAfterControl'
  BY <1>9 DEF QueryArrives, QueriesServed, CleanupAfterControl
<1>10. ASSUME NEW c \in Queries, QueryEnds(c)
       PROVE  QueriesServed' /\ CleanupAfterControl'
  BY <1>1, <1>10 DEF QueryEnds
<1> QED
  BY <1>2, <1>3, <1>4, <1>5, <1>6, <1>7, <1>8, <1>9, <1>10
     DEF LifecycleNext, Background, Handlers, allVars

\* The connections of a part are closed only after its goroutines, its loops, the
\* pipeline and the monitor have ended, on every path out of the process, and,
\* unless something failed, after the requests of the control API (app.go,
\* bootstrap).
THEOREM ConnectionsClosedLast == LifecycleSpec => []UsersGoneBeforeClose
<1>1. ASSUME CloseInv, QueryInv PROVE UsersGoneBeforeClose
  <2>1. ASSUME connections["control"] = "closed"
        PROVE  serve.err \/ InFlight("control") = {}
    <3>1. serve.pc \in {"cleanup", "wait", "returned"}
      BY <1>1, <2>1, PartsAre
         DEF CloseInv, NothingClosedYet, ServeTypes, LifecycleTypeOK, ServeSteps
    <3> QED
      BY <1>1, <3>1 DEF QueryInv, QueriesServed, CleanupAfterControl
  <2> QED
    BY <1>1, <2>1 DEF CloseInv, GoroutinesGone, UsersGoneBeforeClose
<1>2. LifecycleInit => QueryInv
  <2> SUFFICES ASSUME LifecycleInit PROVE QueryInv
    OBVIOUS
  <2>1. arrived = {} /\ serve.pc = "build"
    BY DEF LifecycleInit
  <2> QED
    BY <2>1, LifecycleInitTypes DEF QueryInv, QueriesServed, CleanupAfterControl, InFlight
<1> QED
  BY <1>1, <1>2, InitCloseInv, NextCloseInv, NextQueryInv, PTL DEF LifecycleSpec

-----------------------------------------------------------------------------
(* The process: a clean stop drains the queue.                             *)

\* Only requests that arrived have a handler.
HandledArrived == \A e \in Requests : handler[e] # "start" => e \in arrived

\* A server that returned without an error has no request in flight.
ServerDrained == ~ serve.err /\ child["gateway"] = "returned" => InFlight("gateway") = {}

\* Without an error the cleanup starts after the server has returned.
CleanupAfterServer ==
    ~ serve.err /\ serve.pc \in {"cleanup", "wait", "returned"} =>
        child["gateway"] = "returned"

\* The pipeline is canceled by the cleanup of the gateway, and closes after.
CanceledByCleanup ==
    /\ context # "live" =>
          (serve.pc = "wait" /\ serve.part = 1) \/ serve.pc = "returned"
    /\ closed \/ flusher.pc = "closing" => context # "live"
    /\ flusher.pc = "stopped" => closed

\* Between two Flush calls, and after the last, the batch is empty.
BatchEmpty ==
    flusher.pc \in {"wait", "closing", "return", "reported2", "stopped"} =>
        flusher.batch = <<>>

\* After the final Flush no event of a request is queued.
QueueDrained ==
    ~ serve.err /\ closed /\ flusher.pc \in {"return", "reported2", "stopped"} =>
        \A e \in Requests : e \notin Range(queue)

\* serve returns after the flusher.
FlusherStopped == ~ serve.err /\ serve.pc = "returned" => flusher.pc = "stopped"

DrainInv ==
    /\ ServeTypes /\ HandledArrived /\ ServerDrained /\ CleanupAfterServer
    /\ CanceledByCleanup /\ BatchEmpty /\ QueueDrained /\ FlusherStopped

\* With no event and nothing canceled the drain has nothing to say.
LEMMA InitDrainInv == LifecycleInit => DrainInv
<1> SUFFICES ASSUME LifecycleInit PROVE DrainInv
  OBVIOUS
<1>1. /\ \A e \in Events : handler[e] = "start"
      /\ child["gateway"] = "none" /\ serve.pc = "build"
      /\ context = "live" /\ ~ closed /\ flusher.pc = "wait" /\ flusher.batch = <<>>
  BY PartsAre DEF LifecycleInit, Init
<1> QED
  BY <1>1, LifecycleInitTypes
     DEF DrainInv, HandledArrived, ServerDrained, CleanupAfterServer, CanceledByCleanup,
         BatchEmpty, QueueDrained, FlusherStopped, Requests

\* The steps that leave the pipeline alone: building, the children, a signal.
LEMMA OutsideDrainInv ==
    ASSUME DrainInv, Build \/ Children \/ AllReceived \/ Signal
    PROVE  /\ HandledArrived' /\ ServerDrained' /\ CleanupAfterServer' /\ CanceledByCleanup'
           /\ BatchEmpty' /\ QueueDrained' /\ FlusherStopped'
<1> USE DEF DrainInv, ServeTypes, LifecycleTypeOK
<1>1. UNCHANGED vars /\ UNCHANGED arrived
  BY PipelineUntouched
     DEF Build, BuildOpens, BuildFails, BuildSucceeds, LoadFails, Children, ListenFails,
         ShutdownDrains, ShutdownTimesOut, LoopFails, LoopStops, WorkerStops,
         WorkerReturns, Returns, AllReceived, Signal
<1>2. UNCHANGED <<queue, closed, handler, flusher, context>>
  BY <1>1 DEF vars
<1>3. HandledArrived' /\ BatchEmpty'
  BY <1>1, <1>2 DEF HandledArrived, BatchEmpty
<1>4. InFlight("gateway")' = InFlight("gateway")
  BY <1>1, <1>2 DEF InFlight
<1>5. serve.err => serve'.err
  <2>1. CASE BuildFails \/ LoadFails
    BY <2>1, FailuresSetError
  <2>2. CASE BuildOpens
    BY <2>2 DEF BuildOpens
  <2>3. CASE BuildSucceeds
    BY <2>3 DEF BuildSucceeds
  <2>4. CASE Children \/ AllReceived \/ Signal
    BY <2>4 DEF Children, ListenFails, ShutdownDrains, ShutdownTimesOut, LoopFails,
                LoopStops, WorkerStops, WorkerReturns, Returns, AllReceived, Signal
  <2> QED
    BY <2>1, <2>2, <2>3, <2>4 DEF Build
<1>6. QueueDrained'
  BY <1>2, <1>5 DEF QueueDrained
<1>7. context = "live" \/ serve.pc \in {"wait", "returned"}
  BY DEF CanceledByCleanup
<1>8. CASE Build
  <2>2. context = "live"
    BY <1>7, <1>8 DEF Build, BuildOpens, BuildFails, BuildSucceeds, LoadFails
  <2>3. serve'.pc \in {"cleanup", "wait", "returned"} => serve'.err
    <3>1. CASE BuildFails \/ LoadFails
      BY <3>1, FailuresSetError
    <3>2. CASE BuildOpens \/ BuildSucceeds
      BY <3>2 DEF BuildOpens, BuildSucceeds
    <3> QED
      BY <1>8, <3>1, <3>2 DEF Build
  <2>4. child'["gateway"] = "returned" => child["gateway"] = "returned"
    BY <1>8, PartsAre DEF Build, BuildOpens, BuildFails, BuildSucceeds, LoadFails
  <2> QED
    BY <1>2, <1>3, <1>4, <1>5, <1>6, <2>2, <2>3, <2>4
       DEF ServerDrained, CleanupAfterServer, CanceledByCleanup, FlusherStopped
<1>9. CASE Children
  <2>1. serve'.pc = serve.pc /\ serve'.part = serve.part
    BY <1>9 DEF Children, ListenFails, ShutdownDrains, ShutdownTimesOut, LoopFails,
                LoopStops, WorkerStops, WorkerReturns, Returns
  <2>2. child["gateway"] = "returned" => child'["gateway"] = "returned"
    BY <1>9, PartsAre DEF Children, ListenFails, ShutdownDrains, ShutdownTimesOut, LoopFails,
                LoopStops, WorkerStops, WorkerReturns, Returns
  <2>3. ~ serve'.err /\ child'["gateway"] = "returned" =>
           child["gateway"] = "returned" \/ InFlight("gateway") = {}
    BY <1>9, PartsAre DEF Children, ListenFails, ShutdownDrains, ShutdownTimesOut, LoopFails,
                LoopStops, WorkerStops, WorkerReturns, Returns
  <2> QED
    BY <1>2, <1>3, <1>4, <1>5, <1>6, <2>1, <2>2, <2>3
       DEF ServerDrained, CleanupAfterServer, CanceledByCleanup, FlusherStopped
<1>10. CASE AllReceived
  <2>1. /\ serve.pc = "run" /\ serve'.pc = "cleanup" /\ UNCHANGED child
        /\ child["gateway"] = "returned"
    BY <1>10, PartsAre DEF AllReceived
  <2> QED
    BY <1>2, <1>3, <1>4, <1>5, <1>6, <1>7, <2>1
       DEF ServerDrained, CleanupAfterServer, CanceledByCleanup, FlusherStopped
<1>11. CASE Signal
  BY <1>2, <1>3, <1>4, <1>6, <1>11
     DEF Signal, ServerDrained, CleanupAfterServer, CanceledByCleanup, FlusherStopped
<1> QED
  BY <1>8, <1>9, <1>10, <1>11

\* The gateway is the first part, so it is cleaned up last.
LEMMA GatewayFirst ==
    ASSUME PartKnown, serve.pc # "returned"
    PROVE  (Part = "gateway") <=> (serve.part = 1)
BY PartsAre DEF PartKnown, Part

\* Cleanup cancels, waits for the flusher and closes, in this order.
LEMMA CleanupDrainInv ==
    ASSUME DrainInv, Cleanup
    PROVE  /\ HandledArrived' /\ ServerDrained' /\ CleanupAfterServer' /\ CanceledByCleanup'
           /\ BatchEmpty' /\ QueueDrained' /\ FlusherStopped'
<1> USE DEF DrainInv, ServeTypes, LifecycleTypeOK
<1>1. UNCHANGED <<queue, closed, handler, flusher, arrived, child>> /\ serve'.err = serve.err
  BY DEF Cleanup, CleanupStop, GoTo, CloseConnections, PartDone, CancelPipeline, vars
<1>2. InFlight("gateway")' = InFlight("gateway")
  BY <1>1 DEF InFlight
<1>3. /\ serve.pc \in {"cleanup", "wait"} /\ serve'.pc \in {"cleanup", "wait", "returned"}
  BY DEF Cleanup, CleanupStop, GoTo, CloseConnections, PartDone
<1>4. /\ HandledArrived' /\ ServerDrained' /\ CleanupAfterServer' /\ BatchEmpty'
      /\ QueueDrained'
  BY <1>1, <1>2, <1>3
     DEF HandledArrived, ServerDrained, CleanupAfterServer, BatchEmpty, QueueDrained
<1>5. CASE CleanupStop
  <2>1. serve'.pc = "wait" /\ serve'.part = serve.part /\ serve.pc = "cleanup"
    BY <1>5 DEF CleanupStop, GoTo
  <2>2. context' # "live" => serve.part = 1
    BY <1>5, <2>1, GatewayFirst DEF CleanupStop, CanceledByCleanup, vars
  <2>3. context # "live" => context' # "live"
    BY <1>5 DEF CleanupStop, CancelPipeline, vars
  <2> QED
    BY <1>1, <1>4, <2>1, <2>2, <2>3 DEF CanceledByCleanup, FlusherStopped
<1>6. CASE CloseConnections
  <2>1. IF serve.part = 1 THEN serve'.pc = "returned" ELSE serve'.pc = "cleanup"
    BY <1>6 DEF CloseConnections, PartDone
  <2>2. UNCHANGED context /\ serve.pc = "wait"
    BY <1>6 DEF CloseConnections, vars
  <2>3. serve.part = 1 => flusher.pc = "stopped"
    BY <1>6, <2>2, GatewayFirst DEF CloseConnections, AllDone
  <2> QED
    BY <1>1, <1>4, <2>1, <2>2, <2>3 DEF CanceledByCleanup, FlusherStopped
<1> QED
  BY <1>5, <1>6 DEF Cleanup

\* After the server has returned without an error no request is on its way to
\* the queue, and its handler takes no further step.
LEMMA HandlersDrainInv ==
    ASSUME DrainInv, Handlers
    PROVE  /\ HandledArrived' /\ ServerDrained' /\ CleanupAfterServer' /\ CanceledByCleanup'
           /\ BatchEmpty' /\ QueueDrained' /\ FlusherStopped'
<1> USE DEF DrainInv, ServeTypes, LifecycleTypeOK
<1>1. UNCHANGED <<serve, child, arrived, closed, flusher, context>>
  BY DEF Handlers, lifecycleVars, Enqueue, EnqueueStart, EnqueueSend, EnqueueRefused,
         EnqueueFull, Drop, DropReason, DropUnhealthy
<1>2. CleanupAfterServer' /\ CanceledByCleanup' /\ BatchEmpty' /\ FlusherStopped'
  BY <1>1 DEF CleanupAfterServer, CanceledByCleanup, BatchEmpty, FlusherStopped
<1>3. PICK e \in Events : MayEnqueue(e) /\ Enqueue(e)
  BY DEF Handlers
<1>4. handler[e] \notin {"sent", "refused", "dropped"}
      /\ \A d \in Events \ {e} : handler'[d] = handler[d]
  BY <1>3 DEF TypeOK, Enqueue, EnqueueStart, EnqueueSend, EnqueueRefused, EnqueueFull, Drop,
              DropReason, DropUnhealthy
<1>5. e \in Requests => e \in InFlight("gateway")
  <2>1. e \notin Queries
    BY LifecycleAssumption
  <2> QED
    BY <1>3, <1>4, <2>1 DEF MayEnqueue, InFlight, Requests
<1>6. HandledArrived'
  BY <1>1, <1>4, <1>5 DEF HandledArrived, InFlight, Requests
<1>7. ServerDrained'
  <2> SUFFICES ASSUME ~ serve'.err /\ child'["gateway"] = "returned"
               PROVE  InFlight("gateway")' = {}
    BY DEF ServerDrained
  <2>1. InFlight("gateway") = {}
    BY <1>1 DEF ServerDrained
  <2>2. e \notin Requests
    BY <1>5, <2>1
  <2>3. \A d \in arrived \ Queries : d # e
    BY <2>2 DEF LifecycleTypeOK
  <2>4. \A d \in arrived \ Queries : handler'[d] = handler[d]
    BY <1>4, <2>3 DEF LifecycleTypeOK, Requests
  <2> QED
    BY <1>1, <2>1, <2>4 DEF InFlight
<1>8. QueueDrained'
  <2> SUFFICES ASSUME ~ serve.err, closed, flusher.pc \in {"return", "reported2", "stopped"},
                      NEW d \in Requests
               PROVE  d \notin Range(queue')
    BY <1>1 DEF QueueDrained
  <2>1. e \notin Requests
    BY <1>5 DEF CanceledByCleanup, CleanupAfterServer, ServerDrained
  <2>2. d \notin Range(queue)
    BY DEF QueueDrained
  <2>3. Range(queue') \subseteq Range(queue) \union {e}
    <3>1. CASE EnqueueSend(e)
      BY <3>1, RangeOfAppend DEF EnqueueSend, TypeOK
    <3>2. CASE UNCHANGED queue
      BY <3>2
    <3> QED
      BY <1>3, <3>1, <3>2 DEF Enqueue, EnqueueStart, EnqueueRefused, EnqueueFull, Drop,
                              DropReason, DropUnhealthy
  <2> QED
    BY <2>1, <2>2, <2>3
<1> QED
  BY <1>2, <1>6, <1>7, <1>8

\* Flush returns when it has found the queue empty.
LEMMA FlusherDrainInv ==
    ASSUME DrainInv, RunPipeline
    PROVE  /\ HandledArrived' /\ ServerDrained' /\ CleanupAfterServer' /\ CanceledByCleanup'
           /\ BatchEmpty' /\ QueueDrained' /\ FlusherStopped'
<1> USE DEF DrainInv, ServeTypes, LifecycleTypeOK
<1>1. UNCHANGED <<serve, child, arrived>> /\ Run /\ TypeOK
  BY DEF RunPipeline
<1>2. UNCHANGED handler
  BY <1>1 DEF Run, RunTick, RunDone, Close, Receive, BatchReady, WriteSucceeds, WriteFails,
         RewriteSucceeds, RewriteFails, MarkSucceeded, MarkHealthy, MarkFailed,
         MarkUnhealthy, FlushReturns, FlushReturnsError, ReportUnhealthy
<1>3. HandledArrived' /\ ServerDrained' /\ CleanupAfterServer'
  BY <1>1, <1>2 DEF HandledArrived, ServerDrained, InFlight, CleanupAfterServer
<1>4. FlusherStopped'
  BY <1>1, StoppedRunsNot DEF FlusherStopped
<1>5. CASE RunTick \/ Receive \/ WriteSucceeds \/ WriteFails \/ RewriteSucceeds
           \/ RewriteFails \/ MarkSucceeded \/ MarkHealthy \/ MarkFailed \/ MarkUnhealthy
  <2>1. UNCHANGED <<closed, context>>
        /\ flusher'.pc \notin {"wait", "closing", "return", "reported2", "stopped"}
    BY <1>5 DEF TypeOK, RunTick, Receive, WriteSucceeds, WriteFails, RewriteSucceeds,
                RewriteFails, MarkSucceeded, MarkHealthy, MarkFailed, MarkUnhealthy
  <2> QED
    BY <1>1, <1>3, <1>4, <2>1 DEF CanceledByCleanup, BatchEmpty, QueueDrained
<1>6. CASE RunDone
  <2>1. /\ UNCHANGED <<closed, context>> /\ context = "canceled"
        /\ flusher'.pc = "closing" /\ flusher'.batch = flusher.batch /\ flusher.pc = "wait"
    BY <1>6 DEF RunDone, TypeOK
  <2> QED
    BY <1>1, <1>3, <1>4, <2>1 DEF CanceledByCleanup, BatchEmpty, QueueDrained
<1>7. CASE Close
  <2>1. /\ context # "live" /\ context' = "drain" /\ flusher'.pc = "collect"
    BY <1>7 DEF Close, TypeOK, CanceledByCleanup
  <2> QED
    BY <1>1, <1>3, <1>4, <2>1 DEF CanceledByCleanup, BatchEmpty, QueueDrained
<1>8. CASE BatchReady
  <2>1. UNCHANGED <<queue, closed, context>> /\ flusher'.pc \in {"return", "write"}
    BY <1>8 DEF BatchReady, TypeOK
  <2>2. flusher'.pc = "return" => flusher'.batch = <<>> /\ flusher.batch = <<>>
    BY <1>8 DEF BatchReady, TypeOK
  <2>3. flusher.batch = <<>> => queue = <<>>
    BY <1>8, Sizes DEF BatchReady
  <2>4. queue = <<>> => Range(queue) = {}
    BY RangeOfSeq DEF TypeOK
  <2> QED
    BY <1>1, <1>3, <1>4, <2>1, <2>2, <2>3, <2>4
       DEF CanceledByCleanup, BatchEmpty, QueueDrained
<1>9. CASE FlushReturns \/ FlushReturnsError \/ ReportUnhealthy
  <2>1. /\ UNCHANGED <<queue, closed, context>> /\ flusher'.batch = flusher.batch
        /\ flusher.pc \in {"return", "reported2"}
    BY <1>9 DEF FlushReturns, FlushReturnsError, ReportUnhealthy, TypeOK
  <2>2. flusher'.pc \in {"reported2", "wait", "stopped"}
        /\ (flusher'.pc = "stopped" => closed)
    BY <1>9 DEF FlushReturns, FlushReturnsError, ReportUnhealthy, AfterFlush, TypeOK
  <2> QED
    BY <1>1, <1>3, <1>4, <2>1, <2>2 DEF CanceledByCleanup, BatchEmpty, QueueDrained
<1> QED
  BY <1>1, <1>5, <1>6, <1>7, <1>8, <1>9 DEF Run

\* Every step keeps the order of the drain.
LEMMA NextDrainInv == DrainInv /\ [LifecycleNext]_allVars => DrainInv'
<1> SUFFICES ASSUME DrainInv, [LifecycleNext]_allVars
             PROVE  /\ HandledArrived' /\ ServerDrained' /\ CleanupAfterServer'
                    /\ CanceledByCleanup' /\ BatchEmpty' /\ QueueDrained' /\ FlusherStopped'
  BY LifecycleNextTypes DEF DrainInv
<1> USE DEF DrainInv
<1>1. ASSUME UNCHANGED <<serve, child, arrived, queue, closed, handler, flusher>>,
             context' # "live" => context # "live", context # "live" => context' # "live"
      PROVE  /\ HandledArrived' /\ ServerDrained' /\ CleanupAfterServer'
             /\ CanceledByCleanup' /\ BatchEmpty' /\ QueueDrained' /\ FlusherStopped'
  BY <1>1 DEF HandledArrived, ServerDrained, InFlight, CleanupAfterServer, CanceledByCleanup,
              BatchEmpty, QueueDrained, FlusherStopped
<1>2. CASE MonitorStops \/ UNCHANGED allVars
  BY <1>1, <1>2 DEF MonitorStops, vars, allVars, lifecycleVars
<1>3. ASSUME NEW p \in PartSet, NEW g \in background[p], GoroutineEnds(p, g)
      PROVE  UNCHANGED <<serve, child, arrived, queue, closed, handler, flusher, context>>
  BY <1>3 DEF GoroutineEnds, vars
<1>4. ASSUME NEW ok \in BOOLEAN, MonitorChecks(ok)
      PROVE  UNCHANGED <<serve, child, arrived, queue, closed, handler, flusher, context>>
  BY <1>4 DEF MonitorChecks, MonitorMarks
<1>5. CASE DrainExpires /\ UNCHANGED lifecycleVars
  BY <1>1, <1>5 DEF DrainExpires, lifecycleVars
<1>6. ASSUME NEW e \in Events, Arrive(e)
      PROVE  /\ HandledArrived' /\ ServerDrained' /\ CleanupAfterServer'
             /\ CanceledByCleanup' /\ BatchEmpty' /\ QueueDrained' /\ FlusherStopped'
  <2>1. /\ UNCHANGED <<serve, child, queue, closed, handler, flusher, context>>
        /\ child["gateway"] = "running" /\ arrived \subseteq arrived'
    BY <1>6 DEF Arrive, vars
  <2> QED
    BY <2>1 DEF HandledArrived, ServerDrained, CleanupAfterServer, CanceledByCleanup,
                BatchEmpty, QueueDrained, FlusherStopped
<1>7. ASSUME NEW c \in Queries, QueryArrives(c) \/ QueryEnds(c)
      PROVE  /\ HandledArrived' /\ ServerDrained' /\ CleanupAfterServer'
             /\ CanceledByCleanup' /\ BatchEmpty' /\ QueueDrained' /\ FlusherStopped'
  <2>1. /\ UNCHANGED <<serve, child, queue, closed, handler, flusher, context>>
        /\ arrived' \ Queries = arrived \ Queries
    BY <1>7 DEF QueryArrives, QueryEnds, vars
  <2>2. \A e \in Requests : e \in arrived <=> e \in arrived'
    BY <2>1, LifecycleAssumption DEF Requests
  <2>3. InFlight("gateway")' = InFlight("gateway")
    BY <2>1 DEF InFlight
  <2> QED
    BY <2>1, <2>2, <2>3 DEF HandledArrived, ServerDrained, CleanupAfterServer,
                            CanceledByCleanup, BatchEmpty, QueueDrained, FlusherStopped
<1> QED
  BY <1>1, <1>2, <1>3, <1>4, <1>5, <1>6, <1>7, OutsideDrainInv, CleanupDrainInv,
     HandlersDrainInv, FlusherDrainInv DEF LifecycleNext, Background

\* When serve returns without an error, every event a request put into the queue
\* is in the sink or was reported lost: nothing is left in the channel or in the
\* batch (app.go, pipeline.go).
THEOREM CleanStopLeavesNothing == LifecycleSpec => []CleanStopDrains
<1>1. ASSUME DrainInv, Accounted PROVE CleanStopDrains
  <2> SUFFICES ASSUME serve.pc = "returned", ~ serve.err, NEW e \in Requests,
                      handler[e] = "sent"
               PROVE  e \in sunk \union lost
    BY DEF CleanStopDrains
  <2>1. flusher.pc = "stopped" /\ closed
    BY <1>1 DEF DrainInv, FlusherStopped, CanceledByCleanup
  <2>2. Range(flusher.batch) = {}
    BY <1>1, <2>1, RangeOfSeq
       DEF DrainInv, BatchEmpty, ServeTypes, LifecycleTypeOK, TypeOK
  <2>3. e \notin Range(queue)
    BY <1>1, <2>1 DEF DrainInv, QueueDrained
  <2> QED
    BY <1>1, <2>2, <2>3 DEF Accounted, Held, Requests
<1> QED
  BY <1>1, InitDrainInv, NextDrainInv, EventsAccounted, PTL DEF LifecycleSpec

-----------------------------------------------------------------------------
(* The process: a failed Flush shows.                                      *)

FailureInv == ServeTypes /\ FailureShows

\* The gate is opened only by the monitor, which is then remembered, and inside a
\* Flush.
LEMMA NextFailureInv == FailureInv /\ [LifecycleNext]_allVars => FailureInv'
<1> SUFFICES ASSUME FailureInv, [LifecycleNext]_allVars PROVE FailureShows'
  BY LifecycleNextTypes DEF FailureInv
<1> USE DEF FailureInv, ServeTypes, LifecycleTypeOK, TypeOK
<1>1. ASSUME UNCHANGED <<flusher, gate, probed>> PROVE FailureShows'
  BY <1>1 DEF FailureShows, FlushFailed
<1>2. CASE \/ Build \/ Signal \/ Children \/ AllReceived \/ Cleanup \/ MonitorStops
           \/ (DrainExpires /\ UNCHANGED lifecycleVars) \/ UNCHANGED allVars
  BY <1>1, <1>2
     DEF Build, BuildOpens, BuildFails, BuildSucceeds, LoadFails, Signal, Children,
         ListenFails, ShutdownDrains, ShutdownTimesOut, LoopFails, LoopStops, WorkerStops,
         WorkerReturns, Returns, AllReceived, Cleanup, CleanupStop, CloseConnections,
         CancelPipeline, MonitorStops, DrainExpires, allVars, lifecycleVars, vars
<1>3. ASSUME NEW p \in PartSet, NEW g \in background[p], GoroutineEnds(p, g)
      PROVE  FailureShows'
  BY <1>1, <1>3 DEF GoroutineEnds, vars
<1>4. CASE (\E e \in Events : Arrive(e)) \/ \E c \in Queries : QueryArrives(c) \/ QueryEnds(c)
  BY <1>1, <1>4 DEF Arrive, QueryArrives, QueryEnds, vars
<1>5. ASSUME NEW ok \in BOOLEAN, MonitorChecks(ok) PROVE FailureShows'
  <2>1. UNCHANGED flusher /\ gate'.healthy = ok /\ (FlushFailed /\ ok => probed')
    BY <1>5, Zenon DEF MonitorChecks, MonitorMarks
  <2> QED
    BY <2>1 DEF FailureShows, FlushFailed
<1>6. CASE Handlers
  <2>1. UNCHANGED <<flusher, probed>> /\ (gate'.healthy => gate.healthy)
    BY <1>6 DEF Handlers, lifecycleVars, Enqueue, EnqueueStart, EnqueueSend, EnqueueRefused,
                EnqueueFull, Drop, DropReason, DropUnhealthy
  <2> QED
    BY <2>1 DEF FailureShows, FlushFailed
<1>7. CASE RunPipeline
  <2> SUFFICES ASSUME FlushFailed' PROVE ~ gate'.healthy
    BY DEF FailureShows
  <2>0. flusher'.pc \in {"wait", "stopped"} /\ Run
    BY <1>7 DEF FlushFailed, RunPipeline
  <2>1. FlushReturns \/ ReportUnhealthy
    <3>1. ~ (RunTick \/ RunDone \/ Close \/ Receive \/ BatchReady \/ FlushReturnsError)
      BY <2>0 DEF RunTick, RunDone, Close, Receive, BatchReady, FlushReturnsError
    <3>2. ~ (WriteSucceeds \/ WriteFails \/ RewriteSucceeds \/ RewriteFails)
      BY <2>0 DEF WriteSucceeds, WriteFails, RewriteSucceeds, RewriteFails
    <3>3. ~ (MarkSucceeded \/ MarkHealthy \/ MarkFailed \/ MarkUnhealthy)
      BY <2>0 DEF MarkSucceeded, MarkHealthy, MarkFailed, MarkUnhealthy
    <3> QED
      BY <2>0, <3>1, <3>2, <3>3 DEF Run
  <2>2. ~ FlushReturns
    BY DEF FlushFailed, FlushReturns
  <2> QED
    BY <2>1, <2>2 DEF ReportUnhealthy
<1> QED
  BY <1>2, <1>3, <1>4, <1>5, <1>6, <1>7 DEF LifecycleNext, Background

\* After a Flush that returned an error the gate is unhealthy until a later Flush
\* or a probe of ClickHouse opens it, whichever way the separate stores of the
\* handlers, the flusher and the monitor interleave (pipeline.go, health.go).
THEOREM FailedFlushShows == LifecycleSpec => []FailureShows
<1>1. LifecycleInit => FailureInv
  <2>1. LifecycleInit => ~ flusher.firstErr
    <3>1. LifecycleInit => flusher = [pc |-> "wait", batch |-> <<>>, firstErr |-> FALSE]
      BY DEF LifecycleInit, Init
    <3>2. LifecycleInit => flusher.firstErr = FALSE
      BY <3>1
    <3> QED
      BY <3>2
  <2> QED
    BY <2>1, LifecycleInitTypes DEF FailureInv, FailureShows, FlushFailed
<1>2. FailureInv => FailureShows
  BY DEF FailureInv
<1> QED
  BY <1>1, <1>2, NextFailureInv, PTL DEF LifecycleSpec

=============================================================================
