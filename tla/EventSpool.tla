----------------------------- MODULE EventSpool -----------------------------
(***************************************************************************)
(* The durable event spool (traffic/adapters/events: spool*.go and the     *)
(* replay worker of durable_sink.go).                                      *)
(*                                                                         *)
(* A spool directory holds one file per record.  A committed record is     *)
(* <id>.json; NextBatch claims a record by renaming its file to            *)
(* <id>.inflight.<pid>.<seq>; Ack removes the claimed file, RecordFailure  *)
(* commits it again.  Several FileSpool instances (gateway, control and    *)
(* status processes) share the directory.                                  *)
(*                                                                         *)
(* Every operation runs under the mutex and the directory flock, so no     *)
(* other operation sees it half done; what can cut it short is a canceled  *)
(* context, an I/O error or the death of the process.  Each operation is   *)
(* therefore one action that may stop at any point of its loops: the loops *)
(* run in file-name order, so what was done is a prefix.                   *)
(*                                                                         *)
(* The code compares now - t only with ClaimTimeout and MaxAge, so times   *)
(* are kept as ages that stop growing at AgeCap.  Every record has the     *)
(* same size, 1; MaxBytes is in that unit.                                 *)
(***************************************************************************)
EXTENDS Integers, FiniteSets

CONSTANTS
    Spools,         \* FileSpool instances that share the directory
    Pid,            \* os.Getpid() of each: containers may share a pid
    MaxRecords,     \* bound: records ever written
    MaxBytes,       \* FileSpoolOptions.MaxBytes
    MaxAge,         \* FileSpoolOptions.MaxAge, 0 when records never expire
    ClaimTimeout,   \* FileSpoolOptions.ClaimTimeout
    BatchSize,      \* ReplayWorkerOptions.BatchSize, and the sink's batch bound
    SeqMod,         \* the sequence counter is taken modulo SeqMod (2^64)
    AgeCap,         \* ages stop growing here
    MaxOverflow     \* bound: appends rejected because the spool is full

ASSUME SpoolAssumption ==
    /\ Pid \in [Spools -> Nat]
    /\ MaxRecords \in Nat \ {0} /\ MaxBytes \in Nat \ {0}
    /\ MaxAge \in Nat /\ ClaimTimeout \in Nat \ {0}
    /\ BatchSize \in Nat \ {0} /\ SeqMod \in Nat \ {0} /\ MaxOverflow \in Nat
    /\ AgeCap \in Nat /\ AgeCap >= MaxAge /\ AgeCap >= ClaimTimeout

VARIABLES
    disk,           \* the directory: committed files and claimed files
    stored,         \* records written so far are 1..stored, in name order
    created,        \* age of each record's CreatedAt
    worker,         \* each replay worker: where it is, and its batch
    seq,            \* FileSpool.sequence of each instance
    overflow,       \* the overflow-count file
    overflowCount,  \* FileSpool.overflowCount of each instance
    rejected,       \* history: appends rejected with ErrSpoolFull
    delivered,      \* records the primary sink has accepted at least once
    spoiled         \* history: records RecordFailure may have left to two workers

vars == <<disk, stored, created, worker, seq, overflow, overflowCount,
          rejected, delivered, spoiled>>

Ids   == 1..MaxRecords
Ages  == 0..AgeCap
Seqs  == 0..(SeqMod - 1)
Older(a) == IF a < AgeCap THEN a + 1 ELSE a

\* A committed file and a claimed file: the path, and the age of the ModTime.
File  == [id : Ids, age : Ages]
Claim == [id : Ids, pid : {Pid[p] : p \in Spools}, seq : Seqs, age : Ages]

SamePath(c, d) == c.id = d.id /\ c.pid = d.pid /\ c.seq = d.seq
IdsOf(S)       == {c.id : c \in S}
\* The records with a file in directory d, committed or claimed.
Held(d)        == IdsOf(d.files) \union IdsOf(d.claims)

Disk == [files : SUBSET File, claims : SUBSET Claim]

\* age is the time since the batch was claimed (a history value).
WorkerState == [pc : {"idle", "writing", "ack", "fail"}, batch : SUBSET Claim,
                age : Ages]

IdleWorker == [pc |-> "idle", batch |-> {}, age |-> 0]

TypeOK ==
    /\ disk \in Disk
    /\ stored \in 0..MaxRecords
    /\ created \in [Ids -> Ages]
    /\ worker \in [Spools -> WorkerState]
    /\ seq \in [Spools -> Seqs]
    /\ overflow \in Nat /\ rejected \in Nat
    /\ overflowCount \in [Spools -> Nat]
    /\ delivered \in SUBSET Ids /\ spoiled \in SUBSET Ids

Init ==
    /\ disk = [files |-> {}, claims |-> {}]
    /\ stored = 0
    /\ created = [i \in Ids |-> 0]
    /\ worker = [p \in Spools |-> IdleWorker]
    /\ seq = [p \in Spools |-> 0]
    /\ overflow = 0 /\ rejected = 0
    /\ overflowCount = [p \in Spools |-> 0]
    /\ delivered = {} /\ spoiled = {}

-----------------------------------------------------------------------------
(* Maintenance: every operation but Ack and RecordFailure starts with it.  *)

\* recoverStaleClaimsLocked: the test is on the file's ModTime, which the
\* claiming rename leaves as it was when the record was written.
\* (Two mutants: the timeout off by one; recovery that never restores.)
StaleEarly(d)  == {c \in d.claims : c.age + 1 >= ClaimTimeout}
StaleNever(d)  == {}
StaleClaims(d) == {c \in d.claims : c.age >= ClaimTimeout}

\* The records purgeExpiredLocked may remove.
Expired == {i \in 1..stored : MaxAge > 0 /\ created[i] >= MaxAge}

\* Of several claimed files of one record, the first in name order.
First(S) == CHOOSE c \in S :
                \A d \in S : \/ c.pid < d.pid
                             \/ c.pid = d.pid /\ c.seq <= d.seq

RestoredFile(S, i) == [id |-> i, age |-> First({c \in S : c.id = i}).age]

\* restoreStaleClaim for each claim of S: the file goes back to its committed
\* name, or is removed when a committed file is there already.
Recover(d, S) ==
    [files  |-> d.files \union
                {RestoredFile(S, i) : i \in IdsOf(S) \ IdsOf(d.files)},
     claims |-> d.claims \ S]

\* purgeExpiredLocked for the records of S.
Purge(d, S) ==
    [files |-> {f \in d.files : f.id \notin S}, claims |-> d.claims]

\* The sets a loop over S in name order may have handled when it is cut short.
ClaimPrefixes(S) ==
    {T \in SUBSET S : \A c \in T, d \in S : d.id < c.id => d \in T}
IdPrefixes(S) == {T \in SUBSET S : \A i \in T, j \in S : j < i => j \in T}

Recovered(d)  == Recover(d, StaleClaims(d))
Maintained(d) == Purge(Recovered(d), Expired)

\* What a directory can look like when maintenance returns an error: it
\* stopped in the recovery loop or in the purge loop.
Interrupted(d) ==
    {Recover(d, S) : S \in ClaimPrefixes(StaleClaims(d))}
    \union {Purge(Recovered(d), E) :
                E \in IdPrefixes(Expired \intersect IdsOf(Recovered(d).files))}

-----------------------------------------------------------------------------
(* Append: the pipeline's sink spools n events after a failed write.       *)

\* recordID takes one number per event of the batch.
TakeSeq(p, n) == seq' = [seq EXCEPT ![p] = (@ + n) % SeqMod]

\* currentOverflowCountLocked: the larger of the counter and the file, and the
\* counter alone when the file cannot be read.
\* (Mutant: the file is not consulted.)
OverflowInMemory(p, readable) == overflowCount[p]
CurrentOverflow(p, readable) ==
    IF readable /\ overflow > overflowCount[p] THEN overflow ELSE overflowCount[p]

\* statsLocked: the bytes of the committed files; claimed files do not count,
\* nor do the m files it cannot size: those whose Stat fails, or all of them
\* when the directory cannot be read.
Bytes(d, m) == Cardinality(d.files) - m

\* (Mutant: the size is taken before recovery.)
FitsBeforeRecovery(d, m, n) == Bytes(disk, m) + n <= MaxBytes
Fits(d, m, n) == Bytes(d, m) + n <= MaxBytes

\* The batch fits as far as Append can tell: the first k records are written,
\* and Append returns an error when k < n.
AppendStored(p, n, k, m, readable) ==
    LET d   == Maintained(disk)
        new == (stored + 1)..(stored + k)
    IN  /\ k <= n /\ stored + n <= MaxRecords
        /\ m <= Cardinality(d.files) /\ Fits(d, m, n)
        /\ disk' = [files |-> d.files \union {[id |-> i, age |-> 0] : i \in new},
                    claims |-> d.claims]
        /\ stored' = stored + k
        /\ TakeSeq(p, n)
        /\ overflowCount' = [overflowCount EXCEPT ![p] = CurrentOverflow(p, readable)]
        /\ UNCHANGED <<created, worker, overflow, rejected, delivered, spoiled>>

\* ErrSpoolFull: the counter is incremented and written to its file; the
\* write itself may fail.
AppendRejected(p, n, m, readable) ==
    LET d     == Maintained(disk)
        count == CurrentOverflow(p, readable) + 1
    IN  /\ rejected < MaxOverflow
        /\ m <= Cardinality(d.files) /\ ~ Fits(d, m, n)
        /\ disk' = d
        /\ TakeSeq(p, n)
        /\ rejected' = rejected + 1
        /\ overflowCount' = [overflowCount EXCEPT ![p] = count]
        /\ overflow' \in {overflow, count}
        /\ UNCHANGED <<stored, created, worker, delivered, spoiled>>

\* Maintenance failed, in Append or in NextBatch.
MaintenanceFailed ==
    /\ disk' \in Interrupted(disk)
    /\ UNCHANGED <<stored, created, worker, seq, overflow, overflowCount,
                   rejected, delivered, spoiled>>

Append(p) ==
    \E n \in 1..BatchSize, m \in 0..MaxRecords, readable \in BOOLEAN :
        \/ \E k \in 0..n : AppendStored(p, n, k, m, readable)
        \/ AppendRejected(p, n, m, readable)

\* Stats ignores what maintenance returns, so a purge can follow a recovery
\* that was cut short.
Stats(p) ==
    /\ \E S \in ClaimPrefixes(StaleClaims(disk)) :
          LET d == Recover(disk, S)
          IN  \E E \in IdPrefixes(Expired \intersect IdsOf(d.files)) :
                 disk' = Purge(d, E)
    /\ \E readable \in BOOLEAN :
          overflowCount' = [overflowCount EXCEPT ![p] = CurrentOverflow(p, readable)]
    /\ UNCHANGED <<stored, created, worker, seq, overflow, rejected, delivered, spoiled>>

-----------------------------------------------------------------------------
(* ReplayOnce: NextBatch, the write to the primary sink, Ack or            *)
(* RecordFailure.                                                          *)

\* The oldest records of d, at most BatchSize of them.
Oldest(d) ==
    {i \in IdsOf(d.files) :
        Cardinality({j \in IdsOf(d.files) : j <= i}) <= BatchSize}

\* claimRecord for the records of S, in order: a rename, so the claimed file
\* keeps its mtime and replaces a file of the same name.
ClaimsOf(p, d, S) ==
    {[id |-> f.id, pid |-> Pid[p],
      seq |-> (seq[p] + Cardinality({j \in S : j <= f.id})) % SeqMod,
      age |-> f.age] : f \in {g \in d.files : g.id \in S}}

ClaimAll(d, C) ==
    [files  |-> {f \in d.files : f.id \notin IdsOf(C)},
     claims |-> {c \in d.claims : \A n \in C : ~ SamePath(c, n)} \union C]

\* NextBatch claims S; ok is FALSE when it then returns an error, which leaves
\* what it has claimed without a worker.
NextBatch(p, S, ok) ==
    LET d == Maintained(disk)
        C == ClaimsOf(p, d, S)
    IN  /\ worker[p].pc = "idle"
        /\ S \in IdPrefixes(Oldest(d))
        /\ ok => S = Oldest(d)
        /\ disk' = ClaimAll(d, C)
        /\ worker' = [worker EXCEPT ![p] =
                        IF ok /\ S # {} THEN [pc |-> "writing", batch |-> C, age |-> 0]
                                        ELSE @]
        /\ TakeSeq(p, Cardinality(S))
        /\ UNCHANGED <<stored, created, overflow, overflowCount, rejected, delivered,
                       spoiled>>

\* The primary accepts the batch.
ReplaySucceeded(p) ==
    /\ worker[p].pc = "writing"
    /\ delivered' = delivered \union IdsOf(worker[p].batch)
    /\ worker' = [worker EXCEPT ![p].pc = "ack"]
    /\ UNCHANGED <<disk, stored, created, seq, overflow, overflowCount, rejected,
                   spoiled>>

\* The primary reports an error, before or after it took the batch.
ReplayFailed(p) ==
    /\ worker[p].pc = "writing"
    /\ delivered' \in {delivered, delivered \union IdsOf(worker[p].batch)}
    /\ worker' = [worker EXCEPT ![p].pc = "fail"]
    /\ UNCHANGED <<disk, stored, created, seq, overflow, overflowCount, rejected,
                   spoiled>>

HasFile(c) == \E d \in disk.claims : SamePath(c, d)
FilesOf(T) == {d \in disk.claims : \E c \in T : SamePath(c, d)}

\* Ack removes the claimed files of T; a missing file is not an error.  T is
\* the whole batch unless the context is canceled or a removal fails.
Ack(p, T) ==
    /\ worker[p].pc = "ack"
    /\ T \in ClaimPrefixes(worker[p].batch)
    /\ disk' = [files |-> disk.files, claims |-> disk.claims \ FilesOf(T)]
    /\ worker' = [worker EXCEPT ![p] = IdleWorker]
    /\ UNCHANGED <<stored, created, seq, overflow, overflowCount, rejected, delivered,
                   spoiled>>

\* RecordFailure rewrites the records of T under their committed names and
\* removes their claimed files.  It stops at the first claimed file it cannot
\* read; last holds a record that was rewritten when the removal failed.
\* (Mutants: the claimed file is removed before the record is rewritten; the
\* record is rewritten from memory, without reading the claimed file.)
RecordFailureRemoveFirst(p, T, last) ==
    /\ worker[p].pc = "fail"
    /\ T \in ClaimPrefixes(worker[p].batch)
    /\ T \union last \in ClaimPrefixes(worker[p].batch)
    /\ disk' = [files  |-> {f \in disk.files : f.id \notin IdsOf(T)}
                             \union {[id |-> i, age |-> 0] : i \in IdsOf(T)},
                claims |-> disk.claims \ FilesOf(T \union last)]
    /\ worker' = [worker EXCEPT ![p] = IdleWorker]
    /\ UNCHANGED <<stored, created, seq, overflow, overflowCount, rejected, delivered,
                   spoiled>>
RecordFailureFromMemory(p, T, last) ==
    /\ worker[p].pc = "fail" /\ T = worker[p].batch
    /\ disk' = [files  |-> {f \in disk.files : f.id \notin IdsOf(T)}
                             \union {[id |-> i, age |-> 0] : i \in IdsOf(T)},
                claims |-> disk.claims \ FilesOf(T)]
    /\ worker' = [worker EXCEPT ![p] = IdleWorker]
    /\ UNCHANGED <<stored, created, seq, overflow, overflowCount, rejected, delivered,
                   spoiled>>
RecordFailure(p, T, last) ==
    LET batch == worker[p].batch
        ids   == IdsOf(T \union last)
    IN  /\ worker[p].pc = "fail"
        /\ T \in ClaimPrefixes(batch) /\ T \union last \in ClaimPrefixes(batch)
        /\ Cardinality(last) <= 1 /\ T \intersect last = {}
        /\ \A c \in T \union last : HasFile(c)
        /\ disk' = [files  |-> {f \in disk.files : f.id \notin ids}
                                 \union {[id |-> i, age |-> 0] : i \in ids},
                    claims |-> disk.claims \ FilesOf(T)]
        /\ worker' = [worker EXCEPT ![p] = IdleWorker]
        /\ spoiled' = spoiled \union IdsOf(last) \union
                        IdsOf({c \in T : c.age >= ClaimTimeout})
        /\ UNCHANGED <<stored, created, seq, overflow, overflowCount, rejected,
                       delivered>>

Replay(p) ==
    \/ \E S \in SUBSET Ids, ok \in BOOLEAN : NextBatch(p, S, ok)
    \/ ReplaySucceeded(p)
    \/ ReplayFailed(p)
    \/ \E T \in SUBSET worker[p].batch : Ack(p, T)
    \/ \E T \in SUBSET worker[p].batch : \E last \in SUBSET worker[p].batch :
            RecordFailure(p, T, last)

-----------------------------------------------------------------------------
(* The environment: process restarts and time.                             *)

\* The process dies and NewFileSpool reopens the directory.
Restart(p) ==
    /\ worker' = [worker EXCEPT ![p] = IdleWorker]
    /\ seq' = [seq EXCEPT ![p] = 0]
    /\ overflowCount' = [overflowCount EXCEPT ![p] = overflow]
    /\ UNCHANGED <<disk, stored, created, overflow, rejected, delivered, spoiled>>

AgeAll(S) == {[c EXCEPT !.age = Older(@)] : c \in S}

Tick ==
    /\ disk' = [files |-> AgeAll(disk.files), claims |-> AgeAll(disk.claims)]
    /\ created' = [i \in Ids |-> IF i <= stored THEN Older(created[i]) ELSE 0]
    /\ worker' = [p \in Spools |->
                    [pc |-> worker[p].pc, batch |-> AgeAll(worker[p].batch),
                     age |-> IF worker[p].pc = "idle" THEN 0 ELSE Older(worker[p].age)]]
    /\ UNCHANGED <<stored, seq, overflow, overflowCount, rejected, delivered, spoiled>>

Next ==
    \/ \E p \in Spools : Append(p) \/ Stats(p) \/ Replay(p) \/ Restart(p)
    \/ MaintenanceFailed
    \/ Tick

Spec == Init /\ [][Next]_vars

Intact(p) == \A c \in worker[p].batch : HasFile(c)

\* The replay ticker keeps firing, so an idle worker tries again; a worker
\* finishes what it started; neither the primary, nor cancellation, nor a
\* recovery by another process spoils every single attempt; and claimed files
\* can be removed from some point on.  A record no attempt can replay (its
\* claimed file does not decode, or the primary refuses its batch for ever)
\* is outside this fairness: it stays in front of the records behind it.
Fairness ==
    /\ WF_vars(Tick)
    /\ \A p \in Spools :
        /\ SF_vars(\E S \in SUBSET Ids : NextBatch(p, S, TRUE))
        /\ WF_vars(ReplaySucceeded(p) \/ ReplayFailed(p))
        /\ WF_vars(\E T \in SUBSET worker[p].batch : Ack(p, T))
        /\ WF_vars(\E T \in SUBSET worker[p].batch : RecordFailure(p, T, {}))
        /\ SF_vars(Intact(p) /\ ReplaySucceeded(p))
        /\ SF_vars(Intact(p) /\ Ack(p, worker[p].batch))
    /\ <>[][\A p \in Spools : \A T, last \in SUBSET worker[p].batch :
                RecordFailure(p, T, last) => last = {}]_vars

FairSpec == Spec /\ Fairness

-----------------------------------------------------------------------------
(* Properties.                                                             *)

\* No record is lost: whatever operations of several processes interleave and
\* wherever they stop, a written record still has a file, or the primary has
\* accepted it, or it has outlived MaxAge.
NothingLost ==
    \A i \in 1..stored : i \in Held(disk) \/ i \in delivered \/ i \in Expired

\* The strengthening: Ack runs only on records the primary accepted.
AckedAreDelivered ==
    \A p \in Spools : worker[p].pc = "ack" => IdsOf(worker[p].batch) \subseteq delivered

\* Two workers hold the same record only when both claimed a file that was
\* written ClaimTimeout or more ago: the claim of a young file is exclusive,
\* also between containers whose equal pids give claims the same name.  The
\* exception is a record RecordFailure has left to two workers: it wrote the
\* record back after its claim had timed out, when another worker may already
\* hold it, or it wrote the record and could not remove the claimed file.
YoungClaimExclusive ==
    \A p, q \in Spools :
        \A c \in worker[p].batch, d \in worker[q].batch :
            p # q /\ c.id = d.id /\ c.id \notin spoiled
                => c.age >= ClaimTimeout /\ d.age >= ClaimTimeout

\* An append leaves at most MaxBytes committed, and at most the records more
\* that statsLocked could not size (it skips a file whose Stat fails, and
\* counts 0 when the directory cannot be read).  In particular it counts the
\* records recovery put back before it decides that a batch fits
\* (spool.go:172-173).  Without an append the spool may exceed the limit, when
\* claimed records come back.
AppendWithinLimit ==
    [][\A p \in Spools, n \in 1..BatchSize, m \in 0..MaxRecords, readable \in BOOLEAN :
          \A k \in 1..n :
              AppendStored(p, n, k, m, readable) => Cardinality(disk'.files) <= MaxBytes + m]_vars

\* A rejection that can read the overflow-count file never takes it back,
\* whichever process wrote it last and whatever restarts in between, and the
\* file never reports more rejections than there were.  When the file cannot
\* be read, the process writes its own count over it, which may be smaller.
OverflowCountSound ==
    [][/\ overflow' <= rejected'
       /\ \A p \in Spools, n \in 1..BatchSize, m \in 0..MaxRecords :
              AppendRejected(p, n, m, TRUE) => overflow' >= overflow]_vars

\* Whatever claims are abandoned or stolen on the way, every stored record is
\* eventually accepted by the primary or expires.
EventuallyDelivered ==
    \A i \in Ids : i <= stored ~> i \in delivered \union Expired

\* The spool implements the durable queue its users rely on.
Queue == INSTANCE DurableQueue WITH
            Record   <- Ids,
            written  <- 1..stored,
            present  <- Held(disk),
            accepted <- delivered,
            old      <- Expired

ImplementsQueue == Queue!QSpec
=============================================================================
