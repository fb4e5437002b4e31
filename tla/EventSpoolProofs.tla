-------------------------- MODULE EventSpoolProofs --------------------------
(***************************************************************************)
(* Proofs about the durable spool, for any number of processes, records,   *)
(* pids and time bounds.                                                   *)
(***************************************************************************)
EXTENDS EventSpool, FiniteSetTheorems, WellFoundedInduction, TLAPS

\* Every nonempty set of naturals has a least element.
LEMMA LeastNatural ==
    ASSUME NEW S, S \subseteq Nat, S # {}
    PROVE  \E m \in S : \A n \in S : m <= n
<1> DEFINE R == OpToRel(<, Nat)
<1>1. IsWellFoundedOn(R, Nat)
  BY NatLessThanWellFounded
<1> HIDE DEF R
<1>2. PICK m \in S : \A n \in S : ~ (<<n, m>> \in R)
  BY <1>1, WFMin
<1>3. \A n \in S : ~ (n < m)
  BY <1>2 DEF R, OpToRel
<1> QED
  BY <1>3

\* First picks one of the claims it is given.
LEMMA FirstIsMember ==
    ASSUME NEW S \in SUBSET Claim, S # {}
    PROVE  First(S) \in S
<1>1. \A c \in S : c.pid \in Nat /\ c.seq \in Nat
  BY SpoolAssumption DEF Claim, Seqs
<1>2. PICK m \in {c.pid : c \in S} : \A n \in {c.pid : c \in S} : m <= n
  <2>1. {c.pid : c \in S} \subseteq Nat /\ {c.pid : c \in S} # {}
    BY <1>1
  <2> QED
    BY <2>1, LeastNatural
<1> DEFINE T == {c \in S : c.pid = m}
<1>3. PICK k \in {c.seq : c \in T} : \A n \in {c.seq : c \in T} : k <= n
  <2>1. {c.seq : c \in T} \subseteq Nat /\ {c.seq : c \in T} # {}
    BY <1>1, <1>2
  <2> QED
    BY <2>1, LeastNatural
<1>4. PICK c \in S : c.pid = m /\ c.seq = k
  BY <1>3
<1>5. \A d \in S : c.pid < d.pid \/ (c.pid = d.pid /\ c.seq <= d.seq)
  <2>1. ASSUME NEW d \in S PROVE m <= d.pid /\ (d.pid = m => k <= d.seq)
    <3>1. m <= d.pid
      BY <1>2
    <3>2. d.pid = m => d.seq \in {e.seq : e \in T}
      OBVIOUS
    <3> QED
      BY <1>3, <3>1, <3>2
  <2>2. m \in Nat /\ k \in Nat
    BY <1>1, <1>4
  <2> QED
    BY <1>1, <1>4, <2>1, <2>2
<1> QED
  BY <1>5 DEF First

\* Sequence numbers stay below SeqMod.
LEMMA ModType ==
    ASSUME NEW a \in Nat PROVE a % SeqMod \in Seqs
BY SpoolAssumption DEF Seqs

\* A set of record ids has a cardinality.
LEMMA IdsFinite ==
    ASSUME NEW S \in SUBSET Ids PROVE Cardinality(S) \in Nat
<1>1. IsFiniteSet(Ids)
  BY FS_Interval, SpoolAssumption DEF Ids
<1> QED
  BY <1>1, FS_Subset, FS_CardinalityType

-----------------------------------------------------------------------------
(* Maintenance keeps the directory well-formed and drops only records that *)
(* have expired.                                                           *)

\* Directory e comes from d by an operation that brings no record back and
\* drops none outside gone.
Shrinks(d, e, gone) ==
    /\ e \in Disk
    /\ Held(e) \subseteq Held(d)
    /\ Held(d) \ gone \subseteq Held(e)

\* Recovery moves files and loses no record.
LEMMA RecoverShrinks ==
    ASSUME NEW d \in Disk, NEW S \in SUBSET d.claims
    PROVE  Shrinks(d, Recover(d, S), {})
<1> DEFINE e == Recover(d, S)
           back == IdsOf(S) \ IdsOf(d.files)
           restored == {RestoredFile(S, i) : i \in back}
<1>1. d.files \in SUBSET File /\ d.claims \in SUBSET Claim
  BY DEF Disk
<1>2. ASSUME NEW i \in back
      PROVE  RestoredFile(S, i) \in File /\ RestoredFile(S, i).id = i
  <2>1. PICK c \in S : c.id = i
    BY DEF IdsOf
  <2>2. First({b \in S : b.id = i}) \in {b \in S : b.id = i}
    BY <1>1, <2>1, FirstIsMember
  <2> QED
    BY <1>1, <2>2 DEF File, Claim, RestoredFile
<1>3. e = [files |-> d.files \union restored, claims |-> d.claims \ S]
  BY DEF Recover
<1>4. e \in Disk
  BY <1>1, <1>2, <1>3 DEF Disk
<1>5. IdsOf(restored) = back
  BY <1>2 DEF IdsOf
<1>6. Held(e) = Held(d)
  <2>1. IdsOf(d.files \union restored) = IdsOf(d.files) \union back
    BY <1>5 DEF IdsOf
  <2>2. IdsOf(d.claims) = IdsOf(d.claims \ S) \union IdsOf(S)
    BY DEF IdsOf
  <2> HIDE DEF restored
  <2> QED
    BY <1>3, <2>1, <2>2 DEF Held
<1> QED
  BY <1>4, <1>6 DEF Shrinks

\* The purge loses only the records it is asked to remove.
LEMMA PurgeShrinks ==
    ASSUME NEW d \in Disk, NEW S
    PROVE  Shrinks(d, Purge(d, S), S)
<1>1. IdsOf({f \in d.files : f.id \notin S}) = IdsOf(d.files) \ S
  BY DEF IdsOf
<1> QED
  BY <1>1 DEF Purge, Shrinks, Held, Disk

\* Two maintenance passes compose.
LEMMA ShrinksTrans ==
    ASSUME NEW c, NEW d, NEW e, NEW S, NEW T, Shrinks(c, d, S), Shrinks(d, e, T)
    PROVE  Shrinks(c, e, S \union T)
BY DEF Shrinks

\* Maintenance, complete or cut short, loses only expired records.
LEMMA MaintainedShrinks ==
    ASSUME NEW d \in Disk
    PROVE  /\ Shrinks(d, Maintained(d), Expired)
           /\ \A e \in Interrupted(d) : Shrinks(d, e, Expired)
<1>1. StaleClaims(d) \in SUBSET d.claims
  BY DEF StaleClaims
<1>2. Shrinks(d, Recovered(d), {})
  BY <1>1, RecoverShrinks DEF Recovered
<1>3. Recovered(d) \in Disk
  BY <1>2 DEF Shrinks
<1>4. Shrinks(d, Maintained(d), {} \union Expired)
  BY <1>2, <1>3, PurgeShrinks, ShrinksTrans DEF Maintained
<1>5. ASSUME NEW S \in ClaimPrefixes(StaleClaims(d))
      PROVE  Shrinks(d, Recover(d, S), Expired)
  <2>1. S \in SUBSET d.claims
    BY <1>1 DEF ClaimPrefixes
  <2> QED
    BY <2>1, RecoverShrinks DEF Shrinks
<1>6. ASSUME NEW E \in IdPrefixes(Expired \intersect IdsOf(Recovered(d).files))
      PROVE  Shrinks(d, Purge(Recovered(d), E), Expired)
  <2>1. E \subseteq Expired
    BY DEF IdPrefixes
  <2>2. Shrinks(d, Purge(Recovered(d), E), {} \union E)
    BY <1>2, <1>3, PurgeShrinks, ShrinksTrans
  <2> QED
    BY <2>1, <2>2 DEF Shrinks
<1>7. \A e \in Interrupted(d) : Shrinks(d, e, Expired)
  BY <1>5, <1>6 DEF Interrupted
<1> QED
  BY <1>4, <1>7

-----------------------------------------------------------------------------
(* The inductive invariant.                                                *)

\* Every file and every claimed batch is of a record that was written, and a
\* record does not age before it is written.
OnlyStored ==
    /\ \A i \in Ids : i > stored => created[i] = 0
    /\ Held(disk) \subseteq 1..stored
    /\ \A p \in Spools : IdsOf(worker[p].batch) \subseteq 1..stored

SpoolInv == TypeOK /\ OnlyStored /\ AckedAreDelivered /\ NothingLost

\* The invariant holds in an empty directory.
LEMMA InitInv == Init => SpoolInv
<1> SUFFICES ASSUME Init PROVE SpoolInv
  OBVIOUS
<1>1. TypeOK
  BY SpoolAssumption DEF Init, TypeOK, Disk, WorkerState, IdleWorker, Ages, Seqs, Ids
<1>2. OnlyStored /\ AckedAreDelivered /\ NothingLost
  BY DEF Init, OnlyStored, AckedAreDelivered, NothingLost, IdleWorker, Held, IdsOf
<1> QED
  BY <1>1, <1>2 DEF SpoolInv

\* What every action does to the directory: it stays well-formed, it loses only
\* records that are delivered or expired, and gains only newly written ones.
DiskStep ==
    /\ disk' \in Disk
    /\ Held(disk') \subseteq Held(disk) \union ((stored + 1)..stored')
    /\ Held(disk) \ (delivered \union Expired) \subseteq Held(disk')
    /\ (stored + 1)..stored' \subseteq Held(disk')

\* A step whose only effect on the directory is maintenance.
LEMMA MaintainedStep ==
    ASSUME SpoolInv, Shrinks(disk, disk', Expired), UNCHANGED stored
    PROVE  DiskStep
<1>1. (stored + 1)..stored' = {}
  BY DEF SpoolInv, TypeOK
<1> QED
  BY <1>1 DEF DiskStep, Shrinks

\* An append that stores k records of its batch.
LEMMA AppendStoredStep ==
    ASSUME SpoolInv, NEW p \in Spools, NEW n \in 1..BatchSize, NEW k \in 0..n,
           NEW m \in 0..MaxRecords, NEW readable \in BOOLEAN,
           AppendStored(p, n, k, m, readable)
    PROVE  DiskStep /\ stored' \in 0..MaxRecords /\ stored <= stored'
<1> DEFINE d == Maintained(disk)
           new == (stored + 1)..(stored + k)
           added == {[id |-> i, age |-> 0] : i \in new}
<1>1. Shrinks(disk, d, Expired)
  BY MaintainedShrinks DEF SpoolInv, TypeOK
<1>2. /\ stored' = stored + k /\ stored + n <= MaxRecords
      /\ disk' = [files |-> d.files \union added, claims |-> d.claims]
  BY DEF AppendStored
<1>3. /\ stored \in Nat /\ n \in Nat /\ k \in Nat /\ k <= n /\ MaxRecords \in Nat
  BY SpoolAssumption DEF SpoolInv, TypeOK
<1>4. new \subseteq Ids
  BY <1>2, <1>3 DEF Ids
<1>5. added \subseteq File
  BY <1>4, SpoolAssumption DEF File, Ages
<1>6. disk' \in Disk
  BY <1>1, <1>2, <1>5 DEF Shrinks, Disk
<1>7. Held(disk') = Held(d) \union new
  <2>1. IdsOf(added) = new
    <3>1. \A i \in new : [id |-> i, age |-> 0] \in added /\ [id |-> i, age |-> 0].id = i
      OBVIOUS
    <3>2. \A f \in added : f.id \in new
      OBVIOUS
    <3> QED
      BY <3>1, <3>2 DEF IdsOf
  <2>2. IdsOf(d.files \union added) = IdsOf(d.files) \union new
    BY <2>1 DEF IdsOf
  <2> QED
    BY <1>2, <2>2 DEF Held
<1> HIDE DEF d, new
<1>8. (stored + 1)..stored' = new
  BY <1>2 DEF new
<1>9. DiskStep
  BY <1>1, <1>6, <1>7, <1>8 DEF DiskStep, Shrinks
<1> QED
  BY <1>2, <1>3, <1>9

\* Stats, whose purge may follow an interrupted recovery.
LEMMA StatsStep ==
    ASSUME SpoolInv, NEW p \in Spools, Stats(p)
    PROVE  DiskStep
<1>1. PICK S \in ClaimPrefixes(StaleClaims(disk)) :
        \E E \in IdPrefixes(Expired \intersect IdsOf(Recover(disk, S).files)) :
            disk' = Purge(Recover(disk, S), E)
  BY DEF Stats
<1>2. PICK E \in IdPrefixes(Expired \intersect IdsOf(Recover(disk, S).files)) :
        disk' = Purge(Recover(disk, S), E)
  BY <1>1
<1>3. S \in SUBSET disk.claims
  BY DEF ClaimPrefixes, StaleClaims
<1>4. Shrinks(disk, Recover(disk, S), {})
  BY <1>3, RecoverShrinks DEF SpoolInv, TypeOK
<1>5. Shrinks(disk, disk', {} \union E)
  <2>1. Recover(disk, S) \in Disk
    BY <1>4 DEF Shrinks
  <2> QED
    BY <1>2, <1>4, <2>1, PurgeShrinks, ShrinksTrans
<1>6. Shrinks(disk, disk', Expired)
  BY <1>5 DEF Shrinks, IdPrefixes
<1> QED
  BY <1>6, MaintainedStep DEF Stats

\* The claims NextBatch makes are of the records it chose.
LEMMA ClaimsOfFacts ==
    ASSUME NEW p \in Spools, NEW d \in Disk, NEW S \in SUBSET IdsOf(d.files),
           seq[p] \in Seqs
    PROVE  ClaimsOf(p, d, S) \in SUBSET Claim /\ IdsOf(ClaimsOf(p, d, S)) = S
<1> DEFINE pos(i) == Cardinality({j \in S : j <= i})
<1>1. d.files \in SUBSET File
  BY DEF Disk
<1>2. S \subseteq Ids
  BY <1>1 DEF IdsOf, File
<1>3. ASSUME NEW f \in d.files
      PROVE  (seq[p] + pos(f.id)) % SeqMod \in Seqs
  <2>1. pos(f.id) \in Nat
    BY <1>2, IdsFinite
  <2>2. seq[p] \in Nat
    BY SpoolAssumption DEF Seqs
  <2> HIDE DEF pos
  <2>3. seq[p] + pos(f.id) \in Nat
    BY <2>1, <2>2
  <2> QED
    BY <2>3, ModType
<1> HIDE DEF pos
<1>4. ClaimsOf(p, d, S) = {[id |-> f.id, pid |-> Pid[p],
                             seq |-> (seq[p] + pos(f.id)) % SeqMod,
                             age |-> f.age] : f \in {g \in d.files : g.id \in S}}
  BY DEF ClaimsOf, pos
<1>5. ClaimsOf(p, d, S) \in SUBSET Claim
  BY <1>1, <1>3, <1>4 DEF Claim, File
<1> DEFINE claim(f) == [id |-> f.id, pid |-> Pid[p],
                         seq |-> (seq[p] + pos(f.id)) % SeqMod, age |-> f.age]
<1>6. IdsOf(ClaimsOf(p, d, S)) = S
  <2>1. ASSUME NEW i \in S PROVE i \in IdsOf(ClaimsOf(p, d, S))
    <3>1. PICK f \in d.files : f.id = i
      BY DEF IdsOf
    <3>2. claim(f) \in ClaimsOf(p, d, S) /\ claim(f).id = i
      BY <1>4, <3>1
    <3> QED
      BY <3>2 DEF IdsOf
  <2>2. ASSUME NEW c \in ClaimsOf(p, d, S) PROVE c.id \in S
    BY <1>4
  <2> QED
    BY <2>1, <2>2 DEF IdsOf
<1> QED
  BY <1>5, <1>6

\* A claim renames files, so the records claimed keep one.
LEMMA NextBatchStep ==
    ASSUME SpoolInv, NEW p \in Spools, NEW S \in SUBSET Ids, NEW ok \in BOOLEAN,
           NextBatch(p, S, ok)
    PROVE  /\ DiskStep
           /\ ClaimsOf(p, Maintained(disk), S) \in SUBSET Claim
           /\ IdsOf(ClaimsOf(p, Maintained(disk), S)) \subseteq Held(disk)
<1> DEFINE d == Maintained(disk)
           C == ClaimsOf(p, d, S)
           kept == {c \in d.claims : \A n \in C : ~ SamePath(c, n)}
<1>1. Shrinks(disk, d, Expired)
  BY MaintainedShrinks DEF SpoolInv, TypeOK
<1>2. d \in Disk
  BY <1>1 DEF Shrinks
<1>3. S \subseteq IdsOf(d.files)
  BY DEF NextBatch, IdPrefixes, Oldest
<1>4. C \in SUBSET Claim /\ IdsOf(C) = S
  <2>1. seq[p] \in Seqs
    BY DEF SpoolInv, TypeOK
  <2> QED
    BY <1>2, <1>3, <2>1, ClaimsOfFacts
<1>5. disk' = [files |-> {f \in d.files : f.id \notin IdsOf(C)}, claims |-> kept \union C]
  BY DEF NextBatch, ClaimAll
<1> HIDE DEF d, C
<1>6. disk' \in Disk
  BY <1>2, <1>4, <1>5 DEF Disk
<1>7. Held(disk') = Held(d)
  <2>1. IdsOf({f \in d.files : f.id \notin IdsOf(C)}) = IdsOf(d.files) \ S
    BY <1>4 DEF IdsOf
  <2>2. IdsOf(kept \union C) = IdsOf(d.claims) \union S
    <3>1. ASSUME NEW c \in d.claims PROVE c.id \in IdsOf(kept \union C)
      BY DEF SamePath, IdsOf
    <3>2. IdsOf(kept) \subseteq IdsOf(d.claims)
      BY DEF IdsOf
    <3> QED
      BY <1>4, <3>1, <3>2 DEF IdsOf
  <2> HIDE DEF kept
  <2> QED
    BY <1>3, <1>5, <2>1, <2>2 DEF Held
<1>8. Shrinks(disk, disk', Expired)
  BY <1>1, <1>6, <1>7 DEF Shrinks
<1>9. DiskStep
  BY <1>8, MaintainedStep DEF NextBatch
<1>10. IdsOf(C) \subseteq Held(disk)
  BY <1>1, <1>3, <1>4 DEF Shrinks, Held
<1> QED
  BY <1>4, <1>9, <1>10 DEF C, d

\* Ack removes files of records that the primary has accepted.
LEMMA AckStep ==
    ASSUME SpoolInv, NEW p \in Spools, NEW T \in SUBSET worker[p].batch, Ack(p, T)
    PROVE  DiskStep
<1>1. disk' = [files |-> disk.files, claims |-> disk.claims \ FilesOf(T)]
  BY DEF Ack
<1>2. disk \in Disk
  BY DEF SpoolInv, TypeOK
<1>3. disk' \in Disk
  BY <1>1, <1>2 DEF Disk
<1>4. IdsOf(FilesOf(T)) \subseteq delivered
  <2>1. IdsOf(worker[p].batch) \subseteq delivered
    BY DEF SpoolInv, AckedAreDelivered, Ack
  <2>2. ASSUME NEW f \in FilesOf(T) PROVE f.id \in IdsOf(worker[p].batch)
    BY DEF FilesOf, SamePath, IdsOf
  <2> QED
    BY <2>1, <2>2 DEF IdsOf
<1>5. Held(disk) \subseteq Held(disk') \union IdsOf(FilesOf(T))
  BY <1>1 DEF Held, IdsOf
<1>6. Held(disk') \subseteq Held(disk)
  BY <1>1 DEF Held, IdsOf
<1>7. (stored + 1)..stored' = {}
  BY DEF Ack, SpoolInv, TypeOK
<1> QED
  BY <1>3, <1>4, <1>5, <1>6, <1>7 DEF DiskStep

\* RecordFailure rewrites a record before it removes the claimed file.
LEMMA RecordFailureStep ==
    ASSUME SpoolInv, NEW p \in Spools, NEW T \in SUBSET worker[p].batch,
           NEW last \in SUBSET worker[p].batch, RecordFailure(p, T, last)
    PROVE  DiskStep
<1> DEFINE ids == IdsOf(T \union last)
           rewritten == {[id |-> i, age |-> 0] : i \in ids}
           kept == {f \in disk.files : f.id \notin ids}
<1>1. disk' = [files |-> kept \union rewritten, claims |-> disk.claims \ FilesOf(T)]
  BY DEF RecordFailure
<1>2. disk \in Disk
  BY DEF SpoolInv, TypeOK
<1>3. ids \subseteq IdsOf(disk.claims)
  BY DEF RecordFailure, HasFile, SamePath, IdsOf
<1> HIDE DEF ids
<1>4. IdsOf(disk.claims) \subseteq Ids
  BY <1>2 DEF Disk, Claim, IdsOf
<1>5. rewritten \subseteq File
  BY <1>3, <1>4, SpoolAssumption DEF File, Ages
<1>6. disk' \in Disk
  BY <1>1, <1>2, <1>5 DEF Disk
<1>7. IdsOf(kept \union rewritten) = IdsOf(disk.files) \union ids
  <2>1. \A i \in ids : [id |-> i, age |-> 0] \in rewritten /\ [id |-> i, age |-> 0].id = i
    OBVIOUS
  <2>2. \A f \in rewritten : f.id \in ids
    OBVIOUS
  <2> HIDE DEF rewritten
  <2> QED
    BY <2>1, <2>2 DEF IdsOf
<1>8. ASSUME NEW c \in FilesOf(T) PROVE c.id \in ids
  BY DEF FilesOf, SamePath, IdsOf, ids
<1>9. IdsOf(disk.claims) \subseteq IdsOf(disk.claims \ FilesOf(T)) \union ids
  BY <1>8 DEF IdsOf
<1> HIDE DEF rewritten, kept
<1>10. Held(disk') \subseteq Held(disk)
  <2>1. IdsOf(disk.claims \ FilesOf(T)) \subseteq IdsOf(disk.claims)
    BY DEF IdsOf
  <2> QED
    BY <1>1, <1>3, <1>7, <2>1 DEF Held
<1>11. Held(disk) \subseteq Held(disk')
  BY <1>1, <1>7, <1>9 DEF Held
<1>12. (stored + 1)..stored' = {}
  BY DEF RecordFailure, SpoolInv, TypeOK
<1> QED
  BY <1>6, <1>10, <1>11, <1>12 DEF DiskStep

\* Growing older changes no path.
LEMMA AgeAllFacts ==
    /\ \A S \in SUBSET File : AgeAll(S) \in SUBSET File
    /\ \A S \in SUBSET Claim : AgeAll(S) \in SUBSET Claim
    /\ \A S \in (SUBSET File) \union (SUBSET Claim) : IdsOf(AgeAll(S)) = IdsOf(S)
<1> DEFINE older(c) == [c EXCEPT !.age = Older(@)]
<1>1. \A a \in Ages : Older(a) \in Ages
  BY SpoolAssumption DEF Ages, Older
<1>2. \A c \in File : older(c) \in File /\ older(c).id = c.id
  BY <1>1 DEF File
<1>3. \A c \in Claim : older(c) \in Claim /\ older(c).id = c.id
  BY <1>1 DEF Claim
<1>4. \A S : AgeAll(S) = {older(c) : c \in S}
  BY DEF AgeAll
<1> HIDE DEF older
<1> QED
  BY <1>2, <1>3, <1>4 DEF IdsOf

\* Time removes no file; records only become expired.
LEMMA TickStep ==
    ASSUME SpoolInv, Tick
    PROVE  DiskStep /\ Expired \subseteq Expired'
<1>1. disk \in Disk /\ disk' = [files |-> AgeAll(disk.files), claims |-> AgeAll(disk.claims)]
  BY DEF SpoolInv, TypeOK, Tick
<1>2. disk.files \in SUBSET File /\ disk.claims \in SUBSET Claim
  BY <1>1 DEF Disk
<1>3. disk' \in Disk /\ Held(disk') = Held(disk)
  BY <1>1, <1>2, AgeAllFacts DEF Disk, Held
<1>4. (stored + 1)..stored' = {}
  BY DEF Tick, SpoolInv, TypeOK
<1>5. Expired \subseteq Expired'
  BY SpoolAssumption DEF Expired, Tick, Older, SpoolInv, TypeOK, Ages, Ids
<1> QED
  BY <1>3, <1>4, <1>5 DEF DiskStep

-----------------------------------------------------------------------------
(* Every action preserves the invariant.                                   *)

\* The effect of an action on everything but seq and the overflow counters.
Effect ==
    /\ DiskStep
    /\ stored' \in 0..MaxRecords /\ stored <= stored'
    /\ created' \in [Ids -> Ages]
    /\ \A i \in Ids : i > stored' => created'[i] = 0
    /\ Expired \subseteq Expired'
    /\ worker' \in [Spools -> WorkerState]
    /\ delivered' \in SUBSET Ids /\ delivered \subseteq delivered'
    /\ \A p \in Spools :
        /\ IdsOf(worker'[p].batch) \subseteq 1..stored
        /\ worker'[p].pc = "ack" => IdsOf(worker'[p].batch) \subseteq delivered'
    /\ delivered' # delivered => /\ UNCHANGED <<disk, stored, created>>
                                 /\ delivered' \subseteq delivered \union 1..stored
    /\ created' # created => Held(disk') = Held(disk) /\ UNCHANGED <<stored, delivered>>

\* A step with these effects keeps the invariant.
LEMMA EffectPreserves ==
    ASSUME SpoolInv, Effect, seq' \in [Spools -> Seqs],
           overflow' \in Nat, rejected' \in Nat, overflowCount' \in [Spools -> Nat],
           spoiled' \in SUBSET Ids
    PROVE  SpoolInv'
<1>1. TypeOK'
  BY DEF Effect, TypeOK, DiskStep
<1>2. stored \in Nat /\ stored' \in Nat /\ stored <= stored'
  BY SpoolAssumption DEF Effect, SpoolInv, TypeOK
<1>3. OnlyStored'
  <2>1. Held(disk') \subseteq 1..stored'
    BY <1>2 DEF Effect, DiskStep, SpoolInv, OnlyStored
  <2>2. 1..stored \subseteq 1..stored'
    BY <1>2
  <2> QED
    BY <2>1, <2>2 DEF Effect, OnlyStored
<1>4. AckedAreDelivered'
  BY DEF Effect, AckedAreDelivered
<1>5. NothingLost'
  <2> SUFFICES ASSUME NEW i \in 1..stored'
               PROVE  i \in Held(disk') \/ i \in delivered' \/ i \in Expired'
    BY DEF NothingLost
  <2>1. CASE i \in 1..stored
    BY <2>1 DEF SpoolInv, NothingLost, Effect, DiskStep
  <2>2. CASE i \in (stored + 1)..stored'
    BY <2>2 DEF Effect, DiskStep
  <2> QED
    BY <1>2, <2>1, <2>2
<1> QED
  BY <1>1, <1>3, <1>4, <1>5 DEF SpoolInv

\* An action that leaves the clock, the workers and the deliveries alone.
LEMMA QuietEffect ==
    ASSUME SpoolInv, DiskStep, stored' \in 0..MaxRecords, stored <= stored',
           UNCHANGED <<created, worker, delivered>>
    PROVE  Effect
<1>1. stored \in Nat /\ stored' \in Nat
  BY SpoolAssumption DEF SpoolInv, TypeOK
<1>2. Expired \subseteq Expired'
  BY <1>1 DEF Expired
<1>3. \A i \in Ids : i > stored' => created'[i] = 0
  BY <1>1, SpoolAssumption DEF SpoolInv, OnlyStored, Ids
<1> QED
  BY <1>2, <1>3 DEF Effect, SpoolInv, TypeOK, OnlyStored, AckedAreDelivered

\* An action of one worker that neither writes records nor delivers.
LEMMA WorkerEffect ==
    ASSUME SpoolInv, DiskStep, NEW p \in Spools, NEW w \in WorkerState,
           worker' = [worker EXCEPT ![p] = w],
           IdsOf(w.batch) \subseteq 1..stored, w.pc # "ack",
           UNCHANGED <<stored, created, delivered>>
    PROVE  Effect
<1>1. worker' \in [Spools -> WorkerState]
  BY DEF SpoolInv, TypeOK
<1>2. \A q \in Spools : worker'[q] = IF q = p THEN w ELSE worker[q]
  BY DEF SpoolInv, TypeOK
<1>3. stored \in Nat
  BY SpoolAssumption DEF SpoolInv, TypeOK
<1>4. Expired \subseteq Expired'
  BY DEF Expired
<1> QED
  BY <1>1, <1>2, <1>3, <1>4 DEF Effect, SpoolInv, TypeOK, OnlyStored, AckedAreDelivered

\* ReplaySucceeded and ReplayFailed: the directory is untouched.
LEMMA DeliveryEffect ==
    ASSUME SpoolInv, NEW p \in Spools, ReplaySucceeded(p) \/ ReplayFailed(p)
    PROVE  Effect
<1> DEFINE ids == IdsOf(worker[p].batch)
<1>1. ids \subseteq 1..stored /\ stored \in 0..MaxRecords /\ stored \in Nat
  BY SpoolAssumption DEF SpoolInv, OnlyStored, TypeOK
<1>2. ids \subseteq Ids
  BY <1>1, SpoolAssumption DEF Ids
<1>3. /\ delivered' \in {delivered, delivered \union ids}
      /\ UNCHANGED <<disk, stored, created>>
      /\ \E c \in {"ack", "fail"} :
            /\ worker' = [worker EXCEPT ![p].pc = c]
            /\ c = "ack" => delivered' = delivered \union ids
  BY DEF ReplaySucceeded, ReplayFailed
<1>4. PICK c \in {"ack", "fail"} :
            /\ worker' = [worker EXCEPT ![p].pc = c]
            /\ c = "ack" => delivered' = delivered \union ids
  BY <1>3
<1> HIDE DEF ids
<1>5. /\ worker' \in [Spools -> WorkerState]
      /\ \A q \in Spools : /\ worker'[q].batch = worker[q].batch
                            /\ q # p => worker'[q] = worker[q]
      /\ worker'[p].pc = c
  BY <1>4 DEF SpoolInv, TypeOK, WorkerState
<1>6. (stored + 1)..stored' = {}
  BY <1>1, <1>3
<1>7. DiskStep
  BY <1>3, <1>6 DEF DiskStep, SpoolInv, TypeOK
<1>8. delivered' \in SUBSET Ids /\ delivered \subseteq delivered'
  BY <1>2, <1>3 DEF SpoolInv, TypeOK
<1>9. \A q \in Spools :
        /\ IdsOf(worker'[q].batch) \subseteq 1..stored
        /\ worker'[q].pc = "ack" => IdsOf(worker'[q].batch) \subseteq delivered'
  BY <1>4, <1>5, <1>8 DEF SpoolInv, OnlyStored, AckedAreDelivered, ids
<1>10. Expired \subseteq Expired'
  BY <1>3 DEF Expired
<1> QED
  BY <1>1, <1>3, <1>5, <1>7, <1>8, <1>9, <1>10
     DEF Effect, SpoolInv, TypeOK, OnlyStored

\* A tick has these effects.
LEMMA TickEffect ==
    ASSUME SpoolInv, Tick
    PROVE  Effect
<1>1. DiskStep /\ Expired \subseteq Expired'
  BY TickStep
<1>2. \A a \in Ages : Older(a) \in Ages
  BY SpoolAssumption DEF Ages, Older
<1>3. 0 \in Ages /\ stored \in Nat /\ stored \in 0..MaxRecords
  BY SpoolAssumption DEF SpoolInv, TypeOK, Ages
<1>4. created' \in [Ids -> Ages] /\ \A i \in Ids : i > stored' => created'[i] = 0
  BY <1>2, <1>3, SpoolAssumption DEF Tick, SpoolInv, TypeOK, Ids
<1>5. \A p \in Spools :
        /\ worker[p] \in WorkerState
        /\ worker'[p] = [pc |-> worker[p].pc, batch |-> AgeAll(worker[p].batch),
                         age |-> IF worker[p].pc = "idle" THEN 0 ELSE Older(worker[p].age)]
  BY DEF Tick, SpoolInv, TypeOK
<1>6. \A p \in Spools :
        /\ worker'[p] \in WorkerState
        /\ worker'[p].pc = worker[p].pc
        /\ IdsOf(worker'[p].batch) = IdsOf(worker[p].batch)
  <2> TAKE p \in Spools
  <2>1. /\ worker[p].pc \in {"idle", "writing", "ack", "fail"}
        /\ worker[p].batch \in SUBSET Claim /\ worker[p].age \in Ages
    BY <1>5 DEF WorkerState
  <2>2. /\ AgeAll(worker[p].batch) \in SUBSET Claim
        /\ IdsOf(AgeAll(worker[p].batch)) = IdsOf(worker[p].batch)
    BY <2>1, AgeAllFacts
  <2> DEFINE b == AgeAll(worker[p].batch)
             a == IF worker[p].pc = "idle" THEN 0 ELSE Older(worker[p].age)
  <2>3. a \in Ages
    BY <1>2, <1>3, <2>1
  <2>4. worker'[p] = [pc |-> worker[p].pc, batch |-> b, age |-> a]
    BY <1>5
  <2> HIDE DEF a, b
  <2>5. worker'[p].pc = worker[p].pc /\ worker'[p].batch = b
    BY <2>4
  <2>6. worker'[p] \in WorkerState
    BY <2>1, <2>2, <2>3, <2>4 DEF WorkerState, b
  <2> QED
    BY <2>2, <2>5, <2>6 DEF b
<1>7. worker' \in [Spools -> WorkerState]
  <2>1. worker' = [p \in Spools |-> worker'[p]]
    BY DEF Tick
  <2> QED
    BY <1>6, <2>1
<1>8. Held(disk') = Held(disk)
  <2>1. disk.files \in SUBSET File /\ disk.claims \in SUBSET Claim
    BY DEF SpoolInv, TypeOK, Disk
  <2> QED
    BY <2>1, AgeAllFacts DEF Tick, Held
<1> QED
  BY <1>1, <1>3, <1>4, <1>6, <1>7, <1>8
     DEF Effect, Tick, SpoolInv, TypeOK, OnlyStored, AckedAreDelivered

\* The counters keep their types.
LEMMA TakeSeqType ==
    ASSUME SpoolInv, NEW p \in Spools, NEW n \in Nat, TakeSeq(p, n)
    PROVE  seq' \in [Spools -> Seqs]
<1>1. seq \in [Spools -> Seqs] /\ seq[p] \in Nat
  BY SpoolAssumption DEF SpoolInv, TypeOK, Seqs
<1>2. (seq[p] + n) % SeqMod \in Seqs
  BY <1>1, ModType
<1> QED
  BY <1>1, <1>2 DEF TakeSeq

CounterTypes ==
    /\ seq' \in [Spools -> Seqs]
    /\ overflow' \in Nat /\ rejected' \in Nat
    /\ overflowCount' \in [Spools -> Nat]
    /\ spoiled' \in SUBSET Ids

\* So has every step of the specification.
LEMMA NextEffect ==
    ASSUME SpoolInv, [Next]_vars
    PROVE  Effect /\ CounterTypes
<1> USE DEF CounterTypes
<1>1. /\ seq \in [Spools -> Seqs] /\ overflow \in Nat /\ rejected \in Nat
      /\ overflowCount \in [Spools -> Nat] /\ disk \in Disk /\ spoiled \in SUBSET Ids
      /\ stored \in 0..MaxRecords /\ stored \in Nat /\ 0 \in Seqs
  BY SpoolAssumption DEF SpoolInv, TypeOK, Seqs
<1>2. \A p \in Spools, readable \in BOOLEAN : CurrentOverflow(p, readable) \in Nat
  BY <1>1 DEF CurrentOverflow
<1>3. IdleWorker \in WorkerState /\ IdsOf(IdleWorker.batch) = {} /\ IdleWorker.pc # "ack"
  BY SpoolAssumption DEF IdleWorker, WorkerState, Ages, IdsOf
<1>4. ASSUME UNCHANGED <<disk, stored>> PROVE DiskStep
  <2>1. (stored + 1)..stored' = {}
    BY <1>1, <1>4
  <2> QED
    BY <1>1, <1>4, <2>1 DEF DiskStep
<1>5. ASSUME NEW p \in Spools, NEW n \in 1..BatchSize, NEW k \in 0..n,
             NEW m \in 0..MaxRecords, NEW readable \in BOOLEAN,
             AppendStored(p, n, k, m, readable)
      PROVE  Effect /\ CounterTypes
  <2>1. DiskStep /\ stored' \in 0..MaxRecords /\ stored <= stored'
    BY <1>5, AppendStoredStep
  <2>2. Effect
    BY <1>5, <2>1, QuietEffect DEF AppendStored
  <2>3. seq' \in [Spools -> Seqs]
    BY <1>5, TakeSeqType, SpoolAssumption DEF AppendStored
  <2> QED
    BY <1>1, <1>2, <1>5, <2>2, <2>3 DEF AppendStored
<1>6. ASSUME NEW p \in Spools, NEW n \in 1..BatchSize,
             NEW m \in 0..MaxRecords, NEW readable \in BOOLEAN,
             AppendRejected(p, n, m, readable)
      PROVE  Effect /\ CounterTypes
  <2>1. Shrinks(disk, disk', Expired)
    BY <1>1, <1>6, MaintainedShrinks DEF AppendRejected
  <2>2. DiskStep
    BY <1>6, <2>1, MaintainedStep DEF AppendRejected
  <2>3. Effect
    BY <1>1, <1>6, <2>2, QuietEffect DEF AppendRejected
  <2>4. seq' \in [Spools -> Seqs]
    BY <1>6, TakeSeqType, SpoolAssumption DEF AppendRejected
  <2>5. overflow' \in Nat /\ rejected' \in Nat
    BY <1>1, <1>2, <1>6 DEF AppendRejected
  <2>6. overflowCount' \in [Spools -> Nat]
    BY <1>1, <1>2, <1>6 DEF AppendRejected
  <2>7. spoiled' \in SUBSET Ids
    BY <1>1, <1>6 DEF AppendRejected
  <2> QED
    BY <2>3, <2>4, <2>5, <2>6, <2>7
<1>7. ASSUME MaintenanceFailed PROVE Effect /\ CounterTypes
  <2>1. Shrinks(disk, disk', Expired)
    BY <1>1, <1>7, MaintainedShrinks DEF MaintenanceFailed
  <2>2. DiskStep
    BY <1>7, <2>1, MaintainedStep DEF MaintenanceFailed
  <2> QED
    BY <1>1, <1>7, <2>2, QuietEffect DEF MaintenanceFailed
<1>8. ASSUME NEW p \in Spools, Stats(p) PROVE Effect /\ CounterTypes
  <2>1. DiskStep
    BY <1>8, StatsStep
  <2> QED
    BY <1>1, <1>2, <1>8, <2>1, QuietEffect DEF Stats
<1>9. ASSUME NEW p \in Spools, NEW S \in SUBSET Ids, NEW ok \in BOOLEAN, NextBatch(p, S, ok)
      PROVE  Effect /\ CounterTypes
  <2> DEFINE C == ClaimsOf(p, Maintained(disk), S)
             busy == [pc |-> "writing", batch |-> C, age |-> 0]
  <2>1. DiskStep /\ C \in SUBSET Claim /\ IdsOf(C) \subseteq Held(disk)
    BY <1>9, NextBatchStep
  <2>2. seq' \in [Spools -> Seqs]
    BY <1>9, IdsFinite, TakeSeqType DEF NextBatch
  <2>3. /\ worker' = [worker EXCEPT ![p] = IF ok /\ S # {} THEN busy ELSE @]
        /\ UNCHANGED <<stored, created, overflow, overflowCount, rejected, delivered, spoiled>>
    BY <1>9 DEF NextBatch
  <2> HIDE DEF C
  <2>4. busy \in WorkerState /\ busy.pc # "ack" /\ IdsOf(busy.batch) \subseteq 1..stored
    BY <2>1, SpoolAssumption DEF WorkerState, Ages, SpoolInv, OnlyStored
  <2> HIDE DEF busy
  <2>5. CASE ok /\ S # {}
    <3>1. worker' = [worker EXCEPT ![p] = busy]
      BY <2>3, <2>5
    <3> QED
      BY <1>1, <2>1, <2>2, <2>3, <2>4, <3>1, WorkerEffect
  <2>6. CASE ~ (ok /\ S # {})
    <3>1. worker' = worker
      BY <2>3, <2>6 DEF SpoolInv, TypeOK
    <3> QED
      BY <1>1, <2>1, <2>2, <2>3, <3>1, QuietEffect
  <2> QED
    BY <2>5, <2>6
<1>10. ASSUME NEW p \in Spools, ReplaySucceeded(p) \/ ReplayFailed(p)
       PROVE  Effect /\ CounterTypes
  BY <1>1, <1>10, DeliveryEffect DEF ReplaySucceeded, ReplayFailed
<1>11. ASSUME NEW p \in Spools, NEW T \in SUBSET worker[p].batch, Ack(p, T)
       PROVE  Effect /\ CounterTypes
  BY <1>1, <1>3, <1>11, AckStep, WorkerEffect DEF Ack
<1>12. ASSUME NEW p \in Spools, NEW T \in SUBSET worker[p].batch,
              NEW last \in SUBSET worker[p].batch, RecordFailure(p, T, last)
       PROVE  Effect /\ CounterTypes
  <2>1. Effect
    BY <1>1, <1>3, <1>12, RecordFailureStep, WorkerEffect DEF RecordFailure
  <2>2. spoiled' \in SUBSET Ids
    <3>1. worker[p].batch \in SUBSET Claim
      BY DEF SpoolInv, TypeOK, WorkerState
    <3>2. \A c \in T \union last : c.id \in Ids
      BY <3>1 DEF Claim
    <3>3. spoiled' \subseteq spoiled \union IdsOf(T \union last)
      BY <1>12 DEF RecordFailure, IdsOf
    <3> QED
      BY <1>1, <3>2, <3>3 DEF IdsOf
  <2>3. UNCHANGED <<seq, overflow, rejected, overflowCount>>
    BY <1>12 DEF RecordFailure
  <2> QED
    BY <1>1, <2>1, <2>2, <2>3
<1>13. ASSUME NEW p \in Spools, Restart(p) PROVE Effect /\ CounterTypes
  <2>1. DiskStep
    BY <1>4, <1>13 DEF Restart
  <2> QED
    BY <1>1, <1>3, <1>13, <2>1, WorkerEffect DEF Restart
<1>14. ASSUME Tick PROVE Effect /\ CounterTypes
  BY <1>1, <1>14, TickEffect DEF Tick
<1>15. ASSUME UNCHANGED vars PROVE Effect /\ CounterTypes
  BY <1>1, <1>4, <1>15, QuietEffect DEF vars
<1>16. ASSUME NEW p \in Spools, Append(p) PROVE Effect /\ CounterTypes
  BY <1>5, <1>6, <1>16 DEF Append
<1>17. ASSUME NEW p \in Spools, Replay(p) PROVE Effect /\ CounterTypes
  BY <1>9, <1>10, <1>11, <1>12, <1>17 DEF Replay
<1> QED
  BY <1>7, <1>8, <1>13, <1>14, <1>15, <1>16, <1>17 DEF Next

\* The invariant is inductive.
LEMMA InvInductive ==
    ASSUME SpoolInv, [Next]_vars PROVE SpoolInv'
BY NextEffect, EffectPreserves DEF CounterTypes

-----------------------------------------------------------------------------
(* The theorems.                                                           *)

\* The spool's state is always well-typed: in particular the directory only
\* ever holds files of known records.
THEOREM TypeCorrect == Spec => []TypeOK
<1>1. Init => SpoolInv
  BY InitInv
<1>2. SpoolInv /\ [Next]_vars => SpoolInv'
  BY InvInductive
<1>3. SpoolInv => TypeOK
  BY DEF SpoolInv
<1> QED
  BY <1>1, <1>2, <1>3, PTL DEF Spec

\* FileSpool loses no record: for any number of processes sharing the
\* directory, any interleaving of their operations and any operation cut short,
\* a record written by Append has a file until the primary has accepted it or
\* it has outlived MaxAge.
THEOREM NoRecordLost == Spec => []NothingLost
<1>1. Init => SpoolInv
  BY InitInv
<1>2. SpoolInv /\ [Next]_vars => SpoolInv'
  BY InvInductive
<1>3. SpoolInv => NothingLost
  BY DEF SpoolInv
<1> QED
  BY <1>1, <1>2, <1>3, PTL DEF Spec

\* Every step of the spool is a step of the durable queue, or leaves it alone.
LEMMA StepRefines ==
    ASSUME SpoolInv, [Next]_vars
    PROVE  [Queue!QNext]_(Queue!qvars)
<1>1. Effect
  BY NextEffect
<1>2. stored \in Nat /\ stored' \in Nat /\ stored <= stored' /\ stored' <= MaxRecords
  BY <1>1, SpoolAssumption DEF Effect, SpoolInv, TypeOK
<1>3. Held(disk) \subseteq 1..stored
  BY DEF SpoolInv, OnlyStored
<1>4. CASE delivered' # delivered
  <2> DEFINE S == delivered' \ delivered
  <2>1. UNCHANGED <<disk, stored, created>> /\ S \subseteq 1..stored
    BY <1>1, <1>4 DEF Effect
  <2>2. Held(disk') = Held(disk) /\ Expired' = Expired
    BY <2>1 DEF Expired
  <2>3. delivered' = delivered \union S /\ S \in SUBSET Ids
    BY <1>1 DEF Effect
  <2>4. Queue!Accept(S)
    BY <2>1, <2>2, <2>3 DEF Queue!Accept
  <2> QED
    BY <2>3, <2>4 DEF Queue!QNext
<1>5. CASE created' # created
  <2> DEFINE S == Expired' \ Expired
  <2>1. Held(disk') = Held(disk) /\ UNCHANGED <<stored, delivered>>
    BY <1>1, <1>5 DEF Effect
  <2>2. Expired' \subseteq 1..stored' /\ Expired \subseteq Expired'
    BY <1>1 DEF Effect, Expired
  <2>0. 1..stored \subseteq Ids /\ stored' = stored
    BY <1>2, <2>1, SpoolAssumption DEF Ids
  <2>3. S \in SUBSET Ids /\ S \subseteq 1..stored /\ Expired' = Expired \union S
    BY <2>0, <2>2
  <2>4. Queue!GrowOld(S)
    BY <2>1, <2>3 DEF Queue!GrowOld
  <2> QED
    BY <2>3, <2>4 DEF Queue!QNext
<1>6. CASE UNCHANGED <<delivered, created>>
  <2> DEFINE gone == Held(disk) \ Held(disk')
             new == (stored + 1)..stored'
  <2>1. Expired' = Expired
    BY <1>2, <1>6, SpoolAssumption DEF Expired, SpoolInv, OnlyStored, Ids
  <2>2. gone \subseteq Held(disk) \intersect (delivered \union Expired)
    BY <1>1 DEF Effect, DiskStep
  <2>3. new \intersect (1..stored) = {} /\ 1..stored' = (1..stored) \union new
    BY <1>2
  <2>4. Held(disk') = (Held(disk) \ gone) \union new
    BY <1>1 DEF Effect, DiskStep
  <2>5. gone \in SUBSET Ids /\ new \in SUBSET Ids
    BY <1>2, <1>3, SpoolAssumption DEF Ids
  <2> HIDE DEF gone, new
  <2>6. Queue!Update(gone, new)
    BY <1>6, <2>1, <2>2, <2>3, <2>4 DEF Queue!Update
  <2> QED
    BY <2>5, <2>6 DEF Queue!QNext
<1> QED
  BY <1>4, <1>5, <1>6

\* FileSpool implements the durable queue: records leave only when delivered
\* or expired, and never come back.
THEOREM SpoolImplementsQueue == Spec => ImplementsQueue
<1>1. Init => Queue!QInit
  BY DEF Init, Queue!QInit, Held, IdsOf, Expired
<1>2. Init => SpoolInv
  BY InitInv
<1>3. SpoolInv /\ [Next]_vars => SpoolInv'
  BY InvInductive
<1>4. SpoolInv /\ [Next]_vars => [Queue!QNext]_(Queue!qvars)
  BY StepRefines
<1> QED
  BY <1>1, <1>2, <1>3, <1>4, PTL DEF Spec, ImplementsQueue, Queue!QSpec

-----------------------------------------------------------------------------
(***************************************************************************)
(* What several processes that share a spool directory may rely on, for    *)
(* any number of them: the overflow count, the size limit, and the         *)
(* exclusion of a claim on a young file.                                   *)
(***************************************************************************)

(* The overflow count.                                                     *)

\* No counter, in memory or on disk, is ahead of what was rejected.
CountsInv ==
    /\ overflow \in Nat /\ rejected \in Nat
    /\ overflowCount \in [Spools -> Nat]
    /\ overflow <= rejected
    /\ \A p \in Spools : overflowCount[p] <= rejected

\* Nothing is rejected or counted at the start.
LEMMA CountsInit == Init => CountsInv
BY DEF Init, CountsInv

\* What CurrentOverflow returns is a count of rejections; it covers the file's
\* when the file can be read.
LEMMA CurrentCounted ==
    ASSUME CountsInv, NEW p \in Spools, NEW readable \in BOOLEAN
    PROVE  /\ CurrentOverflow(p, readable) \in Nat
           /\ CurrentOverflow(p, readable) <= rejected
           /\ readable => overflow <= CurrentOverflow(p, readable)
BY DEF CountsInv, CurrentOverflow

\* A rejection counts itself once, in memory and in the file it writes.
LEMMA RejectionCounted ==
    ASSUME CountsInv, NEW p \in Spools, NEW n \in 1..BatchSize,
           NEW m \in 0..MaxRecords, NEW readable \in BOOLEAN,
           AppendRejected(p, n, m, readable)
    PROVE  CountsInv' /\ (readable => overflow' >= overflow)
<1> DEFINE count == CurrentOverflow(p, readable) + 1
<1>1. /\ rejected' = rejected + 1
      /\ overflowCount' = [overflowCount EXCEPT ![p] = count]
      /\ overflow' \in {overflow, count}
  BY DEF AppendRejected
<1>2. /\ count \in Nat /\ count <= rejected + 1
      /\ readable => overflow <= count
  BY CurrentCounted DEF CountsInv
<1> HIDE DEF count
<1> QED
  BY <1>1, <1>2 DEF CountsInv

\* Every step keeps the counts sound.
LEMMA CountsStep ==
    ASSUME CountsInv, [Next]_vars
    PROVE  CountsInv'
<1>1. CASE UNCHANGED <<overflow, rejected, overflowCount>>
  BY <1>1 DEF CountsInv
<1>2. ASSUME NEW p \in Spools, NEW readable \in BOOLEAN,
             overflowCount' = [overflowCount EXCEPT ![p] = CurrentOverflow(p, readable)],
             UNCHANGED <<overflow, rejected>>
      PROVE  CountsInv'
  BY <1>2, CurrentCounted DEF CountsInv
<1>3. ASSUME NEW p \in Spools, Append(p) PROVE CountsInv'
  BY <1>2, <1>3, RejectionCounted DEF Append, AppendStored
<1>4. ASSUME NEW p \in Spools, Stats(p) PROVE CountsInv'
  BY <1>2, <1>4 DEF Stats
<1>5. ASSUME NEW p \in Spools, Restart(p) PROVE CountsInv'
  BY <1>5 DEF Restart, CountsInv
<1>6. ASSUME NEW p \in Spools, Replay(p)
      PROVE  UNCHANGED <<overflow, rejected, overflowCount>>
  BY <1>6 DEF Replay, NextBatch, ReplaySucceeded, ReplayFailed, Ack, RecordFailure
<1>7. ASSUME MaintenanceFailed \/ Tick \/ UNCHANGED vars
      PROVE  UNCHANGED <<overflow, rejected, overflowCount>>
  BY <1>7 DEF MaintenanceFailed, Tick, vars
<1> QED
  BY <1>1, <1>3, <1>4, <1>5, <1>6, <1>7 DEF Next

\* A rejection that can read the overflow-count file never takes it back, and
\* the file never reports more rejections than there were, whichever processes
\* write it and restart and whoever could not read it before
\* (spool_overflow.go, currentOverflowCountLocked).
THEOREM OverflowCounted == Spec => OverflowCountSound
<1> DEFINE Raised == \A p \in Spools, n \in 1..BatchSize, m \in 0..MaxRecords :
                         AppendRejected(p, n, m, TRUE) => overflow' >= overflow
<1>1. CountsInv /\ [Next]_vars => CountsInv' /\ [overflow' <= rejected' /\ Raised]_vars
  <2> SUFFICES ASSUME CountsInv, [Next]_vars
               PROVE  CountsInv' /\ overflow' <= rejected' /\ Raised
    OBVIOUS
  <2>1. CountsInv'
    BY CountsStep
  <2>2. Raised
    BY RejectionCounted
  <2> QED
    BY <2>1, <2>2 DEF CountsInv
<1> QED
  BY <1>1, CountsInit, PTL DEF Spec, OverflowCountSound

-----------------------------------------------------------------------------
(* The size limit.                                                         *)

\* There are finitely many paths and ages.
LEMMA FilesFinite == IsFiniteSet(File)
<1> DEFINE g == [f \in File |-> <<f.id, f.age>>]
<1>1. IsFiniteSet(Ids) /\ IsFiniteSet(Ages)
  BY FS_Interval, SpoolAssumption DEF Ids, Ages
<1>2. IsFiniteSet(Ids \X Ages)
  BY <1>1, FS_Product
<1>3. \A f, h \in File : g[f] = g[h] => f = h
  BY DEF File
<1>4. g \in [File -> Ids \X Ages]
  BY DEF File
<1>5. g \in Injection(File, Ids \X Ages)
  BY <1>3, <1>4 DEF Injection, IsInjective
<1> QED
  BY <1>2, <1>5, FS_Injection

\* A batch adds one file per record.
LEMMA BatchBytes ==
    ASSUME NEW F \in SUBSET File, NEW k \in Nat, NEW m \in Nat
    PROVE  Cardinality(F \union {[id |-> i, age |-> 0] : i \in (m + 1)..(m + k)})
             <= Cardinality(F) + k
<1> DEFINE I == (m + 1)..(m + k)
           A == {[id |-> i, age |-> 0] : i \in I}
           g == [i \in I |-> [id |-> i, age |-> 0]]
<1>1. IsFiniteSet(I) /\ Cardinality(I) = k
  BY FS_Interval
<1>2. g \in Surjection(I, A)
  BY DEF Surjection
<1>3. IsFiniteSet(A) /\ Cardinality(A) <= k
  <2> HIDE DEF A, g, I
  <2> QED
    BY <1>1, <1>2, FS_Surjection
<1>4. IsFiniteSet(F)
  BY FilesFinite, FS_Subset
<1> HIDE DEF A, g, I
<1>5. Cardinality(F \union A) = Cardinality(F) + Cardinality(A) - Cardinality(F \cap A)
  BY <1>3, <1>4, FS_Union
<1>6. IsFiniteSet(F \cap A)
  BY <1>4, FS_Subset
<1>7. Cardinality(F) \in Nat /\ Cardinality(A) \in Nat /\ Cardinality(F \cap A) \in Nat
  BY <1>3, <1>4, <1>6, FS_CardinalityType
<1> QED
  BY <1>3, <1>5, <1>7 DEF A, I

\* An append leaves at most MaxBytes of committed files and those it could not
\* size (spool.go, Append; spool_stats.go): the records that recovery puts back
\* count before the batch is let in.
THEOREM AppendsFit == Spec => AppendWithinLimit
<1> DEFINE Fitting ==
              \A p \in Spools, n \in 1..BatchSize, m \in 0..MaxRecords, readable \in BOOLEAN :
                  \A k \in 1..n : AppendStored(p, n, k, m, readable)
                                    => Cardinality(disk'.files) <= MaxBytes + m
<1>1. ASSUME SpoolInv, NEW p \in Spools, NEW n \in 1..BatchSize, NEW m \in 0..MaxRecords,
             NEW readable \in BOOLEAN, NEW k \in 1..n, AppendStored(p, n, k, m, readable)
      PROVE  Cardinality(disk'.files) <= MaxBytes + m
  <2> DEFINE d == Maintained(disk)
  <2>1. stored \in Nat
    BY <1>1, SpoolAssumption DEF SpoolInv, TypeOK
  <2>2. /\ Cardinality(d.files) - m + n <= MaxBytes
        /\ disk' = [files |-> d.files \union
                                {[id |-> i, age |-> 0] : i \in (stored + 1)..(stored + k)},
                    claims |-> d.claims]
    BY <1>1 DEF AppendStored, Fits, Bytes
  <2>3. d \in Disk
    BY <1>1, MaintainedShrinks DEF SpoolInv, TypeOK, Shrinks
  <2> HIDE DEF d
  <2>4. d.files \in SUBSET File /\ k \in Nat /\ n \in Nat /\ k <= n /\ m \in Nat
    BY <2>3, SpoolAssumption DEF Disk
  <2>5. Cardinality(disk'.files) <= Cardinality(d.files) + k
    BY <2>1, <2>2, <2>4, BatchBytes
  <2>6. disk' \in Disk
    BY <1>1, AppendStoredStep DEF DiskStep
  <2>7. IsFiniteSet(d.files) /\ IsFiniteSet(disk'.files)
    BY <2>4, <2>6, FilesFinite, FS_Subset DEF Disk
  <2>8. Cardinality(d.files) \in Nat /\ Cardinality(disk'.files) \in Nat
    BY <2>7, FS_CardinalityType
  <2> QED
    BY <2>2, <2>4, <2>5, <2>8, SpoolAssumption
<1>2. SpoolInv /\ [Next]_vars => SpoolInv' /\ [Fitting]_vars
  BY <1>1, InvInductive
<1> QED
  BY <1>2, InitInv, PTL DEF Spec, AppendWithinLimit

-----------------------------------------------------------------------------
(* Exclusion: a record RecordFailure has not spoiled has one file at a     *)
(* time, so a worker whose claim has not turned stale has the only one.    *)
(* Claims are compared per record: no operation touches a file of another  *)
(* record, so equal pids do no harm here.                                  *)

Young(c) == c.age < ClaimTimeout

\* Record i has at most one file in directory d.
One(d, i) ==
    /\ \A f, g \in d.files : f.id = i /\ g.id = i => f = g
    /\ \A c, e \in d.claims : c.id = i /\ e.id = i => c = e
    /\ \A f \in d.files, c \in d.claims : ~ (f.id = i /\ c.id = i)

\* Whoever holds record i: a young claim is in the directory and nobody else
\* holds the record, and there is no other young file of it.
HeldOnce(i) ==
    \A p \in Spools : \A c \in worker[p].batch :
        c.id = i =>
            /\ Young(c) => /\ c \in disk.claims
                           /\ \A q \in Spools : \A e \in worker[q].batch : e.id = i => q = p
            /\ \A f \in disk.files : ~ (f.id = i /\ Young(f))
            /\ \A e \in disk.claims : e.id = i /\ Young(e) => e = c

ExclusionInv == SpoolInv /\ \A i \in Ids \ spoiled : One(disk, i) /\ HeldOnce(i)

\* Directory e is d after an operation that leaves the young claims of record i
\* alone and brings back no young file of it.
Gentle(d, e, i) ==
    /\ One(e, i)
    /\ \A c \in d.claims : c.id = i /\ Young(c) => c \in e.claims
    /\ \A c \in e.claims : c.id = i /\ Young(c) => c \in d.claims
    /\ \A f \in e.files : f.id = i /\ Young(f) => f \in d.files

\* Recovery touches stale claims only.
LEMMA RecoverGentle ==
    ASSUME NEW d \in Disk, NEW i, One(d, i), NEW S \in SUBSET StaleClaims(d)
    PROVE  Gentle(d, Recover(d, S), i)
<1> DEFINE back == IdsOf(S) \ IdsOf(d.files)
           restored == {RestoredFile(S, j) : j \in back}
<1>1. S \subseteq d.claims /\ \A c \in S : ~ Young(c)
  <2>1. \A c \in d.claims : c.age \in Nat
    BY SpoolAssumption DEF Disk, Claim, Ages
  <2> QED
    BY <2>1, SpoolAssumption DEF StaleClaims, Young
<1>2. ASSUME NEW j \in back
      PROVE  RestoredFile(S, j).id = j /\ ~ Young(RestoredFile(S, j))
  <2> DEFINE T == {c \in S : c.id = j}
  <2>1. T \in SUBSET Claim /\ T # {}
    BY <1>1 DEF Disk, IdsOf
  <2>2. First(T) \in T
    BY <2>1, FirstIsMember
  <2>3. ~ Young(First(T))
    BY <1>1, <2>2
  <2> QED
    BY <2>3 DEF RestoredFile, Young
<1>3. Recover(d, S) = [files |-> d.files \union restored, claims |-> d.claims \ S]
  BY DEF Recover
<1>4. \A f \in restored : f.id \in back /\ f = RestoredFile(S, f.id) /\ ~ Young(f)
  BY <1>2
<1>5. \A j \in back : \E c \in S : c.id = j
  BY DEF IdsOf
<1>6. \A j \in back : \A f \in d.files : f.id # j
  BY DEF IdsOf
<1> HIDE DEF back, restored
<1>7. ASSUME NEW f \in d.files \union restored, NEW g \in d.files \union restored,
             f.id = i, g.id = i
      PROVE  f = g
  BY <1>4, <1>6, <1>7 DEF One
<1>8. ASSUME NEW f \in d.files \union restored, NEW c \in d.claims \ S
      PROVE  ~ (f.id = i /\ c.id = i)
  BY <1>1, <1>4, <1>5 DEF One
<1>9. One(Recover(d, S), i)
  BY <1>3, <1>7, <1>8 DEF One
<1>10. \A f \in restored : ~ Young(f)
  BY <1>4
<1> QED
  BY <1>1, <1>3, <1>9, <1>10 DEF Gentle

\* Purging touches unclaimed files only.
LEMMA PurgeGentle ==
    ASSUME NEW c, NEW d, NEW i, NEW S, Gentle(c, d, i)
    PROVE  Gentle(c, Purge(d, S), i)
BY DEF Gentle, Purge, One

\* Maintenance leaves young claims alone, also when it stops half-way.
LEMMA MaintainedGentle ==
    ASSUME NEW d \in Disk, NEW i, One(d, i)
    PROVE  /\ Gentle(d, Maintained(d), i)
           /\ \A e \in Interrupted(d) : Gentle(d, e, i)
<1>1. Gentle(d, Recovered(d), i)
  BY RecoverGentle DEF Recovered
<1>2. \A S : Gentle(d, Purge(Recovered(d), S), i)
  BY <1>1, PurgeGentle
<1>3. \A S \in ClaimPrefixes(StaleClaims(d)) : Gentle(d, Recover(d, S), i)
  BY RecoverGentle DEF ClaimPrefixes
<1> QED
  BY <1>2, <1>3 DEF Maintained, Interrupted

\* A step that starts no work on record i and takes no young claim of it from
\* a worker that goes on.
LEMMA KeepStep ==
    ASSUME NEW i, HeldOnce(i),
           \A q \in Spools : \A c \in worker'[q].batch :
               c.id = i => c \in worker[q].batch /\ (Young(c) => c \in disk'.claims),
           \A c \in disk'.claims : c.id = i /\ Young(c) => c \in disk.claims,
           \A f \in disk'.files : f.id = i /\ Young(f) => f \in disk.files
    PROVE  HeldOnce(i)'
BY DEF HeldOnce, Young

\* A step that treats the directory gently and starts no work on record i.
LEMMA GentleStep ==
    ASSUME NEW i, HeldOnce(i), Gentle(disk, disk', i),
           \A q \in Spools : \A c \in worker'[q].batch : c.id = i => c \in worker[q].batch
    PROVE  One(disk, i)' /\ HeldOnce(i)'
<1>1. \A q \in Spools : \A c \in worker'[q].batch :
          c.id = i => c \in worker[q].batch /\ (Young(c) => c \in disk'.claims)
  BY DEF HeldOnce, Gentle
<1>2. HeldOnce(i)'
  BY <1>1, KeepStep DEF Gentle
<1> QED
  BY <1>2 DEF Gentle, One

\* An append writes files of records that had none.
LEMMA AppendExcludes ==
    ASSUME ExclusionInv, NEW p \in Spools, NEW n \in 1..BatchSize, NEW k \in 0..n,
           NEW m \in 0..MaxRecords, NEW readable \in BOOLEAN,
           AppendStored(p, n, k, m, readable), NEW i \in Ids \ spoiled
    PROVE  One(disk, i)' /\ HeldOnce(i)'
<1> DEFINE d == Maintained(disk)
           new == (stored + 1)..(stored + k)
           added == {[id |-> j, age |-> 0] : j \in new}
<1>1. disk \in Disk /\ stored \in Nat /\ k \in Nat
  BY SpoolAssumption DEF ExclusionInv, SpoolInv, TypeOK
<1>2. Gentle(disk, d, i) /\ Held(d) \subseteq Held(disk)
  BY <1>1, MaintainedGentle, MaintainedShrinks DEF ExclusionInv, Shrinks
<1>3. disk' = [files |-> d.files \union added, claims |-> d.claims] /\ worker' = worker
  BY DEF AppendStored
<1>4. \A f \in added : f.id \in new /\ f = [id |-> f.id, age |-> 0]
  OBVIOUS
<1>5. \A j \in new : j \notin 1..stored
  BY <1>1
<1>6. Held(disk) \subseteq 1..stored /\ \A q \in Spools : \A c \in worker[q].batch : c.id \in 1..stored
  BY DEF ExclusionInv, SpoolInv, OnlyStored, IdsOf
<1>7. \A x \in d.files \union d.claims : x.id \in 1..stored
  BY <1>2, <1>6 DEF Held, IdsOf
<1> HIDE DEF d, new, added
<1>8. CASE i \in new
  <2>1. \A x \in d.files \union d.claims : x.id # i
    BY <1>5, <1>7, <1>8
  <2>2. One(disk, i)'
    BY <1>3, <1>4, <2>1 DEF One
  <2>3. HeldOnce(i)'
    BY <1>3, <1>5, <1>6, <1>8 DEF HeldOnce
  <2> QED
    BY <2>2, <2>3
<1>9. CASE i \notin new
  <2>1. \A f \in added : f.id # i
    BY <1>4, <1>9
  <2>2. One(d, i)
    BY <1>2 DEF Gentle
  <2>3. One(disk', i)
    BY <1>3, <2>1, <2>2 DEF One
  <2>4. Gentle(disk, disk', i)
    BY <1>2, <1>3, <2>1, <2>3 DEF Gentle
  <2> QED
    BY <1>3, <2>4, GentleStep DEF ExclusionInv
<1> QED
  BY <1>8, <1>9

\* A claim renames the only file of a record, so it replaces no claim of it.
LEMMA ClaimExcludes ==
    ASSUME ExclusionInv, NEW p \in Spools, NEW S \in SUBSET Ids, NEW ok \in BOOLEAN,
           NextBatch(p, S, ok), NEW i \in Ids \ spoiled
    PROVE  One(disk, i)' /\ HeldOnce(i)'
<1> DEFINE d == Maintained(disk)
           C == ClaimsOf(p, d, S)
           files == {f \in d.files : f.id \notin IdsOf(C)}
           kept == {c \in d.claims : \A n \in C : ~ SamePath(c, n)}
           claim(f) == [id |-> f.id, pid |-> Pid[p],
                        seq |-> (seq[p] + Cardinality({j \in S : j <= f.id})) % SeqMod,
                        age |-> f.age]
<1>1. disk \in Disk /\ worker \in [Spools -> WorkerState]
  BY DEF ExclusionInv, SpoolInv, TypeOK
<1>2. Gentle(disk, d, i) /\ One(d, i) /\ HeldOnce(i)
  BY <1>1, MaintainedGentle DEF ExclusionInv, Gentle
<1>3. C = {claim(f) : f \in {g \in d.files : g.id \in S}}
  BY DEF ClaimsOf
<1>4. \A c \in C : \E f \in d.files : c = claim(f) /\ c.id = f.id /\ c.age = f.age
  <2>1. \A f \in d.files : claim(f).id = f.id /\ claim(f).age = f.age
    OBVIOUS
  <2> HIDE DEF claim, C
  <2> QED
    BY <1>3, <2>1
<1>5. disk' = [files |-> files, claims |-> kept \union C]
  BY DEF NextBatch, ClaimAll
<1>6. \/ worker' = [worker EXCEPT ![p] = [pc |-> "writing", batch |-> C, age |-> 0]]
      \/ worker' = worker
  BY <1>1 DEF NextBatch
<1>7. \A q \in Spools : \/ worker'[q].batch = worker[q].batch
                        \/ q = p /\ worker'[q].batch = C
  BY <1>1, <1>6
<1> HIDE DEF C, claim, d
<1>8. \A f \in files : f \in d.files /\ \A c \in C : f.id # c.id
  BY DEF IdsOf
<1>9. \A c \in d.claims : (\A n \in C : n.id # c.id) => c \in kept
  BY DEF SamePath
<1>10. kept \subseteq d.claims
  OBVIOUS
<1> HIDE DEF kept, files
<1>11. CASE \E f \in d.files, c \in C : c = claim(f) /\ c.id = i /\ f.id = i /\ c.age = f.age
  <2>1. PICK f \in d.files, c \in C : c = claim(f) /\ c.id = i /\ f.id = i /\ c.age = f.age
    BY <1>11
  <2>2. \A e \in kept \union C : e.id = i => e = c
    BY <1>2, <1>4, <1>10, <2>1 DEF One
  <2>3. \A g \in files : g.id # i
    BY <1>8, <2>1
  <2>4. One(disk, i)'
    BY <1>5, <2>2, <2>3 DEF One
  <2>5. Young(c) => \A q \in Spools : \A e \in worker[q].batch : e.id # i
    <3>1. Young(c) => f \in disk.files /\ f.id = i /\ Young(f)
      BY <1>2, <2>1 DEF Gentle, Young
    <3> QED
      BY <1>2, <3>1 DEF HeldOnce
  <2>6. \A q \in Spools : \A e \in worker[q].batch : e.id = i => ~ Young(e)
    <3>1. \A e \in d.claims : e.id # i
      BY <1>2, <2>1 DEF One
    <3> QED
      BY <1>2, <3>1 DEF HeldOnce, Gentle
  <2>7. ASSUME NEW q \in Spools, NEW e \in worker'[q].batch, e.id = i
        PROVE  /\ Young(e) => /\ e \in disk'.claims
                              /\ \A r \in Spools : \A b \in worker'[r].batch : b.id = i => r = q
               /\ \A g \in disk'.files : ~ (g.id = i /\ Young(g))
               /\ \A b \in disk'.claims : b.id = i /\ Young(b) => b = e
    <3>1. \A g \in disk'.files : ~ (g.id = i /\ Young(g))
      BY <1>5, <2>3
    <3>2. \A b \in disk'.claims : b.id = i => b = c
      BY <1>5, <2>2
    <3>3. CASE e \in worker[q].batch
      BY <2>5, <2>6, <2>7, <3>1, <3>2, <3>3
    <3>4. CASE q = p /\ worker'[q].batch = C
      <4>1. e = c
        BY <2>2, <2>7, <3>4
      <4>2. c \in disk'.claims
        BY <1>5
      <4>3. Young(c) => \A r \in Spools : \A b \in worker'[r].batch : b.id = i => r = q
        BY <1>7, <2>5, <3>4
      <4> QED
        BY <3>1, <3>2, <4>1, <4>2, <4>3
    <3> QED
      BY <1>7, <2>7, <3>3, <3>4
  <2>8. HeldOnce(i)'
    BY <2>7 DEF HeldOnce, Young
  <2> QED
    BY <2>4, <2>8
<1>12. CASE \A c \in C : c.id # i
  <2>1. \A e \in kept \union C : e.id = i => e \in d.claims
    BY <1>10, <1>12
  <2>2. \A e \in d.claims : e.id = i => e \in kept
    BY <1>9, <1>12
  <2>3. One(disk', i)
    BY <1>2, <1>5, <1>8, <2>1 DEF One
  <2>4. Gentle(disk, disk', i)
    BY <1>2, <1>5, <1>8, <2>1, <2>2, <2>3 DEF Gentle
  <2>5. \A q \in Spools : \A c \in worker'[q].batch : c.id = i => c \in worker[q].batch
    BY <1>7, <1>12
  <2> QED
    BY <1>2, <2>4, <2>5, GentleStep
<1> QED
  BY <1>4, <1>11, <1>12

\* A worker that finishes removes no young claim another worker holds.
LEMMA FinishStep ==
    ASSUME ExclusionInv, NEW p \in Spools, NEW T \in SUBSET worker[p].batch,
           worker' = [worker EXCEPT ![p] = IdleWorker], NEW i \in Ids \ spoiled,
           disk'.claims = disk.claims \ FilesOf(T),
           \A f \in disk'.files : f.id = i => f \in disk.files
    PROVE  One(disk, i)' /\ HeldOnce(i)'
<1>1. worker \in [Spools -> WorkerState] /\ One(disk, i) /\ HeldOnce(i)
  BY DEF ExclusionInv, SpoolInv, TypeOK
<1>2. \A q \in Spools : \/ q # p /\ worker'[q] = worker[q]
                        \/ q = p /\ worker'[q].batch = {}
  BY <1>1 DEF IdleWorker
<1>3. ASSUME NEW q \in Spools, NEW c \in worker'[q].batch, c.id = i
      PROVE  c \in worker[q].batch /\ (Young(c) => c \in disk'.claims)
  <2>1. q # p /\ c \in worker[q].batch
    BY <1>2, <1>3
  <2>2. ASSUME Young(c) PROVE c \in disk.claims /\ c \notin FilesOf(T)
    <3>1. c \in disk.claims /\ \A e \in worker[p].batch : e.id # i
      BY <1>1, <1>3, <2>1, <2>2 DEF HeldOnce
    <3> QED
      BY <1>3, <3>1 DEF FilesOf, SamePath
  <2> QED
    BY <2>1, <2>2
<1>4. HeldOnce(i)'
  BY <1>1, <1>3, KeepStep
<1>5. One(disk, i)'
  BY <1>1 DEF One
<1> QED
  BY <1>4, <1>5

\* RecordFailure gives a record one committed file and removes its claim,
\* unless it spoils the record.
LEMMA FailureExcludes ==
    ASSUME ExclusionInv, NEW p \in Spools, NEW T \in SUBSET worker[p].batch,
           NEW last \in SUBSET worker[p].batch, RecordFailure(p, T, last),
           NEW i \in Ids \ spoiled'
    PROVE  One(disk, i)' /\ HeldOnce(i)'
<1> DEFINE ids == IdsOf(T \union last)
           kept == {f \in disk.files : f.id \notin ids}
           rewritten == {[id |-> j, age |-> 0] : j \in ids}
<1>1. /\ disk' = [files |-> kept \union rewritten, claims |-> disk.claims \ FilesOf(T)]
      /\ worker' = [worker EXCEPT ![p] = IdleWorker]
  BY DEF RecordFailure
<1>2. /\ i \in Ids \ spoiled /\ One(disk, i) /\ HeldOnce(i)
      /\ worker \in [Spools -> WorkerState]
  BY DEF ExclusionInv, SpoolInv, TypeOK, RecordFailure
<1> HIDE DEF ids
<1>3. \A f \in rewritten : f.id \in ids /\ f = [id |-> f.id, age |-> 0]
  OBVIOUS
<1>4. \A f \in kept : f \in disk.files /\ f.id \notin ids
  OBVIOUS
<1> HIDE DEF kept, rewritten
<1>5. CASE i \notin ids
  BY <1>1, <1>2, <1>3, <1>4, <1>5, FinishStep
<1>6. CASE i \in ids
  <2>1. PICK c \in T : c.id = i
    BY <1>6 DEF IdsOf, RecordFailure, ids
  <2>2. Young(c)
    <3>1. c.age \in Nat
      BY <1>2, SpoolAssumption DEF WorkerState, Claim, Ages
    <3>2. ~ (c.age >= ClaimTimeout)
      BY <2>1 DEF IdsOf, RecordFailure
    <3> QED
      BY <3>1, <3>2, SpoolAssumption DEF Young
  <2>3. c \in disk.claims /\ \A q \in Spools : \A e \in worker[q].batch : e.id = i => q = p
    BY <1>2, <2>1, <2>2 DEF HeldOnce
  <2>4. \A q \in Spools : \A e \in worker'[q].batch : e.id # i
    BY <1>1, <1>2, <2>3 DEF IdleWorker
  <2>5. HeldOnce(i)'
    BY <2>4 DEF HeldOnce
  <2>6. c \in FilesOf(T)
    BY <2>3 DEF FilesOf, SamePath
  <2>7. \A e \in disk'.claims : e.id # i
    BY <1>1, <1>2, <2>1, <2>3, <2>6 DEF One
  <2>8. One(disk, i)'
    BY <1>1, <1>3, <1>4, <1>6, <2>7 DEF One
  <2> QED
    BY <2>5, <2>8
<1> QED
  BY <1>5, <1>6

\* Growing older keeps one file per record, and no claim gets younger.
LEMMA TickExcludes ==
    ASSUME ExclusionInv, Tick, NEW i \in Ids \ spoiled
    PROVE  One(disk, i)' /\ HeldOnce(i)'
<1> DEFINE older(c) == [c EXCEPT !.age = Older(@)]
<1>1. disk.files \in SUBSET File /\ disk.claims \in SUBSET Claim /\ One(disk, i) /\ HeldOnce(i)
  BY DEF ExclusionInv, SpoolInv, TypeOK, Disk
<1>2. \A f \in File : older(f).id = f.id /\ older(f).age = Older(f.age)
  BY DEF File
<1>3. \A c \in Claim : older(c).id = c.id /\ older(c).age = Older(c.age)
  BY DEF Claim
<1>4. /\ \A c \in Claim : Young(older(c)) => Young(c)
      /\ \A f \in File : Young(older(f)) => Young(f)
  <2>1. \A a \in Ages : Older(a) < ClaimTimeout => a < ClaimTimeout
    BY SpoolAssumption DEF Ages, Older
  <2> HIDE DEF older
  <2> QED
    BY <1>2, <1>3, <2>1 DEF Young, Claim, File
<1>5. \A S : AgeAll(S) = {older(c) : c \in S}
  BY DEF AgeAll
<1>6. /\ disk'.files = {older(f) : f \in disk.files}
      /\ disk'.claims = {older(c) : c \in disk.claims}
      /\ \A p \in Spools : worker'[p].batch = {older(c) : c \in worker[p].batch}
  BY <1>5 DEF Tick
<1>7. \A p \in Spools : worker[p].batch \in SUBSET Claim
  BY DEF ExclusionInv, SpoolInv, TypeOK, WorkerState
<1> HIDE DEF older
<1>8. One(disk, i)'
  BY <1>1, <1>2, <1>3, <1>6 DEF One
<1>9. ASSUME NEW p \in Spools, NEW c \in worker'[p].batch, c.id = i
      PROVE  /\ Young(c) => /\ c \in disk'.claims
                            /\ \A q \in Spools : \A e \in worker'[q].batch : e.id = i => q = p
             /\ \A f \in disk'.files : ~ (f.id = i /\ Young(f))
             /\ \A e \in disk'.claims : e.id = i /\ Young(e) => e = c
  <2>1. PICK b \in worker[p].batch : c = older(b) /\ b.id = i
    BY <1>3, <1>6, <1>7, <1>9
  <2>2. /\ Young(b) => /\ b \in disk.claims
                       /\ \A q \in Spools : \A e \in worker[q].batch : e.id = i => q = p
        /\ \A f \in disk.files : ~ (f.id = i /\ Young(f))
        /\ \A e \in disk.claims : e.id = i /\ Young(e) => e = b
    BY <1>1, <2>1 DEF HeldOnce
  <2>3. Young(c) => Young(b)
    BY <1>4, <1>7, <2>1
  <2>4. \A f \in disk'.files : ~ (f.id = i /\ Young(f))
    BY <1>1, <1>2, <1>4, <1>6, <2>2
  <2>5. \A e \in disk'.claims : e.id = i /\ Young(e) => e = c
    BY <1>1, <1>3, <1>4, <1>6, <2>1, <2>2
  <2>6. Young(c) => \A q \in Spools : \A e \in worker'[q].batch : e.id = i => q = p
    BY <1>3, <1>6, <1>7, <2>2, <2>3
  <2>7. Young(c) => c \in disk'.claims
    BY <1>6, <2>1, <2>2, <2>3
  <2> QED
    BY <2>4, <2>5, <2>6, <2>7
<1>10. HeldOnce(i)'
  BY <1>9 DEF HeldOnce, Young
<1> QED
  BY <1>8, <1>10

\* No record has a file and no worker has a batch at the start.
LEMMA ExclusionInit == Init => ExclusionInv
BY InitInv DEF Init, ExclusionInv, One, HeldOnce, IdleWorker

\* Every step leaves each worker the young claims of its batch.
LEMMA ExclusionStep ==
    ASSUME ExclusionInv, [Next]_vars
    PROVE  ExclusionInv'
<1>1. SpoolInv'
  BY InvInductive DEF ExclusionInv
<1> SUFFICES ASSUME NEW i \in Ids \ spoiled' PROVE One(disk, i)' /\ HeldOnce(i)'
  BY <1>1 DEF ExclusionInv
<1> DEFINE Kept == One(disk, i)' /\ HeldOnce(i)'
<1>2. disk \in Disk /\ worker \in [Spools -> WorkerState]
  BY DEF ExclusionInv, SpoolInv, TypeOK
<1>3. ASSUME NEW p \in Spools, NEW T \in SUBSET worker[p].batch,
             NEW last \in SUBSET worker[p].batch, RecordFailure(p, T, last)
      PROVE  Kept
  BY <1>3, FailureExcludes
<1>4. (\A p \in Spools : \A T, last \in SUBSET worker[p].batch : ~ RecordFailure(p, T, last))
        => spoiled' = spoiled
  BY DEF Next, vars, Append, AppendStored, AppendRejected, MaintenanceFailed, Stats, Replay,
     NextBatch, ReplaySucceeded, ReplayFailed, Ack, Restart, Tick
<1>5. CASE spoiled' = spoiled
  <2>1. i \in Ids \ spoiled /\ One(disk, i) /\ HeldOnce(i)
    BY <1>5 DEF ExclusionInv
  <2>2. Gentle(disk, disk, i)
    BY <2>1 DEF Gentle
  <2>3. ASSUME UNCHANGED worker, disk' = disk \/ Gentle(disk, disk', i)
        PROVE  Kept
    BY <2>1, <2>2, <2>3, GentleStep
  <2>4. ASSUME NEW p \in Spools, Append(p) PROVE Kept
    <3>1. ASSUME NEW n \in 1..BatchSize, NEW m \in 0..MaxRecords, NEW readable \in BOOLEAN,
                 AppendRejected(p, n, m, readable)
          PROVE  Kept
      BY <1>2, <2>1, <2>3, <3>1, MaintainedGentle DEF AppendRejected
    <3> QED
      BY <2>1, <2>4, <3>1, AppendExcludes DEF Append
  <2>5. ASSUME NEW p \in Spools, Stats(p) PROVE Kept
    <3>1. PICK S \in ClaimPrefixes(StaleClaims(disk)) : \E E : disk' = Purge(Recover(disk, S), E)
      BY <2>5 DEF Stats
    <3>2. Gentle(disk, Recover(disk, S), i)
      BY <1>2, <2>1, RecoverGentle DEF ClaimPrefixes
    <3>3. Gentle(disk, disk', i)
      BY <3>1, <3>2, PurgeGentle
    <3> QED
      BY <2>3, <2>5, <3>3 DEF Stats
  <2>6. ASSUME NEW p \in Spools, Replay(p) PROVE Kept
    <3>1. ASSUME ReplaySucceeded(p) \/ ReplayFailed(p) PROVE Kept
      <4>1. disk' = disk /\ \A q \in Spools : worker'[q].batch = worker[q].batch
        BY <1>2, <3>1 DEF ReplaySucceeded, ReplayFailed, WorkerState
      <4> QED
        BY <2>1, <2>2, <4>1, GentleStep
    <3>2. ASSUME NEW T \in SUBSET worker[p].batch, Ack(p, T) PROVE Kept
      BY <2>1, <3>2, FinishStep DEF Ack
    <3> QED
      BY <1>3, <2>1, <2>6, <3>1, <3>2, ClaimExcludes DEF Replay
  <2>7. ASSUME NEW p \in Spools, Restart(p) PROVE Kept
    <3>1. /\ disk' = disk
          /\ \A q \in Spools : worker'[q].batch = worker[q].batch \/ worker'[q].batch = {}
      BY <1>2, <2>7 DEF Restart, IdleWorker
    <3> QED
      BY <2>1, <2>2, <3>1, GentleStep
  <2>8. ASSUME MaintenanceFailed PROVE Kept
    BY <1>2, <2>1, <2>3, <2>8, MaintainedGentle DEF MaintenanceFailed
  <2>9. ASSUME Tick PROVE Kept
    BY <2>1, <2>9, TickExcludes
  <2>10. ASSUME UNCHANGED vars PROVE Kept
    BY <2>3, <2>10 DEF vars
  <2> QED
    BY <2>4, <2>5, <2>6, <2>7, <2>8, <2>9, <2>10 DEF Next
<1> QED
  BY <1>3, <1>4, <1>5

\* Two workers hold no young claim of an unspoiled record in common.
LEMMA ExclusionFromInv ==
    ASSUME ExclusionInv PROVE YoungClaimExclusive
<1> SUFFICES ASSUME NEW p \in Spools, NEW q \in Spools, NEW c \in worker[p].batch,
                    NEW d \in worker[q].batch, p # q, c.id = d.id, c.id \notin spoiled
             PROVE  c.age >= ClaimTimeout /\ d.age >= ClaimTimeout
  BY DEF YoungClaimExclusive
<1>1. c \in Claim /\ d \in Claim
  BY DEF ExclusionInv, SpoolInv, TypeOK, WorkerState
<1>2. HeldOnce(c.id) /\ c.age \in Nat /\ d.age \in Nat
  BY <1>1, SpoolAssumption DEF ExclusionInv, Claim, Ages
<1>3. ~ Young(c) /\ ~ Young(d)
  BY <1>2 DEF HeldOnce
<1> QED
  BY <1>2, <1>3, SpoolAssumption DEF Young

\* Two workers hold the same record only when both claims are of a file as old
\* as ClaimTimeout, for any number of processes, whatever their pids and
\* whatever is cut short (spool_claims.go), but for the records RecordFailure
\* wrote back too late or could not remove the claim of.
THEOREM YoungClaimsExclude == Spec => []YoungClaimExclusive
<1>1. ExclusionInv /\ [Next]_vars => ExclusionInv'
  BY ExclusionStep
<1>2. ExclusionInv => YoungClaimExclusive
  BY ExclusionFromInv
<1> QED
  BY <1>1, <1>2, ExclusionInit, PTL DEF Spec
=============================================================================
