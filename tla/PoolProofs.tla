----------------------------- MODULE PoolProofs ------------------------------
(***************************************************************************)
(* Theorems about Pool, for every value of its constants: the types, then  *)
(* the safety of stored slices - the inductive invariant Inv, the three    *)
(* invariants it implies, and the refinement of ObjectStore - and last     *)
(* that parity catches up and purged data are erased (Synced, Settled).    *)
(***************************************************************************)
EXTENDS Pool, TLAPS

(* The slot of a request is a chunk once it has one.                       *)
WriterSlots == \A w \in Writers : wr[w].pc # "idle" => wr[w].slot \in Slot
Typed == TypeOK /\ WriterSlots

(* Pure facts about the constants and the helpers.                         *)
LEMMA SlotFacts ==
    /\ Nil \notin Slot
    /\ \A s \in Stripe : <<s, 0>> \in Slot
    /\ \A c \in Slot : StripeOf(c) \in Stripe /\ c = <<c[1], c[2]>>
    /\ \A p \in Parity : StripeOf(p) \in Stripe
  BY ShapeAssumption, SentinelAssumption DEF Slot, Stripe, Shard, Parity, StripeOf

LEMMA PathFacts ==
    ASSUME TypeOK, NEW c \in Slot
    PROVE  PathOf(c) \in Path
  BY DEF PathOf, Path, TypeOK

(* The initial tables, disks and goroutines are well formed.               *)
LEMMA InitTyped == Init => Typed
  BY ShapeAssumption, SentinelAssumption
     DEF Init, Typed, TypeOK, WriterSlots, Stored, Status, Vector, WriterState,
         IdleWriter, WriterPc, ReleaserState, IdleReleaser

LEMMA IdleWriterTyped == IdleWriter \in WriterState /\ IdleWriter.pc = "idle"
  BY DEF IdleWriter, WriterState, WriterPc

LEMMA IdleReleaserTyped == IdleReleaser \in ReleaserState
  BY DEF IdleReleaser, ReleaserState

(* Advancing a request keeps its record well formed.                       *)
LEMMA AdvanceTyped ==
    ASSUME Typed, NEW w \in Writers, NEW pc \in WriterPc, wr[w].slot \in Slot, Advance(w, pc)
    PROVE  /\ wr' \in [Writers -> WriterState]
           /\ \A u \in Writers : wr'[u].pc # "idle" => wr'[u].slot \in Slot
  BY DEF Typed, TypeOK, WriterSlots, Advance, WriterState

LEMMA ResetTyped ==
    ASSUME Typed, NEW w \in Writers, wr' = [wr EXCEPT ![w] = IdleWriter]
    PROVE  /\ wr' \in [Writers -> WriterState]
           /\ \A u \in Writers : wr'[u].pc # "idle" => wr'[u].slot \in Slot
  BY IdleWriterTyped DEF Typed, TypeOK, WriterSlots

LEMMA EnqueueTyped ==
    ASSUME TypeOK, NEW c \in Slot, NEW m \in Mark, Enqueue(c, m)
    PROVE  wq' \in SUBSET QueueRow
  BY DEF TypeOK, Enqueue, QueueRow

LEMMA FlushTyped ==
    ASSUME TypeOK, NEW C \in SUBSET Slot, Flush(C)
    PROVE  /\ wq' \in SUBSET QueueRow
           /\ pend' \in SUBSET Stripe
           /\ hash' \in [Slot -> Stored \cup {Nil}]
<1>1. \A pr \in DonePairs(C) : pr[1].chunk \in Slot
  BY DEF DonePairs, TypeOK, QueueRow
<1>2. wq' \subseteq wq
  BY DEF Flush
<1>3. pend' \in SUBSET Stripe
  BY <1>1, SlotFacts DEF Flush, TypeOK
<1>4. \A c \in Slot : file[PathOf(c)] \in Stored \cup {Nil}
  BY PathFacts DEF TypeOK
<1>5. hash' \in [Slot -> Stored \cup {Nil}]
  BY <1>4 DEF Flush, TypeOK
<1> QED
  BY <1>2, <1>3, <1>5 DEF TypeOK

-----------------------------------------------------------------------------
(* Type correctness, one lemma per group of actions.                       *)

LEMMA AllocateTyped ==
    ASSUME Typed, NEW w \in Writers, Allocate(w)
    PROVE  Typed'
<1> USE DEF Typed
<1>1. PICK o \in Objects, v \in Data :
          \/ \E c \in Slot : Reuse(w, c, o, v)
          \/ \E s \in Stripe : NewStripe(w, s, o, v)
  BY DEF Allocate
<1>2. CASE \E c \in Slot : Reuse(w, c, o, v)
  <2>1. PICK c \in Slot : Reuse(w, c, o, v)
    BY <1>2
  <2>2. PathOf(c) \in Path
    BY PathFacts
  <2>3. /\ status' \in [Slot -> Status] /\ hash' \in [Slot -> Stored \cup {Nil}]
        /\ UNCHANGED <<pstatus, aged>>
    BY <2>1 DEF Reuse, TypeOK, Status, Stored
  <2>4. wr' \in [Writers -> WriterState] /\ WriterSlots'
    BY <2>1, <2>2 DEF Reuse, TypeOK, WriterSlots, WriterState, WriterPc
  <2> QED
    BY <2>3, <2>4 DEF Allocate, TypeOK, unchangedByWriters, workerVars
<1>3. CASE \E s \in Stripe : NewStripe(w, s, o, v)
  <2>1. PICK s \in Stripe : NewStripe(w, s, o, v)
    BY <1>3
  <2>2. <<s, 0>> \in Slot /\ PathOf(<<s, 0>>) \in Path
    BY PathFacts, SlotFacts
  <2>3. /\ status' \in [Slot -> Status] /\ hash' \in [Slot -> Stored \cup {Nil}]
        /\ pstatus' \in [Parity -> Status] /\ UNCHANGED aged
    BY <2>1, <2>2 DEF NewStripe, TypeOK, Status, Stored
  <2>4. wr' \in [Writers -> WriterState] /\ WriterSlots'
    BY <2>1, <2>2 DEF NewStripe, TypeOK, WriterSlots, WriterState, WriterPc
  <2> QED
    BY <2>3, <2>4 DEF Allocate, TypeOK, unchangedByWriters, workerVars
<1> QED
  BY <1>1, <1>2, <1>3

LEMMA WriterStepTyped ==
    ASSUME Typed, NEW w \in Writers, WriterStep(w)
    PROVE  Typed'
<1> USE DEF Typed
<1>w. wr[w] \in WriterState /\ (wr[w].pc # "idle" => wr[w].slot \in Slot)
  BY DEF TypeOK, WriterSlots
<1>1. CASE UpdateMetadata(w)
  <2>1. wr' \in [Writers -> WriterState] /\ WriterSlots'
    BY <1>1, <1>w, AdvanceTyped DEF UpdateMetadata, WriterSlots, WriterPc
  <2>2. status' \in [Slot -> Status] /\ hash' \in [Slot -> Stored \cup {Nil}]
    BY <1>1, <1>w DEF UpdateMetadata, TypeOK, Status, Stored, WriterState
  <2> QED
    BY <1>1, <2>1, <2>2 DEF UpdateMetadata, TypeOK, unchangedByWriters, workerVars
<1>2. CASE Intend(w)
  <2>1. wr' \in [Writers -> WriterState] /\ WriterSlots'
    BY <1>2, <1>w, AdvanceTyped DEF Intend, WriterSlots, WriterPc
  <2>2. wq' \in SUBSET QueueRow
    BY <1>2, <1>w, EnqueueTyped DEF Intend, Mark
  <2> QED
    BY <1>2, <2>1, <2>2 DEF Intend, TypeOK, unchangedByWriters, workerVars
<1>3. CASE OpenFile(w)
  <2>1. wr' \in [Writers -> WriterState] /\ WriterSlots'
    BY <1>3, <1>w, AdvanceTyped DEF OpenFile, WriterSlots, WriterPc
  <2>2. file' \in [Path -> Stored \cup {Nil}]
    BY <1>3 DEF OpenFile, TypeOK, Stored
  <2> QED
    BY <1>3, <2>1, <2>2 DEF OpenFile, TypeOK, unchangedByWriters, workerVars
<1>4. CASE CompleteFile(w)
  <2>1. wr' \in [Writers -> WriterState] /\ WriterSlots'
    BY <1>4, <1>w, AdvanceTyped DEF CompleteFile, WriterSlots, WriterPc
  <2>2. file' \in [Path -> Stored \cup {Nil}]
    BY <1>4, <1>w DEF CompleteFile, TypeOK, Stored, WriterState
  <2> QED
    BY <1>4, <2>1, <2>2 DEF CompleteFile, TypeOK, unchangedByWriters, workerVars
<1>5. CASE FailFile(w)
  <2>1. wr' \in [Writers -> WriterState] /\ WriterSlots'
    BY <1>5, <1>w DEF FailFile, TypeOK, WriterSlots, WriterState, WriterPc
  <2> QED
    BY <1>5, <2>1 DEF FailFile, TypeOK, dbVars, workerVars
<1>6. CASE Record(w)
  <2>1. wr' \in [Writers -> WriterState] /\ WriterSlots'
    BY <1>6, <1>w, AdvanceTyped DEF Record, WriterSlots, WriterPc
  <2>2. wq' \in SUBSET QueueRow
    BY <1>6, <1>w, EnqueueTyped DEF Record, Mark
  <2> QED
    BY <1>6, <2>1, <2>2 DEF Record, TypeOK, unchangedByWriters, workerVars
<1>7. CASE FlushOwn(w)
  <2>1. wr' \in [Writers -> WriterState] /\ WriterSlots'
    BY <1>7, <1>w, AdvanceTyped, ResetTyped DEF FlushOwn, WriterSlots, WriterPc
  <2>2. /\ wq' \in SUBSET QueueRow /\ pend' \in SUBSET Stripe
        /\ hash' \in [Slot -> Stored \cup {Nil}]
    BY <1>7, <1>w, FlushTyped DEF FlushOwn
  <2> QED
    BY <1>7, <2>1, <2>2 DEF FlushOwn, TypeOK, unchangedByWriters, workerVars
<1>8. CASE PutRef(w) \/ Inherit(w)
  <2>1. wr' \in [Writers -> WriterState] /\ WriterSlots'
    BY <1>8, ResetTyped DEF PutRef, Inherit, WriterSlots
  <2>2. ref' \in [Objects -> Slot \cup {Nil}] /\ refHash' \in [Objects -> Data \cup {Nil}]
    BY <1>8, <1>w DEF PutRef, Inherit, TypeOK, WriterState
  <2> QED
    BY <1>8, <2>1, <2>2 DEF PutRef, Inherit, TypeOK, unchangedByWriters, workerVars
<1>9. CASE FailStatement(w)
  <2>1. wr' \in [Writers -> WriterState] /\ WriterSlots'
    BY <1>9, ResetTyped DEF FailStatement, WriterSlots
  <2> QED
    BY <1>9, <2>1 DEF FailStatement, TypeOK, dbVars, workerVars
<1> QED
  BY <1>1, <1>2, <1>3, <1>4, <1>5, <1>6, <1>7, <1>8, <1>9 DEF WriterStep

LEMMA ReadTyped ==
    ASSUME Typed, NEW w \in Writers, LoadForOverwrite(w) \/ ReadSnapshot(w)
    PROVE  Typed'
<1> USE DEF Typed
<1>1. CASE LoadForOverwrite(w)
  <2>1. wr' \in [Writers -> WriterState] /\ WriterSlots'
    BY <1>1, PathFacts DEF LoadForOverwrite, TypeOK, WriterSlots, WriterState, WriterPc
  <2> QED
    BY <1>1, <2>1 DEF LoadForOverwrite, TypeOK, dbVars, workerVars
<1>2. CASE ReadSnapshot(w)
  <2>1. wr' \in [Writers -> WriterState] /\ WriterSlots'
    BY <1>2 DEF ReadSnapshot, TypeOK, WriterSlots, WriterState, WriterPc
  <2> QED
    BY <1>2, <2>1 DEF ReadSnapshot, TypeOK, dbVars, workerVars
<1> QED
  BY <1>1, <1>2

LEMMA WorkerStepTyped ==
    ASSUME Typed, WorkerStep
    PROVE  Typed'
<1> USE DEF Typed
<1>a. WriterSlots' <=> WriterSlots
  BY DEF WorkerStep, Claim, LoadMeta, CommitBatch, AbandonBatch, ReadShard, WriteParity,
         unchangedByWorker, WriterSlots
<1>b. \A s \in Stripe : Encoded(s) \in Vector
  BY DEF Encoded, Vector, TypeOK, Slot
<1>c. LeaveBatch => /\ kpc' \in {"idle", "claimed", "computing"}
                    /\ kbatch' \in SUBSET Stripe /\ kjob' \in SUBSET Stripe
                    /\ kpath' \in [Slot -> Path \cup {Nil}]
                    /\ kgot' \in [Slot -> Stored \cup {Nil}]
                    /\ kput' \in [Parity -> {"todo", "open", "done"}]
  BY DEF LeaveBatch
<1>1. CASE Claim
  BY <1>1, <1>a DEF Claim, TypeOK, unchangedByWorker
<1>2. CASE LoadMeta
  <2>1. kpath' \in [Slot -> Path \cup {Nil}]
    BY <1>2, PathFacts DEF LoadMeta
  <2> QED
    BY <1>2, <2>1, <1>a DEF LoadMeta, TypeOK, unchangedByWorker
<1>3. CASE CommitBatch
  <2>1. pstatus' \in [Parity -> Status] /\ phash' \in [Parity -> Vector \cup {Nil}]
    BY <1>3, <1>b, SlotFacts DEF CommitBatch, TypeOK, Status
  <2> QED
    BY <1>3, <2>1, <1>a, <1>c DEF CommitBatch, TypeOK, unchangedByWorker
<1>4. CASE AbandonBatch
  BY <1>4, <1>a, <1>c DEF AbandonBatch, TypeOK, unchangedByWorker
<1>5. ASSUME NEW c \in Slot, ReadShard(c)
      PROVE  Typed'
  <2>1. kgot' \in [Slot -> Stored \cup {Nil}] /\ kjob' \in SUBSET Stripe
    BY <1>5 DEF ReadShard, TypeOK
  <2> QED
    BY <1>5, <2>1, <1>a DEF ReadShard, TypeOK, unchangedByWorker
<1>6. ASSUME NEW p \in Parity, WriteParity(p)
      PROVE  Typed'
  <2>0. Encoded(StripeOf(p)) \in Vector
    BY <1>b, SlotFacts
  <2>1. pfile' \in [Parity -> Vector \cup {Nil, Torn}]
    BY <1>6, <2>0 DEF WriteParity, TypeOK
  <2>2. kput' \in [Parity -> {"todo", "open", "done"}]
    BY <1>6 DEF WriteParity, TypeOK
  <2>3. kjob' \in SUBSET Stripe
    BY <1>6 DEF WriteParity, TypeOK
  <2> QED
    BY <1>6, <2>1, <2>2, <2>3, <1>a DEF WriteParity, TypeOK, unchangedByWorker
<1> QED
  BY <1>1, <1>2, <1>3, <1>4, <1>5, <1>6 DEF WorkerStep

LEMMA ReleaseTyped ==
    ASSUME Typed, NEW r \in Releasers, NEW C \in SUBSET Slot, NEW refs, ReleaseChunks(r, C, refs),
           ref' \in [Objects -> Slot \cup {Nil}], refHash' \in [Objects -> Data \cup {Nil}]
    PROVE  Typed'
<1> USE DEF Typed
<1> DEFINE free  == Unreferenced(C, refs)
           freed == {c \in free : status[c] = "allocated"}
           S     == {StripeOf(c) : c \in freed}
           live  == {s \in S : \E c \in SlotsOf(s) \ freed : status[c] = "allocated"}
           P     == StaleParities(S \ live)
<1>1. freed \subseteq Slot /\ S \subseteq Stripe /\ P \subseteq Parity
  BY SlotFacts DEF Unreferenced, StaleParities
<1>2. /\ \A c \in freed : gen[c] < MaxGen
      /\ status' = [c \in Slot |-> IF c \in freed THEN "reserved" ELSE status[c]]
      /\ hash'   = [c \in Slot |-> IF c \in freed THEN Nil ELSE hash[c]]
      /\ GenerateChunkPaths(freed)
      /\ wq' \subseteq wq
      /\ ResetParity(P)
      /\ EnqueueRecompute(live)
      /\ rel' = [rel EXCEPT ![r] = [pc |-> "deleting", cand |-> {},
                                   files |-> {PathOf(c) : c \in freed}, parities |-> P]]
      /\ UNCHANGED <<aged, run, file, pfile, workerVars, wr, boot, crashes>>
  BY DEF ReleaseChunks
<1>3. status' \in [Slot -> Status] /\ hash' \in [Slot -> Stored \cup {Nil}]
  BY <1>2 DEF TypeOK, Status
<1>4. gen' \in [Slot -> 0..MaxGen]
  BY <1>2, ShapeAssumption DEF GenerateChunkPaths, TypeOK
<1>5. pstatus' \in [Parity -> Status] /\ phash' \in [Parity -> Vector \cup {Nil}]
  BY <1>2 DEF ResetParity, TypeOK, Status
<1>6. pend' \in SUBSET Stripe
  BY <1>1, <1>2 DEF EnqueueRecompute, TypeOK
<1>7. rel' \in [Releasers -> ReleaserState]
  <2>1. {PathOf(c) : c \in freed} \subseteq Path
    BY <1>1, PathFacts
  <2> HIDE DEF freed, P
  <2>2. [pc |-> "deleting", cand |-> {}, files |-> {PathOf(c) : c \in freed}, parities |-> P]
            \in ReleaserState
    BY <1>1, <2>1 DEF ReleaserState
  <2> QED
    BY <1>2, <2>2 DEF TypeOK
<1> HIDE DEF freed, S, live, P
<1> QED
  BY <1>2, <1>3, <1>4, <1>5, <1>6, <1>7 DEF TypeOK, WriterSlots, workerVars

LEMMA ReleaserTyped ==
    ASSUME Typed, NEW r \in Releasers,
           \/ \E O \in (SUBSET Objects) \ {{}} : Purge(r, O)
           \/ ScanOrphans(r) \/ ReleaserStep(r)
    PROVE  Typed'
<1> USE DEF Typed
<1>1. ASSUME NEW O \in SUBSET Objects, Purge(r, O)
      PROVE  Typed'
  <2>1. {ref[o] : o \in O} \in SUBSET Slot
    BY <1>1 DEF Purge, TypeOK
  <2>2. ref' \in [Objects -> Slot \cup {Nil}] /\ refHash' \in [Objects -> Data \cup {Nil}]
    BY <1>1 DEF Purge, TypeOK
  <2> QED
    BY <1>1, <2>1, <2>2, ReleaseTyped DEF Purge
<1>2. CASE ScanOrphans(r)
  <2>1. Orphans \subseteq Slot /\ rel[r] \in ReleaserState
    BY DEF Orphans, TypeOK
  <2>2. [rel[r] EXCEPT !.pc = "scanned", !.cand = Orphans] \in ReleaserState
    BY <2>1 DEF ReleaserState
  <2>3. rel' = [rel EXCEPT ![r] = [rel[r] EXCEPT !.pc = "scanned", !.cand = Orphans]]
    BY <1>2, <2>1 DEF ScanOrphans, TypeOK, ReleaserState
  <2>4. rel' \in [Releasers -> ReleaserState]
    BY <2>2, <2>3 DEF TypeOK
  <2> QED
    BY <1>2, <2>4 DEF ScanOrphans, TypeOK, WriterSlots, dbVars, diskVars, workerVars
<1>3. CASE CollectOrphans(r)
  <2>1. rel[r].cand \in SUBSET Slot
    BY DEF TypeOK, ReleaserState
  <2> QED
    BY <1>3, <2>1, ReleaseTyped DEF CollectOrphans, TypeOK
<1>4. CASE DeleteFile(r)
  <2>1. PICK f \in rel[r].files :
            /\ file' = [file EXCEPT ![f] = Nil] \/ UNCHANGED file
            /\ rel' = [rel EXCEPT ![r].files = @ \ {f}]
    BY <1>4 DEF DeleteFile
  <2>2. [rel[r] EXCEPT !.files = @ \ {f}] \in ReleaserState
    BY DEF TypeOK, ReleaserState
  <2>3. rel' = [rel EXCEPT ![r] = [rel[r] EXCEPT !.files = @ \ {f}]]
    BY <2>1
  <2>4. rel' \in [Releasers -> ReleaserState]
    BY <2>2, <2>3 DEF TypeOK
  <2>5. file' \in [Path -> Stored \cup {Nil}]
    BY <2>1 DEF TypeOK
  <2> QED
    BY <1>4, <2>4, <2>5 DEF DeleteFile, TypeOK, WriterSlots, dbVars, workerVars
<1>5. CASE DeleteParityFile(r)
  <2>1. PICK p \in rel[r].parities :
            /\ pfile' = [pfile EXCEPT ![p] = Nil] \/ UNCHANGED pfile
            /\ rel' = [rel EXCEPT ![r].parities = @ \ {p}]
    BY <1>5 DEF DeleteParityFile
  <2>2. [rel[r] EXCEPT !.parities = @ \ {p}] \in ReleaserState
    BY DEF TypeOK, ReleaserState
  <2>3. rel' = [rel EXCEPT ![r] = [rel[r] EXCEPT !.parities = @ \ {p}]]
    BY <2>1
  <2>4. rel' \in [Releasers -> ReleaserState]
    BY <2>2, <2>3 DEF TypeOK
  <2>5. pfile' \in [Parity -> Vector \cup {Nil, Torn}]
    BY <2>1 DEF TypeOK
  <2> QED
    BY <1>5, <2>4, <2>5 DEF DeleteParityFile, TypeOK, WriterSlots, dbVars, workerVars
<1>6. CASE EndRelease(r)
  <2>1. rel' \in [Releasers -> ReleaserState]
    BY <1>6, IdleReleaserTyped DEF EndRelease, TypeOK
  <2> QED
    BY <1>6, <2>1 DEF EndRelease, TypeOK, WriterSlots, dbVars, diskVars, workerVars
<1> QED
  BY <1>1, <1>2, <1>3, <1>4, <1>5, <1>6 DEF ReleaserStep

LEMMA SystemTyped ==
    ASSUME Typed, (\E s \in Stripe : Age(s)) \/ Crash \/ Startup
    PROVE  Typed'
<1> USE DEF Typed
<1>1. ASSUME NEW s \in Stripe, Age(s)
      PROVE  Typed'
  BY <1>1 DEF Age, TypeOK, WriterSlots, diskVars, workerVars
<1>2. CASE Crash
  <2>1. wr' \in [Writers -> WriterState] /\ WriterSlots'
    BY <1>2, IdleWriterTyped DEF Crash, WriterSlots
  <2>2. rel' \in [Releasers -> ReleaserState]
    BY <1>2, IdleReleaserTyped DEF Crash
  <2>3. crashes' \in 0..MaxCrash
    BY <1>2, ShapeAssumption DEF Crash, TypeOK
  <2> QED
    BY <1>2, <2>1, <2>2, <2>3 DEF Crash, LeaveBatch, TypeOK, dbVars, diskVars
<1>3. CASE FlushAll
  BY <1>3, FlushTyped DEF FlushAll, TypeOK, WriterSlots, diskVars, workerVars
<1>4. CASE DropQueue
  BY <1>4 DEF DropQueue, TypeOK, WriterSlots, diskVars, workerVars
<1> QED
  BY <1>1, <1>2, <1>3, <1>4 DEF Startup

LEMMA NextTyped == Typed /\ [Next]_vars => Typed'
<1> SUFFICES ASSUME Typed, [Next]_vars PROVE Typed'
  OBVIOUS
<1>1. CASE UNCHANGED vars
  BY <1>1 DEF vars, dbVars, diskVars, workerVars, Typed, TypeOK, WriterSlots
<1>2. CASE Next
  BY <1>2, AllocateTyped, ReadTyped, WriterStepTyped, WorkerStepTyped, ReleaserTyped,
     SystemTyped DEF Next, Releasers
<1> QED
  BY <1>1, <1>2

(* Whatever the timing and the faults, every row, file and goroutine keeps *)
(* the shape the code gives it.                                            *)
THEOREM TypeCorrect == Spec => []TypeOK
<1>1. Init => Typed
  BY InitTyped
<1>2. Typed /\ [Next]_vars => Typed'
  BY NextTyped
<1>3. Typed => TypeOK
  BY DEF Typed
<1> QED
  BY <1>1, <1>2, <1>3, PTL DEF Spec
-----------------------------------------------------------------------------
(* A request between allocation and reference.                             *)
Adding(w) == wr[w].pc \in {"allocated", "intended", "opened", "written", "recorded", "flushed"}

(* Slot c holds the content v, settled: no queue row and no request on it. *)
Good(c, v) ==
    /\ c \in Slot /\ v \in Data
    /\ status[c] = "allocated"
    /\ hash[c] = v
    /\ file[PathOf(c)] = v
    /\ QueueOf(c) = {}
    /\ \A u \in Writers : Adding(u) => wr[u].slot # c

RefsGood  == \A o \in Objects : ref[o] # Nil => Good(ref[o], refHash[o])
SnapsGood == \A w \in Writers :
    wr[w].pc = "snapshot" => Good(wr[w].slot, wr[w].val) /\ wr[w].obj \in Objects

(* The queue rows a request under way has put on its slot.                 *)
IntentRow(c)     == [chunk |-> c, id |-> 1, mark |-> "pending"]
ResultRow(c, ok) == [chunk |-> c, id |-> 2, mark |-> IF ok THEN "success" ELSE "fail"]
RowsAre(w) ==
    LET c == wr[w].slot IN
    /\ wr[w].pc \in {"allocated", "flushed"} => QueueOf(c) = {}
    /\ wr[w].pc \in {"intended", "opened", "written"} => QueueOf(c) = {IntentRow(c)}
    /\ wr[w].pc = "recorded" => QueueOf(c) = {IntentRow(c), ResultRow(c, wr[w].ok)}

AddGood(w) ==
    LET c == wr[w].slot IN
    /\ c \in Slot /\ wr[w].val \in Data /\ wr[w].obj \in Objects
    /\ status[c] = "allocated"
    /\ wr[w].path = PathOf(c)
    /\ ~Referenced(c)
    /\ RowsAre(w)
    /\ wr[w].ok => hash[c] = wr[w].val
    /\ wr[w].pc = "flushed" => wr[w].ok
    /\ wr[w].ok /\ wr[w].pc \in {"written", "recorded", "flushed"} =>
           file[PathOf(c)] = wr[w].val
    /\ \A u \in Writers \ {w} : Adding(u) => wr[u].slot # c
AddsGood == \A w \in Writers : Adding(w) => AddGood(w)

EmptyClean  == \A c \in Slot : status[c] # "allocated" => QueueOf(c) = {}
StripeWhole == \A c \in Slot : status[<<c[1], 0>>] = "none" => status[c] = "none"
StaleOld    == \A r \in Releasers : \A f \in rel[r].files : f[2] < gen[f[1]]
BootIdle    == boot # "up" => \A w \in Writers : wr[w].pc = "idle"
NotLoaded   == \A w \in Writers : wr[w].pc # "loaded"

(* RefsReadable alone is not inductive: whether a release, a late delete   *)
(* or a flush spares a referenced slot depends on who holds it, on the     *)
(* rows it has in write_queues, and on the paths waiting to be deleted.    *)
Inv == /\ Typed
       /\ RefsGood /\ SnapsGood /\ AddsGood
       /\ EmptyClean /\ StripeWhole /\ StaleOld /\ BootIdle /\ NotLoaded

-----------------------------------------------------------------------------
LEMMA InitInv == Init => Inv
<1> SUFFICES ASSUME Init PROVE Inv
  OBVIOUS
<1>1. \A w \in Writers : wr[w].pc = "idle"
  BY DEF Init, IdleWriter
<1>2. \A r \in Releasers : rel[r].files = {}
  BY DEF Init, IdleReleaser
<1> QED
  BY <1>1, <1>2, InitTyped, SlotFacts
     DEF Init, Inv, RefsGood, SnapsGood, AddsGood, Adding, EmptyClean, QueueOf,
         StripeWhole, StaleOld, BootIdle, NotLoaded

(* What a step has to leave alone for a settled slot to stay settled ...   *)
LEMMA GoodKept ==
    ASSUME NEW c, NEW v, Good(c, v),
           status'[c] = status[c], hash'[c] = hash[c], gen'[c] = gen[c],
           file'[PathOf(c)] = file[PathOf(c)],
           QueueOf(c)' \subseteq QueueOf(c),
           \A u \in Writers : Adding(u)' => \/ Adding(u) /\ wr'[u].slot = wr[u].slot
                                            \/ wr'[u].slot # c
    PROVE  Good(c, v)'
  BY DEF Good, PathOf

(* ... and for a request that it does not move.                            *)
LEMMA AddKept ==
    ASSUME NEW w \in Writers, Adding(w), AddGood(w), wr'[w] = wr[w],
           LET c == wr[w].slot IN
           /\ status'[c] = status[c] /\ hash'[c] = hash[c] /\ gen'[c] = gen[c]
           /\ file'[PathOf(c)] = file[PathOf(c)]
           /\ QueueOf(c)' = QueueOf(c)
           /\ ~Referenced(c)'
           /\ \A u \in Writers \ {w} : Adding(u)' => wr'[u].slot # c
    PROVE  AddGood(w)'
  BY DEF AddGood, PathOf, RowsAre

(* Steps that leave the tables of the data chunks, the data files and the  *)
(* requests alone.                                                         *)
LEMMA FrameInv ==
    ASSUME Inv, Typed',
           UNCHANGED <<status, hash, gen, ref, refHash, wq, file, wr, boot>>,
           \A r \in Releasers : rel'[r].files \subseteq rel[r].files
    PROVE  Inv'
<1>1. \A c, v : Good(c, v) => Good(c, v)'
  BY DEF Good, PathOf, QueueOf, Adding
<1>2. \A w \in Writers : AddGood(w) => AddGood(w)'
  BY DEF AddGood, PathOf, RowsAre, QueueOf, Adding, Referenced
<1>3. RefsGood' /\ SnapsGood' /\ AddsGood'
  BY <1>1, <1>2 DEF Inv, RefsGood, SnapsGood, AddsGood, Adding
<1>4. EmptyClean' /\ StripeWhole' /\ StaleOld' /\ BootIdle' /\ NotLoaded'
  BY DEF Inv, EmptyClean, StripeWhole, StaleOld, BootIdle, NotLoaded, QueueOf
<1> QED
  BY <1>3, <1>4 DEF Inv

LEMMA WorkerInv ==
    ASSUME Inv, Typed', WorkerStep \/ (\E s \in Stripe : Age(s))
    PROVE  Inv'
<1>1. UNCHANGED <<status, hash, gen, ref, refHash, wq, file, wr, boot, rel>>
  BY DEF WorkerStep, Claim, LoadMeta, CommitBatch, AbandonBatch, ReadShard, WriteParity,
         Age, unchangedByWorker, diskVars
<1> QED
  BY <1>1, FrameInv

LEMMA AdvanceFacts ==
    ASSUME Typed, NEW w \in Writers, NEW pc, Advance(w, pc)
    PROVE  /\ \A u \in Writers \ {w} : wr'[u] = wr[u]
           /\ wr'[w].pc = pc
           /\ wr'[w].slot = wr[w].slot /\ wr'[w].path = wr[w].path
           /\ wr'[w].val = wr[w].val /\ wr'[w].obj = wr[w].obj /\ wr'[w].ok = wr[w].ok
  BY DEF Advance, Typed, TypeOK, WriterState

LEMMA ResetFacts ==
    ASSUME Typed, NEW w \in Writers, wr' = [wr EXCEPT ![w] = IdleWriter]
    PROVE  /\ \A u \in Writers \ {w} : wr'[u] = wr[u]
           /\ wr'[w].pc = "idle"
  BY DEF Typed, TypeOK, IdleWriter

(* A step of request w that leaves the rest of the system alone: what is   *)
(* left to show concerns w's own slot.                                     *)
LEMMA WriterFrame ==
    ASSUME Inv, Typed', NEW w \in Writers,
           Adding(w), wr'[w].pc \notin {"snapshot", "loaded"},
           Adding(w)' => wr'[w].slot = wr[w].slot,
           \A u \in Writers \ {w} : wr'[u] = wr[u],
           UNCHANGED <<gen, ref, refHash, rel, boot>>,
           \A c \in Slot \ {wr[w].slot} :
               /\ status'[c] = status[c] /\ hash'[c] = hash[c]
               /\ file'[PathOf(c)] = file[PathOf(c)]
               /\ QueueOf(c)' = QueueOf(c),
           status'[wr[w].slot] = status[wr[w].slot],
           Adding(w)' => AddGood(w)'
    PROVE  Inv'
<1> DEFINE c0 == wr[w].slot
<1>0. AddGood(w) /\ c0 \in Slot /\ status[c0] = "allocated" /\ ~Referenced(c0)
  BY DEF Inv, AddsGood, AddGood
<1>1. ASSUME NEW c, NEW v, Good(c, v)
      PROVE  Good(c, v)'
  <2>1. c \in Slot /\ c # c0
    BY <1>1 DEF Good
  <2>2. \A u \in Writers : Adding(u)' => \/ Adding(u) /\ wr'[u].slot = wr[u].slot
                                         \/ wr'[u].slot # c
    BY <2>1 DEF Adding
  <2> QED
    BY <1>1, <2>1, <2>2, GoodKept
<1>2. RefsGood'
  BY <1>1 DEF Inv, RefsGood
<1>3. SnapsGood'
  BY <1>1 DEF Inv, SnapsGood
<1>4. ASSUME NEW u \in Writers, Adding(u)'
      PROVE  AddGood(u)'
  <2>1. CASE u = w
    BY <1>4, <2>1
  <2>2. CASE u # w
    <3>1. Adding(u) /\ AddGood(u) /\ wr'[u] = wr[u]
      BY <1>4, <2>2 DEF Adding, Inv, AddsGood
    <3>2. wr[u].slot \in Slot /\ wr[u].slot # c0
      BY <3>1, <2>2, <1>0 DEF AddGood
    <3>3. ~Referenced(wr[u].slot)'
      BY <3>1 DEF AddGood, Referenced
    <3>4. \A x \in Writers \ {u} : Adding(x)' => wr'[x].slot # wr[u].slot
      BY <3>1, <3>2 DEF AddGood, Adding
    <3> QED
      BY <3>1, <3>2, <3>3, <3>4, AddKept
  <2> QED
    BY <2>1, <2>2
<1>5. EmptyClean'
  BY <1>0 DEF Inv, EmptyClean
<1>6. StripeWhole'
  <2>1. \A c \in Slot : status'[c] = status[c]
    OBVIOUS
  <2>2. \A c \in Slot : <<c[1], 0>> \in Slot
    BY SlotFacts DEF StripeOf
  <2> QED
    BY <2>1, <2>2 DEF Inv, StripeWhole
<1>7. StaleOld' /\ BootIdle'
  BY <1>0 DEF Inv, StaleOld, BootIdle, Adding
<1>8. NotLoaded'
  BY DEF Inv, NotLoaded
<1> QED
  BY <1>2, <1>3, <1>4, <1>5, <1>6, <1>7, <1>8 DEF Inv, AddsGood

(* The paths of different slots differ.                                    *)
LEMMA PathsDiffer == \A c, d : c # d => PathOf(c) # PathOf(d)
  BY DEF PathOf

LEMMA QueueGrows ==
    ASSUME NEW c, NEW r, r.chunk = c, wq' = wq \cup {r}
    PROVE  /\ QueueOf(c)' = QueueOf(c) \cup {r}
           /\ \A d : d # c => QueueOf(d)' = QueueOf(d)
<1>1. QueueOf(c)' = {q \in wq' : q.chunk = c}
  BY DEF QueueOf
<1>2. \A d : QueueOf(d)' = {q \in wq' : q.chunk = d}
  BY DEF QueueOf
<1> QED
  BY <1>1, <1>2 DEF QueueOf

LEMMA IntendInv ==
    ASSUME Inv, Typed', NEW w \in Writers, Intend(w)
    PROVE  Inv'
<1>s. PICK c0 : c0 = wr[w].slot
  OBVIOUS
<1>0. Adding(w) /\ AddGood(w) /\ QueueOf(c0) = {} /\ c0 \in Slot
  BY <1>s DEF Inv, AddsGood, Adding, Intend, AddGood, RowsAre
<1>1. /\ \A u \in Writers \ {w} : wr'[u] = wr[u]
      /\ wr'[w].pc = "intended"
      /\ wr'[w].slot = wr[w].slot /\ wr'[w].path = wr[w].path
      /\ wr'[w].val = wr[w].val /\ wr'[w].obj = wr[w].obj /\ wr'[w].ok = wr[w].ok
  BY AdvanceFacts DEF Intend, Inv
<1>2. UNCHANGED <<status, hash, gen, ref, refHash, file, rel, boot>>
  BY DEF Intend, unchangedByWriters
<1>3. PICK n \in QueueId :
        /\ n = 1 \/ \E r \in QueueOf(c0) : r.id = n - 1
        /\ wq' = wq \cup {[chunk |-> c0, id |-> n, mark |-> "pending"]}
  BY <1>s DEF Intend, Enqueue
<1>4. wq' = wq \cup {IntentRow(c0)}
  BY <1>0, <1>3 DEF IntentRow
<1>r. IntentRow(c0).chunk = c0
  BY DEF IntentRow
<1>5. QueueOf(c0)' = {IntentRow(c0)}
  BY <1>0, <1>4, <1>r, QueueGrows
<1>6. \A c \in Slot \ {c0} : QueueOf(c)' = QueueOf(c)
  BY <1>4, <1>r, QueueGrows
<1>7. AddGood(w)'
  BY <1>s, <1>0, <1>1, <1>2, <1>5 DEF AddGood, RowsAre, PathOf, Referenced, Adding
<1> QED
  BY <1>s, <1>0, <1>1, <1>2, <1>6, <1>7, WriterFrame DEF PathOf

LEMMA RecordInv ==
    ASSUME Inv, Typed', NEW w \in Writers, Record(w)
    PROVE  Inv'
<1>s. PICK c0 : c0 = wr[w].slot
  OBVIOUS
<1> DEFINE m == IF wr[w].ok THEN "success" ELSE "fail"
<1>0. Adding(w) /\ AddGood(w) /\ QueueOf(c0) = {IntentRow(c0)} /\ c0 \in Slot
  BY <1>s DEF Inv, AddsGood, Adding, Record, AddGood, RowsAre
<1>1. /\ \A u \in Writers \ {w} : wr'[u] = wr[u]
      /\ wr'[w].pc = "recorded"
      /\ wr'[w].slot = wr[w].slot /\ wr'[w].path = wr[w].path
      /\ wr'[w].val = wr[w].val /\ wr'[w].obj = wr[w].obj /\ wr'[w].ok = wr[w].ok
  BY AdvanceFacts DEF Record, Inv
<1>2. UNCHANGED <<status, hash, gen, ref, refHash, file, rel, boot>>
  BY DEF Record, unchangedByWriters
<1>3. PICK n \in QueueId :
        /\ \A r \in QueueOf(c0) : r.id < n
        /\ n = 1 \/ \E r \in QueueOf(c0) : r.id = n - 1
        /\ wq' = wq \cup {[chunk |-> c0, id |-> n, mark |-> m]}
  BY <1>s DEF Record, Enqueue
<1>4. n = 2
  <2>1. IntentRow(c0).id = 1
    BY DEF IntentRow
  <2> QED
    BY <1>0, <1>3, <2>1, ShapeAssumption DEF QueueId
<1>5. wq' = wq \cup {ResultRow(c0, wr[w].ok)}
  BY <1>3, <1>4 DEF ResultRow
<1>r. ResultRow(c0, wr[w].ok).chunk = c0
  BY DEF ResultRow
<1>6. QueueOf(c0)' = {IntentRow(c0), ResultRow(c0, wr[w].ok)}
  BY <1>0, <1>5, <1>r, QueueGrows
<1>7. \A c \in Slot \ {c0} : QueueOf(c)' = QueueOf(c)
  BY <1>5, <1>r, QueueGrows
<1>8. wr[w].ok => file[PathOf(c0)] = wr[w].val
  BY <1>s, <1>0 DEF AddGood, Record
<1>9. AddGood(w)'
  BY <1>s, <1>0, <1>1, <1>2, <1>6, <1>8 DEF AddGood, RowsAre, PathOf, Referenced, Adding
<1> QED
  BY <1>s, <1>0, <1>1, <1>2, <1>7, <1>9, WriterFrame DEF PathOf

LEMMA WriteFileInv ==
    ASSUME Inv, Typed', NEW w \in Writers, OpenFile(w) \/ CompleteFile(w)
    PROVE  Inv'
<1>s. PICK c0 : c0 = wr[w].slot
  OBVIOUS
<1>0. Adding(w) /\ AddGood(w) /\ c0 \in Slot /\ wr[w].path = PathOf(c0)
  BY <1>s DEF Inv, AddsGood, Adding, OpenFile, CompleteFile, AddGood
<1>1. /\ \A u \in Writers \ {w} : wr'[u] = wr[u]
      /\ wr'[w].pc = IF OpenFile(w) THEN "opened" ELSE "written"
      /\ wr'[w].slot = wr[w].slot /\ wr'[w].path = wr[w].path
      /\ wr'[w].val = wr[w].val /\ wr'[w].obj = wr[w].obj /\ wr'[w].ok = wr[w].ok
  BY AdvanceFacts DEF OpenFile, CompleteFile, Inv
<1>2. UNCHANGED <<status, hash, gen, ref, refHash, wq, rel, boot>>
  BY DEF OpenFile, CompleteFile, unchangedByWriters
<1>3. PathOf(c0) \in Path /\ file \in [Path -> Stored \cup {Nil}]
  BY <1>0, PathFacts DEF Inv, Typed, TypeOK
<1>4. file' = [file EXCEPT ![PathOf(c0)] = IF OpenFile(w) THEN Torn ELSE wr[w].val]
  BY <1>0 DEF OpenFile, CompleteFile
<1>5. \A c \in Slot \ {c0} : file'[PathOf(c)] = file[PathOf(c)] /\ PathOf(c) = PathOf(c)'
  BY <1>2, <1>3, <1>4, PathsDiffer, PathFacts DEF Inv, Typed, PathOf
<1>6. ~OpenFile(w) => file'[PathOf(c0)] = wr[w].val
  BY <1>3, <1>4
<1>7. QueueOf(c0)' = QueueOf(c0) /\ \A c \in Slot \ {c0} : QueueOf(c)' = QueueOf(c)
  BY <1>2 DEF QueueOf
<1>8. AddGood(w)'
  <2>1. QueueOf(c0) = {IntentRow(c0)}
    BY <1>s, <1>0 DEF AddGood, RowsAre, OpenFile, CompleteFile
  <2> QED
    BY <1>s, <1>0, <1>1, <1>2, <1>6, <1>7, <2>1 DEF AddGood, RowsAre, PathOf, Referenced, Adding
<1> QED
  BY <1>s, <1>0, <1>1, <1>2, <1>5, <1>7, <1>8, WriterFrame

LEMMA FailFileInv ==
    ASSUME Inv, Typed', NEW w \in Writers, FailFile(w)
    PROVE  Inv'
<1>s. PICK c0 : c0 = wr[w].slot
  OBVIOUS
<1>0. Adding(w) /\ AddGood(w) /\ c0 \in Slot /\ QueueOf(c0) = {IntentRow(c0)}
  BY <1>s DEF Inv, AddsGood, Adding, FailFile, AddGood, RowsAre
<1>1. /\ \A u \in Writers \ {w} : wr'[u] = wr[u]
      /\ wr'[w].pc = "written" /\ wr'[w].ok = FALSE
      /\ wr'[w].slot = wr[w].slot /\ wr'[w].path = wr[w].path
      /\ wr'[w].val = wr[w].val /\ wr'[w].obj = wr[w].obj
  BY DEF FailFile, Inv, Typed, TypeOK, WriterState
<1>2. UNCHANGED <<status, hash, gen, ref, refHash, wq, file, rel, boot>>
  BY DEF FailFile, dbVars
<1>3. QueueOf(c0)' = QueueOf(c0) /\ \A c \in Slot \ {c0} : QueueOf(c)' = QueueOf(c)
  BY <1>2 DEF QueueOf
<1>4. AddGood(w)'
  BY <1>s, <1>0, <1>1, <1>2, <1>3 DEF AddGood, RowsAre, PathOf, Referenced, Adding
<1> QED
  BY <1>s, <1>0, <1>1, <1>2, <1>3, <1>4, WriterFrame DEF PathOf

(* Two rows of one request are the one pair Flush finds on its slot.       *)
LEMMA OwnPair ==
    ASSUME Typed, NEW c \in Slot, NEW ok \in BOOLEAN,
           QueueOf(c) = {IntentRow(c), ResultRow(c, ok)}
    PROVE  DonePairs({c}) = {<<IntentRow(c), ResultRow(c, ok)>>}
<1>1. /\ IntentRow(c).chunk = c /\ IntentRow(c).id = 1 /\ IntentRow(c).mark = "pending"
      /\ ResultRow(c, ok).chunk = c /\ ResultRow(c, ok).id = 2
      /\ ResultRow(c, ok).mark # "pending"
  BY DEF IntentRow, ResultRow
<1>2. IntentRow(c) \in wq /\ ResultRow(c, ok) \in wq
  BY DEF QueueOf
<1>3. <<IntentRow(c), ResultRow(c, ok)>> \in DonePairs({c})
  BY <1>1, <1>2 DEF DonePairs
<1>4. ASSUME NEW pr \in DonePairs({c})
      PROVE  pr = <<IntentRow(c), ResultRow(c, ok)>>
  <2>1. pr \in wq \X wq /\ pr[1] \in QueueOf(c) /\ pr[2] \in QueueOf(c)
    BY DEF DonePairs, QueueOf
  <2>2. pr[1] = IntentRow(c) /\ pr[2] = ResultRow(c, ok)
    BY <2>1, <1>1 DEF DonePairs
  <2> QED
    BY <2>1, <2>2
<1> QED
  BY <1>3, <1>4

LEMMA FlushOwnInv ==
    ASSUME Inv, Typed', NEW w \in Writers, FlushOwn(w)
    PROVE  Inv'
<1>s. PICK c0, ok0 : c0 = wr[w].slot /\ ok0 = wr[w].ok
  OBVIOUS
<1>0. /\ Adding(w) /\ AddGood(w) /\ c0 \in Slot /\ ok0 \in BOOLEAN
      /\ QueueOf(c0) = {IntentRow(c0), ResultRow(c0, ok0)}
  BY <1>s DEF Inv, AddsGood, Adding, FlushOwn, AddGood, RowsAre, Typed, TypeOK, WriterState
<1> DEFINE done == DonePairs({c0})
<1>1. done = {<<IntentRow(c0), ResultRow(c0, ok0)>>}
  BY <1>0, OwnPair DEF Inv
<1>2. UNCHANGED <<status, gen, ref, refHash, file, rel, boot>>
  BY DEF FlushOwn, unchangedByWriters
<1>f. Flush({c0})
  BY <1>s DEF FlushOwn
<1>3. wq' = wq \ UNION {{pr[1], pr[2]} : pr \in done}
  BY <1>f DEF Flush
<1>4. wq' = wq \ {IntentRow(c0), ResultRow(c0, ok0)}
  <2>1. UNION {{pr[1], pr[2]} : pr \in done} = {IntentRow(c0), ResultRow(c0, ok0)}
    <3> HIDE DEF done
    <3> QED
      BY <1>1
  <2> QED
    BY <1>3, <2>1
<1>5. QueueOf(c0)' = {}
  BY <1>0, <1>4 DEF QueueOf
<1>6. \A c \in Slot \ {c0} : QueueOf(c)' = QueueOf(c)
  BY <1>4 DEF QueueOf, IntentRow, ResultRow
<1>7. /\ \A c \in Slot \ {c0} : hash'[c] = hash[c]
      /\ ok0 => hash'[c0] = hash[c0]
  <2> DEFINE failed == {pr[2].chunk : pr \in {q \in done : q[2].mark = "fail"}}
  <2>1. failed \subseteq {c0} /\ (ok0 => failed = {})
    BY <1>1 DEF ResultRow
  <2>2. PICK unread \in SUBSET failed :
            hash' = [c \in Slot |-> IF c \in failed \ unread /\ file[PathOf(c)] # Nil
                                    THEN file[PathOf(c)] ELSE hash[c]]
    BY <1>f DEF Flush
  <2> QED
    BY <2>1, <2>2, <1>0
<1>8. /\ \A u \in Writers \ {w} : wr'[u] = wr[u]
      /\ ok0 => /\ wr'[w].pc = "flushed"
                /\ wr'[w].slot = wr[w].slot /\ wr'[w].path = wr[w].path
                /\ wr'[w].val = wr[w].val /\ wr'[w].obj = wr[w].obj /\ wr'[w].ok = wr[w].ok
      /\ ~ok0 => wr' = [wr EXCEPT ![w] = IdleWriter] /\ wr'[w].pc = "idle"
  <2>1. wr[w].obj # Nil
    BY <1>0, SentinelAssumption DEF AddGood
  <2>2. CASE ok0
    BY <2>1, <2>2, <1>s, AdvanceFacts DEF FlushOwn, Inv
  <2>3. CASE ~ok0
    BY <2>3, <1>s, ResetFacts DEF FlushOwn, Inv
  <2> QED
    BY <1>0, <2>2, <2>3
<1> HIDE DEF done
<1>9. Adding(w)' => AddGood(w)'
  BY <1>s, <1>0, <1>2, <1>5, <1>7, <1>8 DEF AddGood, RowsAre, PathOf, Referenced, Adding,
     FlushOwn
<1> QED
  BY <1>s, <1>0, <1>2, <1>6, <1>7, <1>8, <1>9, WriterFrame DEF PathOf, Adding

(* Steps that leave the rows of the data chunks, their queue and their     *)
(* current files alone: requests may end, snapshots and references may be  *)
(* taken of settled slots.                                                 *)
LEMMA QuietInv ==
    ASSUME Inv, Typed', UNCHANGED <<status, hash, gen, wq>>,
           \A c \in Slot : file'[PathOf(c)] = file[PathOf(c)],
           \A r \in Releasers : rel'[r].files \subseteq rel[r].files,
           \A u \in Writers : Adding(u)' => wr'[u] = wr[u],
           \A u \in Writers : wr'[u].pc = "snapshot" =>
               wr'[u] = wr[u] \/ (Good(wr[u].slot, wr[u].val)' /\ wr'[u].obj \in Objects),
           \A o \in Objects : ref'[o] # Nil =>
               \/ ref'[o] = ref[o] /\ refHash'[o] = refHash[o]
               \/ Good(ref[o], refHash[o])',
           NotLoaded', BootIdle'
    PROVE  Inv'
<1>q. \A c : QueueOf(c)' = QueueOf(c)
  BY DEF QueueOf
<1>1. ASSUME NEW c, NEW v, Good(c, v)
      PROVE  Good(c, v)'
  <2>1. c \in Slot /\ file'[PathOf(c)] = file[PathOf(c)]
    BY <1>1 DEF Good
  <2>2. \A u \in Writers : Adding(u)' => Adding(u) /\ wr'[u].slot = wr[u].slot
    BY DEF Adding
  <2> QED
    BY <1>1, <2>1, <2>2, <1>q, GoodKept
<1>2. RefsGood'
  BY <1>1 DEF Inv, RefsGood
<1>3. SnapsGood'
  BY <1>1 DEF Inv, SnapsGood
<1>4. ASSUME NEW u \in Writers, Adding(u)'
      PROVE  AddGood(u)'
  <2>1. Adding(u) /\ AddGood(u) /\ wr'[u] = wr[u]
    BY <1>4 DEF Adding, Inv, AddsGood
  <2>2. wr[u].slot \in Slot
    BY <2>1 DEF AddGood
  <2>3. ASSUME NEW o \in Objects, ref'[o] = wr[u].slot
        PROVE  FALSE
    <3>1. ref'[o] # Nil
      BY <2>2, <2>3, SlotFacts
    <3>2. ref'[o] # ref[o]
      BY <2>1, <2>3 DEF AddGood, Referenced
    <3>3. Good(ref[o], refHash[o])'
      BY <3>1, <3>2
    <3> QED
      BY <3>3, <2>1, <2>3, <1>4 DEF Good
  <2>4. ~Referenced(wr[u].slot)'
    BY <2>1, <2>3 DEF Referenced
  <2>5. \A x \in Writers \ {u} : Adding(x)' => wr'[x].slot # wr[u].slot
    BY <2>1 DEF AddGood, Adding
  <2> QED
    BY <2>1, <2>2, <2>4, <2>5, <1>q, AddKept
<1>5. EmptyClean' /\ StripeWhole'
  BY <1>q DEF Inv, EmptyClean, StripeWhole
<1>6. StaleOld'
  BY DEF Inv, StaleOld
<1> QED
  BY <1>2, <1>3, <1>4, <1>5, <1>6 DEF Inv, AddsGood

LEMMA EndRequestInv ==
    ASSUME Inv, Typed', NEW w \in Writers, PutRef(w) \/ Inherit(w) \/ FailStatement(w)
    PROVE  Inv'
<1>1. wr' = [wr EXCEPT ![w] = IdleWriter]
  BY DEF PutRef, Inherit, FailStatement
<1>2. (\A u \in Writers \ {w} : wr'[u] = wr[u]) /\ wr'[w].pc = "idle"
  BY <1>1, ResetFacts DEF Inv
<1>3. UNCHANGED <<status, hash, gen, wq, file, rel, boot>>
  BY DEF PutRef, Inherit, FailStatement, unchangedByWriters, dbVars
<1>p. \A c \in Slot : file'[PathOf(c)] = file[PathOf(c)]
  BY <1>3
<1>4. PICK c, v, x : c = wr[w].slot /\ v = wr[w].val /\ x = wr[w].obj
  OBVIOUS
<1>5. CASE FailStatement(w)
  <2>1. UNCHANGED <<ref, refHash>>
    BY <1>5 DEF FailStatement, dbVars
  <2> QED
    BY <2>1, <1>2, <1>3, <1>p, QuietInv DEF Inv, NotLoaded, BootIdle, Adding
<1>6. CASE PutRef(w) \/ Inherit(w)
  <2>1. Good(c, v)'
    <3>1. \A u \in Writers : Adding(u)' => Adding(u) /\ u # w /\ wr'[u].slot = wr[u].slot
      BY <1>2 DEF Adding
    <3>2. CASE PutRef(w)
      <4>1. Adding(w) /\ AddGood(w)
        BY <3>2 DEF PutRef, Adding, Inv, AddsGood
      <4> QED
        BY <3>1, <3>2, <4>1, <1>3, <1>4 DEF AddGood, PutRef, RowsAre, Good, QueueOf, PathOf
    <3>3. CASE Inherit(w)
      <4>1. Good(c, v)
        BY <3>3, <1>4 DEF Inherit, Inv, SnapsGood
      <4> QED
        BY <4>1, <3>1, <1>3 DEF Good, QueueOf, PathOf
    <3> QED
      BY <1>6, <3>2, <3>3
  <2>2. ref' = [ref EXCEPT ![x] = c] /\ refHash' = [refHash EXCEPT ![x] = v]
    BY <1>4, <1>6 DEF PutRef, Inherit
  <2>3. ref \in [Objects -> Slot \cup {Nil}] /\ refHash \in [Objects -> Data \cup {Nil}]
    BY DEF Inv, Typed, TypeOK
  <2>4. \A o \in Objects : ref'[o] # Nil =>
            \/ ref'[o] = ref[o] /\ refHash'[o] = refHash[o]
            \/ Good(ref[o], refHash[o])'
    <3>1. \A o \in Objects : o = x => ref'[o] = c /\ refHash'[o] = v
      BY <2>2, <2>3
    <3>2. \A o \in Objects : o # x => ref'[o] = ref[o] /\ refHash'[o] = refHash[o]
      BY <2>2, <2>3
    <3> QED
      BY <2>1, <3>1, <3>2
  <2> QED
    BY <2>4, <1>2, <1>3, <1>p, QuietInv DEF Inv, NotLoaded, BootIdle, Adding
<1> QED
  BY <1>5, <1>6

LEMMA ReadSnapshotInv ==
    ASSUME Inv, Typed', NEW w \in Writers, ReadSnapshot(w)
    PROVE  Inv'
<1>1. PICK o \in Objects, q \in Objects :
        /\ ref[o] # Nil
        /\ wr' = [wr EXCEPT ![w] = [pc |-> "snapshot", slot |-> ref[o], path |-> Nil,
                                    val |-> refHash[o], obj |-> q, ok |-> TRUE,
                                    fresh |-> FALSE]]
  BY DEF ReadSnapshot
<1>2. boot = "up" /\ UNCHANGED <<status, hash, gen, ref, refHash, wq, file, rel, boot>>
  BY DEF ReadSnapshot, dbVars
<1>3. /\ \A u \in Writers \ {w} : wr'[u] = wr[u]
      /\ wr'[w].pc = "snapshot" /\ wr'[w].slot = ref[o] /\ wr'[w].val = refHash[o]
      /\ wr'[w].obj = q
  BY <1>1 DEF Inv, Typed, TypeOK
<1>4. Good(ref[o], refHash[o])
  BY <1>1 DEF Inv, RefsGood
<1>5. Good(wr[w].slot, wr[w].val)'
  BY <1>2, <1>3, <1>4 DEF Good, QueueOf, PathOf, Adding
<1> QED
  BY <1>2, <1>3, <1>5, QuietInv DEF Inv, NotLoaded, BootIdle, Adding

(* Taking a slot that holds nothing: nobody refers to it or works on it.   *)
LEMMA TakeSlotInv ==
    ASSUME Inv, Typed', NEW w \in Writers, NEW c \in Slot, NEW o \in Objects, NEW v \in Data,
           NEW b \in BOOLEAN, wr[w].pc = "idle",
           status[c] # "allocated", status'[c] = "allocated",
           \A d \in Slot \ {c} : \/ status'[d] = status[d]
                                 \/ status[d] # "allocated" /\ status'[d] = "reserved",
           hash' = [hash EXCEPT ![c] = v],
           wr' = [wr EXCEPT ![w] = [pc |-> "allocated", slot |-> c, path |-> PathOf(c),
                                    val |-> v, obj |-> o, ok |-> TRUE, fresh |-> b]],
           StripeWhole', boot = "up",
           UNCHANGED <<gen, ref, refHash, wq, file, rel, boot>>
    PROVE  Inv'
<1>1. /\ \A u \in Writers \ {w} : wr'[u] = wr[u]
      /\ wr'[w].pc = "allocated" /\ wr'[w].slot = c /\ wr'[w].path = PathOf(c)
      /\ wr'[w].val = v /\ wr'[w].obj = o /\ wr'[w].ok = TRUE
  BY DEF Inv, Typed, TypeOK
<1>2. hash'[c] = v /\ \A d \in Slot \ {c} : hash'[d] = hash[d]
  BY DEF Inv, Typed, TypeOK
<1>q. \A d : QueueOf(d)' = QueueOf(d)
  BY DEF QueueOf
<1>3. ASSUME NEW d, NEW x, Good(d, x)
      PROVE  Good(d, x)'
  <2>1. d \in Slot /\ d # c /\ status'[d] = status[d]
    BY <1>3 DEF Good
  <2>2. \A u \in Writers : Adding(u)' => \/ Adding(u) /\ wr'[u].slot = wr[u].slot
                                         \/ wr'[u].slot # d
    BY <1>1, <2>1 DEF Adding
  <2> QED
    BY <1>2, <1>3, <1>q, <2>1, <2>2, GoodKept
<1>4. RefsGood' /\ SnapsGood'
  BY <1>1, <1>3 DEF Inv, RefsGood, SnapsGood
<1>5. ASSUME NEW u \in Writers \ {w}, Adding(u)'
      PROVE  AddGood(u)' /\ wr'[u].slot # c
  <2>1. Adding(u) /\ AddGood(u) /\ wr'[u] = wr[u]
    BY <1>1, <1>5 DEF Adding, Inv, AddsGood
  <2>2. wr[u].slot \in Slot /\ wr[u].slot # c /\ status'[wr[u].slot] = status[wr[u].slot]
    BY <2>1 DEF AddGood
  <2>3. ~Referenced(wr[u].slot)'
    BY <2>1 DEF AddGood, Referenced
  <2>4. \A y \in Writers \ {u} : Adding(y)' => wr'[y].slot # wr[u].slot
    BY <1>1, <2>1, <2>2 DEF AddGood, Adding
  <2> QED
    BY <1>2, <1>q, <2>1, <2>2, <2>3, <2>4, AddKept
<1>6. AddGood(w)'
  <2>1. ~Referenced(c)'
    BY SlotFacts DEF Referenced, Inv, RefsGood, Good
  <2>2. QueueOf(c) = {}
    BY DEF Inv, EmptyClean
  <2> QED
    BY <1>1, <1>2, <1>5, <1>q, <2>1, <2>2 DEF AddGood, RowsAre, PathOf
<1>7. AddsGood'
  BY <1>5, <1>6 DEF AddsGood
<1>8. EmptyClean' /\ StaleOld' /\ BootIdle' /\ NotLoaded'
  BY <1>1, <1>q DEF Inv, EmptyClean, StaleOld, BootIdle, NotLoaded
<1> QED
  BY <1>4, <1>7, <1>8 DEF Inv

LEMMA AllocateInv ==
    ASSUME Inv, Typed', NEW w \in Writers, Allocate(w)
    PROVE  Inv'
<1>1. PICK o \in Objects, v \in Data :
          \/ \E c \in Slot : Reuse(w, c, o, v)
          \/ \E s \in Stripe : NewStripe(w, s, o, v)
  BY DEF Allocate
<1>2. wr[w].pc = "idle" /\ boot = "up" /\ UNCHANGED <<gen, ref, refHash, wq, file, rel, boot>>
  BY DEF Allocate, unchangedByWriters
<1>t. status \in [Slot -> Status] /\ (\A c \in Slot : <<c[1], 0>> \in Slot)
  BY SlotFacts DEF StripeOf, Inv, Typed, TypeOK
<1>3. ASSUME NEW c \in Slot, Reuse(w, c, o, v)
      PROVE  Inv'
  <2>1. status[c] = "reserved" /\ status' = [status EXCEPT ![c] = "allocated"]
    BY <1>3 DEF Reuse
  <2>2. status'[c] = "allocated" /\ \A d \in Slot \ {c} : status'[d] = status[d]
    BY <1>t, <2>1
  <2>3. StripeWhole'
    BY <1>t, <2>1, <2>2 DEF Inv, StripeWhole
  <2>4. /\ hash' = [hash EXCEPT ![c] = v]
        /\ wr' = [wr EXCEPT ![w] = [pc |-> "allocated", slot |-> c, path |-> PathOf(c),
                                    val |-> v, obj |-> o, ok |-> TRUE, fresh |-> FALSE]]
    BY <1>3 DEF Reuse
  <2> QED
    BY <1>2, <2>1, <2>2, <2>3, <2>4, TakeSlotInv
<1>4. ASSUME NEW s \in Stripe, NewStripe(w, s, o, v)
      PROVE  Inv'
  <2>0. PICK c \in Slot : c = <<s, 0>>
    BY SlotFacts
  <2>1. /\ status[c] = "none"
        /\ status' = [d \in Slot |-> IF StripeOf(d) # s THEN status[d]
                                     ELSE IF d[2] = 0 THEN "allocated" ELSE "reserved"]
    <3>1. s >= s
      BY ShapeAssumption DEF Stripe
    <3> QED
      BY <1>4, <2>0, <3>1 DEF NewStripe
  <2>2. status'[c] = "allocated"
    BY <2>0, <2>1 DEF StripeOf
  <2>3. \A d \in Slot : StripeOf(d) = s => status[d] = "none"
    BY <2>0, <2>1 DEF Inv, StripeWhole, StripeOf
  <2>4. \A d \in Slot \ {c} : \/ status'[d] = status[d]
                              \/ status[d] # "allocated" /\ status'[d] = "reserved"
    <3> TAKE d \in Slot \ {c}
    <3>1. StripeOf(d) = s => d[2] # 0
      BY <2>0, SlotFacts DEF StripeOf
    <3> QED
      BY <2>1, <2>3, <3>1
  <2>5. StripeWhole'
    BY <1>t, <2>1 DEF Inv, StripeWhole, StripeOf
  <2>6. /\ hash' = [hash EXCEPT ![c] = v]
        /\ wr' = [wr EXCEPT ![w] = [pc |-> "allocated", slot |-> c, path |-> PathOf(c),
                                    val |-> v, obj |-> o, ok |-> TRUE, fresh |-> TRUE]]
    BY <1>4, <2>0 DEF NewStripe
  <2> QED
    BY <1>2, <2>1, <2>2, <2>4, <2>5, <2>6, TakeSlotInv
<1> QED
  BY <1>1, <1>3, <1>4

LEMMA WriterInv ==
    ASSUME Inv, Typed', NEW w \in Writers, ~Overwriting,
           Allocate(w) \/ LoadForOverwrite(w) \/ ReadSnapshot(w) \/ WriterStep(w)
    PROVE  Inv'
<1>1. ~LoadForOverwrite(w) /\ ~UpdateMetadata(w)
  BY DEF LoadForOverwrite, UpdateMetadata, Inv, NotLoaded
<1> QED
  BY <1>1, AllocateInv, ReadSnapshotInv, IntendInv, WriteFileInv, FailFileInv, RecordInv,
     FlushOwnInv, EndRequestInv DEF WriterStep

-----------------------------------------------------------------------------
(* The paths a release leaves to delete are former paths.                  *)
LEMMA ReleaseStale ==
    ASSUME Typed, StaleOld, NEW r \in Releasers, NEW C \in SUBSET Slot, NEW refs,
           ReleaseChunks(r, C, refs)
    PROVE  StaleOld'
<1> DEFINE freed == {c \in Unreferenced(C, refs) : status[c] = "allocated"}
<1>1. PICK P :
      /\ gen' = [c \in Slot |-> IF c \in freed THEN gen[c] + 1 ELSE gen[c]]
      /\ rel' = [rel EXCEPT ![r] = [pc |-> "deleting", cand |-> {},
                                   files |-> {PathOf(c) : c \in freed}, parities |-> P]]
  BY DEF ReleaseChunks, GenerateChunkPaths
<1>2. gen \in [Slot -> 0..MaxGen] /\ rel \in [Releasers -> ReleaserState] /\ freed \subseteq Slot
  BY DEF Typed, TypeOK, Unreferenced
<1> HIDE DEF freed
<1>3. ASSUME NEW q \in Releasers, NEW f \in rel'[q].files
      PROVE  f[2] < gen'[f[1]]
  <2>1. CASE q = r
    <3>1. rel'[r].files = {PathOf(c) : c \in freed}
      BY <1>1, <1>2
    <3>2. PICK c \in freed : f = PathOf(c)
      BY <1>3, <2>1, <3>1
    <3> QED
      BY <1>1, <1>2, <3>2 DEF PathOf
  <2>2. CASE q # r
    <3>1. f \in rel[q].files /\ f[2] < gen[f[1]]
      BY <1>1, <1>2, <1>3, <2>2 DEF StaleOld
    <3>2. f \in Path
      BY <1>2, <3>1 DEF ReleaserState
    <3>3. f[1] \in Slot /\ f[2] \in 0..MaxGen
      BY <3>2 DEF Path
    <3> QED
      BY <1>1, <1>2, <3>1, <3>3
  <2> QED
    BY <2>1, <2>2
<1> QED
  BY <1>3 DEF StaleOld

(* Releasing chunks that no request holds spares every referenced slot.    *)
LEMMA ReleaseInv ==
    ASSUME Inv, Typed', NEW r \in Releasers, NEW C \in SUBSET Slot, ~SlowWriters,
           Undisturbed(C), ReleaseChunks(r, C, ref'),
           \A o \in Objects : ref'[o] # Nil => ref'[o] = ref[o] /\ refHash'[o] = refHash[o]
    PROVE  Inv'
<1> DEFINE free  == Unreferenced(C, ref')
           freed == {c \in free : status[c] = "allocated"}
<1>1. freed \subseteq free /\ free \subseteq C
  BY DEF Unreferenced
<1>2. PICK P :
      /\ status' = [c \in Slot |-> IF c \in freed THEN "reserved" ELSE status[c]]
      /\ hash'   = [c \in Slot |-> IF c \in freed THEN Nil ELSE hash[c]]
      /\ gen'    = [c \in Slot |-> IF c \in freed THEN gen[c] + 1 ELSE gen[c]]
      /\ wq'     = IF freed = {} THEN wq ELSE {q \in wq : q.chunk \notin free}
      /\ rel'    = [rel EXCEPT ![r] = [pc |-> "deleting", cand |-> {},
                                      files |-> {PathOf(c) : c \in freed}, parities |-> P]]
      /\ UNCHANGED <<file, wr, boot>>
  BY DEF ReleaseChunks, GenerateChunkPaths
<1>3. \A w \in Writers : wr[w].pc # "idle" => wr[w].slot \notin C
  BY DEF Undisturbed, Holds, InFlight
<1>4. \A c : QueueOf(c)' \subseteq QueueOf(c) /\ (c \notin free => QueueOf(c)' = QueueOf(c))
  BY <1>2 DEF QueueOf
<1>5. \A c \in freed : QueueOf(c)' = {}
  BY <1>1, <1>2 DEF QueueOf
<1>6. \A o \in Objects : ref'[o] \notin free
  BY DEF Unreferenced
<1> HIDE DEF free, freed
<1>7. ASSUME NEW c, NEW v, Good(c, v), c \notin free
      PROVE  Good(c, v)'
  <2>1. /\ status'[c] = status[c] /\ hash'[c] = hash[c] /\ gen'[c] = gen[c]
        /\ file'[PathOf(c)] = file[PathOf(c)]
    BY <1>1, <1>2, <1>7 DEF Good
  <2>2. \A u \in Writers : Adding(u)' => Adding(u) /\ wr'[u].slot = wr[u].slot
    BY <1>2 DEF Adding
  <2> QED
    BY <1>4, <1>7, <2>1, <2>2, GoodKept
<1>8. RefsGood'
  BY <1>6, <1>7 DEF Inv, RefsGood
<1>9. SnapsGood'
  BY <1>1, <1>2, <1>3, <1>7 DEF Inv, SnapsGood
<1>10. ASSUME NEW u \in Writers, Adding(u)'
       PROVE  AddGood(u)'
  <2>1. Adding(u) /\ AddGood(u) /\ wr'[u] = wr[u]
    BY <1>2, <1>10 DEF Adding, Inv, AddsGood
  <2>2. wr[u].slot \in Slot /\ wr[u].slot \notin free
    BY <2>1, <1>1, <1>3 DEF AddGood, Adding
  <2>3. /\ status'[wr[u].slot] = status[wr[u].slot] /\ hash'[wr[u].slot] = hash[wr[u].slot]
        /\ gen'[wr[u].slot] = gen[wr[u].slot]
    BY <1>1, <1>2, <2>2
  <2>4. ~Referenced(wr[u].slot)'
    BY <2>1, <2>2, SlotFacts DEF AddGood, Referenced
  <2>5. \A x \in Writers \ {u} : Adding(x)' => wr'[x].slot # wr[u].slot
    BY <1>2, <2>1 DEF AddGood, Adding
  <2>6. file'[PathOf(wr[u].slot)] = file[PathOf(wr[u].slot)]
    BY <1>2
  <2> QED
    BY <1>4, <2>1, <2>2, <2>3, <2>4, <2>5, <2>6, AddKept
<1>11. EmptyClean'
  BY <1>2, <1>4, <1>5 DEF Inv, EmptyClean
<1>12. StripeWhole'
  <2>1. \A c \in Slot : <<c[1], 0>> \in Slot
    BY SlotFacts DEF StripeOf
  <2>2. \A c \in Slot : status'[c] = "none" <=> c \notin freed /\ status[c] = "none"
    BY <1>2
  <2>3. \A c \in freed : status[c] = "allocated"
    BY DEF freed
  <2> QED
    BY <2>1, <2>2, <2>3 DEF Inv, StripeWhole
<1>13. StaleOld'
  BY ReleaseStale DEF Inv
<1>14. BootIdle' /\ NotLoaded'
  BY <1>2 DEF Inv, BootIdle, NotLoaded
<1> QED
  BY <1>8, <1>9, <1>10, <1>11, <1>12, <1>13, <1>14 DEF Inv, AddsGood

(* The steps of a releaser around the transaction.                         *)
LEMMA ReleaserInv ==
    ASSUME Inv, Typed', NEW r \in Releasers, ~SlowWriters,
           \/ \E O \in (SUBSET Objects) \ {{}} : Purge(r, O)
           \/ ScanOrphans(r) \/ ReleaserStep(r)
    PROVE  Inv'
<1>1. ASSUME NEW O \in SUBSET Objects, Purge(r, O)
      PROVE  Inv'
  <2>1. {ref[o] : o \in O} \in SUBSET Slot
    BY <1>1 DEF Purge, Inv, Typed, TypeOK
  <2>2. \A o \in Objects : ref'[o] # Nil => ref'[o] = ref[o] /\ refHash'[o] = refHash[o]
    BY <1>1 DEF Purge
  <2> QED
    BY <1>1, <2>1, <2>2, ReleaseInv DEF Purge
<1>2. CASE CollectOrphans(r)
  <2>1. rel[r].cand \in SUBSET Slot
    BY DEF Inv, Typed, TypeOK, ReleaserState
  <2>2. UNCHANGED <<ref, refHash>>
    BY <1>2 DEF CollectOrphans
  <2> QED
    BY <1>2, <2>1, <2>2, ReleaseInv DEF CollectOrphans
<1>3. CASE ScanOrphans(r) \/ DeleteParityFile(r) \/ EndRelease(r)
  <2>1. UNCHANGED <<status, hash, gen, ref, refHash, wq, file, wr, boot>>
    BY <1>3 DEF ScanOrphans, DeleteParityFile, EndRelease, dbVars, diskVars
  <2>2. rel \in [Releasers -> ReleaserState]
    BY DEF Inv, Typed, TypeOK
  <2>3. \A q \in Releasers : rel'[q].files \subseteq rel[q].files
    BY <1>3, <2>2 DEF ScanOrphans, DeleteParityFile, EndRelease, IdleReleaser, ReleaserState
  <2> QED
    BY <2>1, <2>3, FrameInv
<1>4. CASE DeleteFile(r)
  <2>1. PICK f \in rel[r].files :
            /\ file' = [file EXCEPT ![f] = Nil] \/ UNCHANGED file
            /\ rel' = [rel EXCEPT ![r].files = @ \ {f}]
    BY <1>4 DEF DeleteFile
  <2>2. UNCHANGED <<status, hash, gen, ref, refHash, wq, wr, boot>>
    BY <1>4 DEF DeleteFile, dbVars
  <2>3. rel \in [Releasers -> ReleaserState] /\ gen \in [Slot -> 0..MaxGen]
        /\ file \in [Path -> Stored \cup {Nil}]
    BY DEF Inv, Typed, TypeOK
  <2>4. f \in Path /\ f[2] < gen[f[1]]
    BY <2>3 DEF ReleaserState, Inv, StaleOld
  <2>5. f[1] \in Slot /\ f[2] \in Int
    BY <2>4 DEF Path
  <2>6. \A c \in Slot : PathOf(c) # f
    BY <2>3, <2>4, <2>5 DEF PathOf
  <2>7. \A c \in Slot : PathOf(c)' = PathOf(c) /\ PathOf(c) \in Path
    BY <2>2, PathFacts DEF PathOf, Inv, Typed
  <2>8. \A c \in Slot : file'[PathOf(c)] = file[PathOf(c)]
    BY <2>1, <2>3, <2>6, <2>7
  <2>9. \A q \in Releasers : rel'[q].files \subseteq rel[q].files
    BY <2>1, <2>3 DEF ReleaserState
  <2> QED
    BY <2>2, <2>8, <2>9, QuietInv DEF Inv, NotLoaded, BootIdle, Adding
<1> QED
  BY <1>1, <1>2, <1>3, <1>4 DEF ReleaserStep

(* A crash and the startup cleanup: no request is under way, and a         *)
(* referenced slot has no row in write_queues to be settled.               *)
LEMMA SystemInv ==
    ASSUME Inv, Typed', Crash \/ Startup
    PROVE  Inv'
<1>1. CASE Crash
  <2>1. UNCHANGED <<status, hash, gen, ref, refHash, wq, file>>
    BY <1>1 DEF Crash, dbVars, diskVars
  <2>2. (\A u \in Writers : wr'[u].pc = "idle") /\ (\A r \in Releasers : rel'[r].files = {})
    BY <1>1 DEF Crash, IdleWriter, IdleReleaser
  <2> QED
    BY <2>1, <2>2, QuietInv DEF NotLoaded, BootIdle, Adding
<1>2. CASE Startup
  <2>1. boot # "up" /\ wq' \subseteq wq
        /\ UNCHANGED <<status, gen, ref, refHash, file, wr, rel>>
    BY <1>2 DEF Startup, FlushAll, DropQueue, Flush, diskVars
  <2>2. \A c \in Slot : QueueOf(c) = {} => hash'[c] = hash[c]
    <3>1. CASE DropQueue
      BY <3>1 DEF DropQueue
    <3>2. CASE FlushAll
      <4> DEFINE failed == {pr[2].chunk : pr \in {q \in DonePairs(Slot) : q[2].mark = "fail"}}
      <4>1. PICK unread \in SUBSET failed :
                hash' = [c \in Slot |-> IF c \in failed \ unread /\ file[PathOf(c)] # Nil
                                        THEN file[PathOf(c)] ELSE hash[c]]
        BY <3>2 DEF FlushAll, Flush
      <4>2. \A c \in failed : QueueOf(c) # {}
        BY DEF DonePairs, QueueOf
      <4> HIDE DEF failed
      <4> QED
        BY <4>1, <4>2
    <3> QED
      BY <1>2, <3>1, <3>2 DEF Startup
  <2>3. \A u \in Writers : wr[u].pc = "idle"
    BY <2>1 DEF Inv, BootIdle
  <2>4. \A c : QueueOf(c)' \subseteq QueueOf(c)
    BY <2>1 DEF QueueOf
  <2>5. ASSUME NEW c, NEW v, Good(c, v)
        PROVE  Good(c, v)'
    BY <2>1, <2>2, <2>3, <2>4, <2>5 DEF Good, PathOf, Adding
  <2>6. RefsGood' /\ SnapsGood' /\ AddsGood'
    BY <2>1, <2>3, <2>5 DEF Inv, RefsGood, SnapsGood, AddsGood, Adding
  <2>7. EmptyClean' /\ StripeWhole' /\ StaleOld' /\ BootIdle' /\ NotLoaded'
    BY <2>1, <2>3, <2>4 DEF Inv, EmptyClean, StripeWhole, StaleOld, BootIdle, NotLoaded
  <2> QED
    BY <2>6, <2>7 DEF Inv
<1> QED
  BY <1>1, <1>2

LEMMA NextInv == ~Overwriting /\ ~SlowWriters /\ Inv /\ [Next]_vars => Inv'
<1> SUFFICES ASSUME ~Overwriting, ~SlowWriters, Inv, [Next]_vars PROVE Inv'
  OBVIOUS
<1>t. Typed'
  BY NextTyped DEF Inv
<1>1. CASE UNCHANGED vars
  BY <1>1, <1>t, FrameInv DEF vars, dbVars, diskVars
<1>2. CASE Next
  BY <1>2, <1>t, WriterInv, WorkerInv, ReleaserInv, SystemInv DEF Next, Releasers
<1> QED
  BY <1>1, <1>2

LEMMA InvAlways == ASSUME ~Overwriting, ~SlowWriters PROVE Spec => []Inv
<1>1. Init => Inv
  BY InitInv
<1>2. Inv /\ [Next]_vars => Inv'
  BY NextInv
<1> QED
  BY <1>1, <1>2, PTL DEF Spec

-----------------------------------------------------------------------------
(* A version_chunks row names a written chunk whose row and file hold what *)
(* the row was made for, as long as no chunk is overwritten in place and   *)
(* no release meets a chunk a request holds half way.                      *)
THEOREM SlicesReadable ==
    ASSUME ~Overwriting, ~SlowWriters PROVE Spec => []RefsReadable
<1>1. Inv => RefsReadable
  BY DEF Inv, RefsGood, RefsReadable, Good
<1> QED
  BY <1>1, InvAlways, PTL

(* Under the same conditions an AddChunks under way has its slot to itself.*)
THEOREM SlotsExclusive ==
    ASSUME ~Overwriting, ~SlowWriters PROVE Spec => []ExclusiveSlots
<1>1. Inv => ExclusiveSlots
  <2> SUFFICES ASSUME Inv, NEW w \in Writers, Storing(w)
               PROVE  /\ ~Referenced(wr[w].slot)
                      /\ \A u \in Writers \ {w} : ~Holds(u, wr[w].slot)
    BY DEF ExclusiveSlots
  <2>1. \A u \in Writers : wr[u].pc \in WriterPc /\ wr[u].pc # "loaded"
    BY DEF Inv, Typed, TypeOK, WriterState, NotLoaded
  <2>2. Adding(w) /\ AddGood(w)
    BY <2>1 DEF Storing, InFlight, WriterPc, Adding, Inv, AddsGood
  <2>3. ASSUME NEW u \in Writers \ {w}, Holds(u, wr[w].slot)
        PROVE  FALSE
    <3>1. Adding(u) \/ wr[u].pc = "snapshot"
      BY <2>1, <2>3 DEF Holds, InFlight, WriterPc, Adding
    <3>2. ~Adding(u)
      BY <2>2, <2>3 DEF AddGood, Holds
    <3>3. Good(wr[u].slot, wr[u].val)
      BY <3>1, <3>2 DEF Inv, SnapsGood
    <3> QED
      BY <2>2, <2>3, <3>3 DEF Good, Holds
  <2> QED
    BY <2>2, <2>3 DEF AddGood
<1> QED
  BY <1>1, InvAlways, PTL

LEMMA StaleKept == Typed /\ StaleOld /\ [Next]_vars => StaleOld'
<1> SUFFICES ASSUME Typed, StaleOld, [Next]_vars PROVE StaleOld'
  OBVIOUS
<1>r. rel \in [Releasers -> ReleaserState]
  BY DEF Typed, TypeOK
<1>1. ASSUME UNCHANGED gen, \A q \in Releasers : rel'[q].files \subseteq rel[q].files
      PROVE  StaleOld'
  BY <1>1 DEF StaleOld
<1>2. ASSUME NEW r \in Releasers, NEW O \in SUBSET Objects, Purge(r, O)
      PROVE  StaleOld'
  <2>1. {ref[o] : o \in O} \in SUBSET Slot
    BY <1>2 DEF Purge, Typed, TypeOK
  <2> QED
    BY <1>2, <2>1, ReleaseStale DEF Purge
<1>3. ASSUME NEW r \in Releasers, ScanOrphans(r) \/ ReleaserStep(r)
      PROVE  StaleOld'
  <2>1. CASE CollectOrphans(r)
    <3>1. rel[r].cand \in SUBSET Slot
      BY <1>r DEF ReleaserState
    <3> QED
      BY <2>1, <3>1, ReleaseStale DEF CollectOrphans
  <2>2. CASE ScanOrphans(r)
    BY <2>2, <1>1, <1>r DEF ScanOrphans, dbVars, ReleaserState
  <2>3. CASE DeleteFile(r)
    BY <2>3, <1>1, <1>r DEF DeleteFile, dbVars, ReleaserState
  <2>4. CASE DeleteParityFile(r) \/ EndRelease(r)
    BY <2>4, <1>1, <1>r DEF DeleteParityFile, EndRelease, dbVars, ReleaserState, IdleReleaser
  <2> QED
    BY <1>3, <2>1, <2>2, <2>3, <2>4 DEF ReleaserStep
<1>4. CASE \/ \E w \in Writers : \/ Allocate(w) \/ LoadForOverwrite(w) \/ ReadSnapshot(w)
                                 \/ WriterStep(w)
           \/ WorkerStep \/ (\E s \in Stripe : Age(s)) \/ Startup \/ UNCHANGED vars
  <2>1. UNCHANGED <<gen, rel>>
    <3>1. CASE \E w \in Writers : \/ Allocate(w) \/ LoadForOverwrite(w) \/ ReadSnapshot(w)
                                  \/ WriterStep(w)
      BY <3>1 DEF Allocate, LoadForOverwrite, ReadSnapshot, WriterStep, UpdateMetadata, Intend,
         OpenFile, CompleteFile, FailFile, Record, FlushOwn, PutRef, Inherit, FailStatement,
         unchangedByWriters, dbVars
    <3>2. CASE WorkerStep
      BY <3>2 DEF WorkerStep, Claim, LoadMeta, CommitBatch, AbandonBatch, ReadShard,
         WriteParity, unchangedByWorker
    <3>3. CASE (\E s \in Stripe : Age(s)) \/ Startup \/ UNCHANGED vars
      BY <3>3 DEF Age, Startup, FlushAll, DropQueue, vars, dbVars
    <3> QED
      BY <1>4, <3>1, <3>2, <3>3
  <2> QED
    BY <1>1, <2>1
<1>5. CASE Crash
  BY <1>1, <1>5 DEF Crash, dbVars, IdleReleaser
<1> QED
  BY <1>2, <1>3, <1>4, <1>5 DEF Next, Releasers

(* A file waiting to be deleted never is a chunk's current path, whatever  *)
(* the timing: DeleteStaleFiles may be as late as it likes.                *)
THEOREM LateDeletesHarmless == Spec => []StaleNeverCurrent
<1>1. Init => Typed /\ StaleOld
  BY InitTyped DEF Init, StaleOld, IdleReleaser
<1>2. Typed /\ StaleOld /\ [Next]_vars => (Typed /\ StaleOld)'
  BY NextTyped, StaleKept
<1>3. Typed /\ StaleOld => StaleNeverCurrent
  <2> SUFFICES ASSUME Typed, StaleOld, NEW r \in Releasers, NEW f \in rel[r].files
               PROVE  f # PathOf(f[1])
    BY DEF StaleNeverCurrent
  <2>1. f \in Path /\ f[2] < gen[f[1]]
    BY DEF Typed, TypeOK, ReleaserState, StaleOld
  <2>2. f[1] \in Slot /\ gen[f[1]] \in Nat
    BY <2>1 DEF Path, Typed, TypeOK
  <2> QED
    BY <2>1, <2>2 DEF PathOf
<1> QED
  BY <1>1, <1>2, <1>3, PTL DEF Spec

-----------------------------------------------------------------------------
(* What a reader gets from the pool is what the references promise.        *)
LEMMA ContentIs ==
    Inv => Content = [o \in Objects |-> IF ref[o] = Nil THEN Nil ELSE refHash[o]]
<1> SUFFICES ASSUME Inv
             PROVE  Content = [o \in Objects |-> IF ref[o] = Nil THEN Nil ELSE refHash[o]]
  OBVIOUS
<1>1. \A o \in Objects : ref[o] # Nil => ReadBack(ref[o]) = refHash[o]
  BY SentinelAssumption DEF Inv, RefsGood, Good, ReadBack
<1> QED
  BY <1>1 DEF Content

LEMMA ContentNext ==
    ASSUME Inv'
    PROVE  Content' = [o \in Objects |-> IF ref'[o] = Nil THEN Nil ELSE refHash'[o]]
<1>1. \A o \in Objects : ref'[o] # Nil => ReadBack(ref[o])' = refHash'[o]
  BY SentinelAssumption DEF Inv, RefsGood, Good, ReadBack
<1> QED
  BY <1>1 DEF Content

LEMMA PutRefines ==
    ASSUME Inv, Inv', NEW w \in Writers, PutRef(w) \/ Inherit(w)
    PROVE  \E o \in Objects : Store!Put(o)
<1>1. PICK c, v, x : c = wr[w].slot /\ v = wr[w].val /\ x = wr[w].obj
  OBVIOUS
<1>2. c \in Slot /\ v \in Data /\ x \in Objects
  BY <1>1 DEF PutRef, Inherit, Inv, AddsGood, AddGood, Adding, SnapsGood, Good
<1>3. ref' = [ref EXCEPT ![x] = c] /\ refHash' = [refHash EXCEPT ![x] = v]
  BY <1>1 DEF PutRef, Inherit
<1>4. ref \in [Objects -> Slot \cup {Nil}] /\ refHash \in [Objects -> Data \cup {Nil}]
  BY DEF Inv, Typed, TypeOK
<1>5. Content' = [o \in Objects |-> IF ref'[o] = Nil THEN Nil ELSE refHash'[o]]
  BY ContentNext
<1>6. Content' = [Content EXCEPT ![x] = v]
  BY <1>2, <1>3, <1>4, <1>5, ContentIs, SlotFacts
<1> QED
  BY <1>2, <1>6 DEF Store!Put

LEMMA PurgeRefines ==
    ASSUME Inv, Inv', NEW r \in Purgers, NEW O \in SUBSET Objects, Purge(r, O)
    PROVE  Store!Purge(O)
<1>1. Content' = [o \in Objects |-> IF ref'[o] = Nil THEN Nil ELSE refHash'[o]]
  BY ContentNext
<1>2. /\ ref'     = [o \in Objects |-> IF o \in O THEN Nil ELSE ref[o]]
      /\ refHash' = [o \in Objects |-> IF o \in O THEN Nil ELSE refHash[o]]
  BY DEF Purge
<1>3. Content' = [o \in Objects |-> IF o \in O THEN Nil ELSE Content[o]]
  BY <1>1, <1>2, ContentIs
<1> QED
  BY <1>3 DEF Store!Purge

(* Every other step leaves the references alone and stutters.              *)
LEMMA OthersStutter ==
    ASSUME Inv, Inv', UNCHANGED <<ref, refHash>>
    PROVE  UNCHANGED Content
<1>1. Content' = [o \in Objects |-> IF ref'[o] = Nil THEN Nil ELSE refHash'[o]]
  BY ContentNext
<1> QED
  BY <1>1, ContentIs

LEMMA StepRefines ==
    ASSUME Inv, Inv', [Next]_vars, ~Overwriting
    PROVE  [Store!Next]_Content
<1>1. ASSUME NEW w \in Writers, PutRef(w) \/ Inherit(w)
      PROVE  [Store!Next]_Content
  BY <1>1, PutRefines DEF Store!Next
<1>2. ASSUME NEW r \in Purgers, NEW O \in SUBSET Objects, Purge(r, O)
      PROVE  [Store!Next]_Content
  BY <1>2, PurgeRefines DEF Store!Next
<1>3. ASSUME UNCHANGED <<ref, refHash>>
      PROVE  [Store!Next]_Content
  BY <1>3, OthersStutter
<1>4. ASSUME NEW w \in Writers,
             Allocate(w) \/ LoadForOverwrite(w) \/ ReadSnapshot(w) \/ WriterStep(w)
      PROVE  [Store!Next]_Content
  <2>1. PutRef(w) \/ Inherit(w) \/ UNCHANGED <<ref, refHash>>
    BY <1>4 DEF Allocate, LoadForOverwrite, ReadSnapshot, WriterStep, UpdateMetadata, Intend,
       OpenFile, CompleteFile, FailFile, Record, FlushOwn, FailStatement, dbVars
  <2> QED
    BY <1>1, <1>3, <2>1
<1>5. CASE \/ WorkerStep \/ (\E r \in Releasers : ScanOrphans(r) \/ ReleaserStep(r))
           \/ (\E s \in Stripe : Age(s)) \/ Crash \/ Startup \/ UNCHANGED vars
  <2>1. UNCHANGED <<ref, refHash>>
    <3>1. CASE WorkerStep
      BY <3>1 DEF WorkerStep, Claim, LoadMeta, CommitBatch, AbandonBatch, ReadShard,
         WriteParity, unchangedByWorker
    <3>2. CASE \E r \in Releasers : ScanOrphans(r) \/ ReleaserStep(r)
      BY <3>2 DEF ScanOrphans, ReleaserStep, CollectOrphans, DeleteFile, DeleteParityFile,
         EndRelease, dbVars
    <3>3. CASE (\E s \in Stripe : Age(s)) \/ Crash \/ Startup \/ UNCHANGED vars
      BY <3>3 DEF Age, Crash, Startup, FlushAll, DropQueue, vars, dbVars
    <3> QED
      BY <1>5, <3>1, <3>2, <3>3
  <2> QED
    BY <1>3, <2>1
<1> QED
  BY <1>2, <1>4, <1>5 DEF Next, Releasers

(* Under the same two conditions the pool implements the map its callers   *)
(* see: a slice reads back as it was stored until a later put or a purge   *)
(* of that very entry.                                                     *)
THEOREM PoolImplementsStore ==
    ASSUME ~Overwriting, ~SlowWriters PROVE Spec => ImplementsObjectStore
<1>1. Init => Store!Init
  BY DEF Init, Store!Init, Content
<1>2. Inv /\ Inv' /\ [Next]_vars => [Store!Next]_Content
  BY StepRefines
<1> QED
  BY <1>1, <1>2, InvAlways, PTL DEF Spec, ImplementsObjectStore, Store!Spec
-----------------------------------------------------------------------------
(***************************************************************************)
(* Parity and erasure.  From here on no step fails, the process does not   *)
(* stop, and releases keep away from requests and batches under way; a     *)
(* chunk may be overwritten in place, by any number of requests at a time. *)
(***************************************************************************)
Faultless ==
    /\ ~DiskFaults /\ ~DbFaults /\ MaxCrash = 0
    /\ ~SlowWriters /\ ~SlowBatches

(* The chunk of a request keeps its row and path until the request ends.   *)
Taken(w) ==
    /\ wr[w].pc \notin {"idle", "snapshot"} =>
            wr[w].path = PathOf(wr[w].slot) /\ wr[w].val \in Data
    /\ Adding(w) => status[wr[w].slot] = "allocated"
    /\ wr[w].pc = "loaded" => status[wr[w].slot] # "none"
RowsTaken == \A w \in Writers : Taken(w)

(* A written chunk has a file, or a request that is about to make one.     *)
FileThere ==
    \A c \in Slot : status[c] = "allocated" /\ file[PathOf(c)] = Nil =>
        \E w \in Writers : wr[w].pc \in {"allocated", "intended"} /\ wr[w].slot = c

(* The Running rows are those of the batch, which has jobs for stripes     *)
(* with data only, and reads all of their data before it writes parity.    *)
BatchIs == boot = "up" /\ run = kbatch /\ (kpc = "idle" => kbatch = {})
Begun(p) == /\ StripeOf(p) \in kjob
            /\ \A c \in ToRead(StripeOf(p)) : kgot[c] # Nil
JobsLive ==
    /\ kjob \subseteq kbatch
    /\ kpc # "computing" => kjob = {}
    /\ \A s \in kjob : LiveStripe(s)
    /\ \A p \in Parity : kput[p] # "todo" => Begun(p)
ParityLive == \A p \in Parity : pstatus[p] = "allocated" => LiveStripe(StripeOf(p))

(* What is left of former contents is on the list of a release that is     *)
(* deleting it; a parity file has its row, or a batch that is at it.       *)
ListsOpen == \A r \in Releasers : rel[r].pc # "deleting" => rel[r].files = {} /\ rel[r].parities = {}
FormerListed ==
    \A c \in Slot, g \in 0..MaxGen : g < gen[c] /\ file[<<c, g>>] # Nil =>
        \E r \in Releasers : <<c, g>> \in rel[r].files
ParityKnown ==
    \A p \in Parity : pfile[p] # Nil =>
        \/ pstatus[p] = "allocated" \/ kput[p] # "todo"
        \/ \E r \in Releasers : p \in rel[r].parities

Rows    == EmptyClean /\ StripeWhole /\ RowsTaken /\ FileThere
Batch   == BatchIs /\ JobsLive /\ ParityLive
Listed  == ListsOpen /\ FormerListed /\ ParityKnown
Settled == Typed /\ StaleOld /\ Rows /\ Batch /\ Listed

(* The data of s have changed, or are about to, since they were queued for *)
(* the worker last.                                                        *)
Touches(w, s) ==
    wr[w].pc \in {"allocated", "intended", "opened", "written"} /\ StripeOf(wr[w].slot) = s
Unsettled(s) ==
    \/ s \in pend
    \/ \E c \in SlotsOf(s) : QueueOf(c) # {}
    \/ \E w \in Writers : Touches(w, s)

(* A batch has the rows of now of a stripe, and what it read and wrote is  *)
(* what the disks hold; a stripe that is not in the batch has the parity   *)
(* of its data.                                                            *)
Current(s) ==
    /\ s \in kjob <=> LiveStripe(s)
    /\ \A c \in SlotsOf(s) :
        /\ kpath[c] = IF status[c] = "allocated" THEN PathOf(c) ELSE Nil
        /\ kgot[c] # Nil => kpath[c] # Nil /\ kgot[c] = file[PathOf(c)]
    /\ \A p \in ParityOf(s) : kput[p] = "done" => pfile[p] = Encoded(s)
Coded(s) ==
    \A p \in ParityOf(s) :
        pstatus[p] = "allocated" /\ phash[p] = Shards(s) /\ pfile[p] = Shards(s)
UpToDate ==
    \A s \in Stripe : ~Unsettled(s) =>
        /\ s \in kbatch /\ kpc = "computing" => Current(s)
        /\ s \notin kbatch /\ LiveStripe(s) => Coded(s)
StaleApart ==
    \A r \in Releasers : \A p \in rel[r].parities :
        pstatus[p] # "allocated" /\ StripeOf(p) \notin kbatch

Synced == Settled /\ UpToDate /\ StaleApart
-----------------------------------------------------------------------------
(* Requests.                                                               *)

Same(s) == \A c \in SlotsOf(s) : status'[c] = status[c] /\ file'[PathOf(c)] = file[PathOf(c)]

(* What a step of request w does to the rest.                              *)
Writes(w) ==
    /\ UNCHANGED <<gen, phash, run, pfile, workerVars, rel, boot>>
    /\ \A u \in Writers \ {w} : wr'[u] = wr[u]
    /\ \A c \in Slot : status[c] = "allocated" => status'[c] = "allocated"
    /\ \A c \in Slot : status[c] # "none" => status'[c] # "none"
    /\ \A p \in Parity : pstatus'[p] = "allocated" <=> pstatus[p] = "allocated"
    /\ \A c \in Slot : QueueOf(c)' \subseteq QueueOf(c) \/ status'[c] = "allocated"
    /\ \A f \in Path : file'[f] = file[f] \/ (f = PathOf(f[1]) /\ file'[f] # Nil)
    /\ \A c \in Slot : status'[c] = "allocated" /\ status[c] # "allocated" =>
            wr'[w].pc = "allocated" /\ wr'[w].slot = c
    /\ wr[w].pc \in {"allocated", "intended"} =>
            \/ wr'[w].pc \in {"allocated", "intended"} /\ wr'[w].slot = wr[w].slot
            \/ file'[PathOf(wr[w].slot)] # Nil
    /\ StripeWhole'
    /\ Taken(w)'
    /\ \A s \in Stripe : Unsettled(s)' \/ (~Unsettled(s) /\ Same(s))

LEMMA PathIn == \A c \in Slot : Typed => PathOf(c) \in Path /\ PathOf(c)[1] = c
  BY PathFacts DEF Typed, PathOf

LEMMA ShardSlots ==
    /\ \A s \in Stripe, i \in Shard : <<s, i>> \in SlotsOf(s)
    /\ \A s : \A c \in SlotsOf(s) : c \in Slot /\ StripeOf(c) = s /\ c[2] \in Shard /\ c = <<s, c[2]>>
    /\ \A c \in Slot : c \in SlotsOf(StripeOf(c))
    /\ \A s : \A p \in ParityOf(s) : p \in Parity /\ StripeOf(p) = s
    /\ \A p \in Parity : p \in ParityOf(StripeOf(p)) /\ StripeOf(p) \in Stripe
  BY DEF SlotsOf, Slot, StripeOf, ParityOf, Parity

(* Stripes whose data stay where they are have the same shards.            *)
LEMMA SameShards ==
    ASSUME NEW s \in Stripe, Same(s), UNCHANGED gen
    PROVE  Shards(s)' = Shards(s) /\ LiveStripe(s)' = LiveStripe(s)
<1>1. \A c \in SlotsOf(s) : PathOf(c)' = PathOf(c)
  BY DEF PathOf
<1>2. \A c \in SlotsOf(s) : status'[c] = status[c] /\ file'[PathOf(c)'] = file[PathOf(c)]
  BY <1>1 DEF Same
<1>3. \A i \in Shard : <<s, i>> \in SlotsOf(s)
  BY ShardSlots
<1>4. \A i \in Shard :
        (IF status'[<<s, i>>] = "allocated" THEN file'[PathOf(<<s, i>>)'] ELSE Nil)
        = (IF status[<<s, i>>] = "allocated" THEN file[PathOf(<<s, i>>)] ELSE Nil)
  BY <1>2, <1>3
<1>5. Shards(s)' = [i \in Shard |-> IF status'[<<s, i>>] = "allocated"
                                    THEN file'[PathOf(<<s, i>>)'] ELSE Nil]
  BY DEF Shards
<1>6. Shards(s)' = Shards(s)
  BY <1>4, <1>5 DEF Shards
<1> QED
  BY <1>2, <1>6 DEF LiveStripe

LEMMA WritesSettled ==
    ASSUME Settled, Typed', StaleOld', NEW w \in Writers, Writes(w)
    PROVE  Settled'
<1> USE DEF Settled
<1>0. \A c \in Slot : PathOf(c)' = PathOf(c)
  BY DEF Writes, PathOf
<1>l. \A s : LiveStripe(s) => LiveStripe(s)'
  BY ShardSlots DEF LiveStripe, Writes
<1>1. EmptyClean'
  BY DEF Rows, EmptyClean, Writes
<1>2. StripeWhole'
  BY DEF Writes
<1>3. RowsTaken'
  <2> SUFFICES ASSUME NEW u \in Writers PROVE Taken(u)'
    BY DEF RowsTaken
  <2>1. CASE u = w
    BY <2>1 DEF Writes
  <2>2. CASE u # w
    <3>1. Taken(u) /\ wr'[u] = wr[u]
      BY <2>2 DEF Rows, RowsTaken, Writes
    <3>2. wr[u].pc # "idle" => wr[u].slot \in Slot
      BY DEF Typed, WriterSlots
    <3> QED
      BY <1>0, <3>1, <3>2 DEF Taken, Adding, Writes
  <2> QED
    BY <2>1, <2>2
<1>4. FileThere'
  <2> SUFFICES ASSUME NEW c \in Slot, status'[c] = "allocated", file'[PathOf(c)] = Nil
               PROVE  \E u \in Writers : wr'[u].pc \in {"allocated", "intended"} /\ wr'[u].slot = c
    BY <1>0 DEF FileThere
  <2>1. CASE status[c] # "allocated"
    BY <2>1 DEF Writes
  <2>2. CASE status[c] = "allocated"
    <3>1. file[PathOf(c)] = Nil
      BY PathIn DEF Writes
    <3>2. PICK u \in Writers : wr[u].pc \in {"allocated", "intended"} /\ wr[u].slot = c
      BY <2>2, <3>1 DEF Rows, FileThere
    <3> QED
      BY <3>2 DEF Writes
  <2> QED
    BY <2>1, <2>2
<1>5. BatchIs'
  BY DEF Batch, BatchIs, Writes, workerVars
<1>6. JobsLive'
  BY <1>l DEF Batch, JobsLive, Begun, ToRead, Writes, workerVars
<1>7. ParityLive'
  BY <1>l DEF Batch, ParityLive, Writes
<1>8. ListsOpen' /\ ParityKnown'
  BY DEF Listed, ListsOpen, ParityKnown, Writes, workerVars
<1>9. FormerListed'
  <2> SUFFICES ASSUME NEW c \in Slot, NEW g \in 0..MaxGen, g < gen[c], file'[<<c, g>>] # Nil
               PROVE  \E r \in Releasers : <<c, g>> \in rel'[r].files
    BY DEF FormerListed, Writes
  <2>1. <<c, g>> \in Path /\ gen[c] \in Nat
    BY ShapeAssumption DEF Path, Typed, TypeOK
  <2>2. <<c, g>> # PathOf(c)
    BY <2>1 DEF PathOf
  <2>3. file'[<<c, g>>] = file[<<c, g>>]
    BY <2>1, <2>2 DEF Writes
  <2> QED
    BY <2>3 DEF Listed, FormerListed, Writes
<1> QED
  BY <1>1, <1>2, <1>3, <1>4, <1>5, <1>6, <1>7, <1>8, <1>9 DEF Rows, Batch, Listed

LEMMA WritesSynced ==
    ASSUME Synced, Typed', StaleOld', NEW w \in Writers, Writes(w)
    PROVE  Synced'
<1>1. Settled'
  BY WritesSettled DEF Synced
<1>2. StaleApart'
  <2>1. \A r \in Releasers : rel[r].parities \subseteq Parity
    BY DEF Synced, Settled, Typed, TypeOK, ReleaserState
  <2> QED
    BY <2>1 DEF Synced, StaleApart, Writes, workerVars
<1>3. UpToDate'
  <2> SUFFICES ASSUME NEW s \in Stripe, ~Unsettled(s)'
               PROVE  /\ s \in kbatch' /\ kpc' = "computing" => Current(s)'
                      /\ s \notin kbatch' /\ LiveStripe(s)' => Coded(s)'
    BY DEF UpToDate
  <2>1. ~Unsettled(s) /\ Same(s) /\ UNCHANGED <<gen, workerVars, phash, pfile>>
    BY DEF Writes
  <2>2. Shards(s)' = Shards(s) /\ LiveStripe(s)' = LiveStripe(s)
    BY <2>1, SameShards
  <2>3. \A c \in SlotsOf(s) : /\ PathOf(c)' = PathOf(c) /\ status'[c] = status[c]
                              /\ file'[PathOf(c)'] = file[PathOf(c)]
    BY <2>1 DEF PathOf, Same
  <2>4. /\ s \in kbatch /\ kpc = "computing" => Current(s)
        /\ s \notin kbatch /\ LiveStripe(s) => Coded(s)
    BY <2>1 DEF Synced, UpToDate
  <2>5. Current(s) => Current(s)'
    BY <2>1, <2>2, <2>3 DEF Current, Encoded, workerVars
  <2>6. Coded(s) => Coded(s)'
    BY <2>1, <2>2, ShardSlots DEF Coded, Writes
  <2> QED
    BY <2>1, <2>2, <2>4, <2>5, <2>6 DEF workerVars
<1> QED
  BY <1>1, <1>2, <1>3 DEF Synced

(* The parts of Writes that hold of a step that leaves the tables of       *)
(* chunks and the files alone.                                             *)
LEMMA TablesKept ==
    ASSUME Settled, NEW w \in Writers, wr[w].pc \notin {"allocated", "intended"},
           UNCHANGED <<status, gen, phash, pstatus, run, pfile, file, workerVars, rel, boot>>,
           \A u \in Writers \ {w} : wr'[u] = wr[u],
           \A c \in Slot : QueueOf(c)' \subseteq QueueOf(c) \/ status[c] = "allocated",
           Taken(w)',
           \A s \in Stripe : Unsettled(s)' \/ ~Unsettled(s)
    PROVE  Writes(w)
  BY DEF Writes, Same, Settled, Rows, StripeWhole

LEMMA NobodyElse ==
    ASSUME NEW w \in Writers, \A u \in Writers \ {w} : wr'[u] = wr[u], NEW s
    PROVE  (\E u \in Writers : Touches(u, s)) => Touches(w, s) \/ (\E u \in Writers : Touches(u, s))'
  BY DEF Touches

LEMMA ReadWrites ==
    ASSUME Settled, NEW w \in Writers, LoadForOverwrite(w) \/ ReadSnapshot(w)
    PROVE  Writes(w)
<1>0. wr \in [Writers -> WriterState]
  BY DEF Settled, Typed, TypeOK
<1>1. /\ UNCHANGED <<dbVars, file, pfile, workerVars, rel, boot>>
      /\ \A u \in Writers \ {w} : wr'[u] = wr[u]
      /\ wr[w].pc = "idle"
  BY <1>0 DEF LoadForOverwrite, ReadSnapshot
<1>2. Taken(w)'
  <2>1. CASE LoadForOverwrite(w)
    <3>1. PICK c \in Slot, v \in Data :
              /\ status[c] # "none"
              /\ wr' = [wr EXCEPT ![w] = [pc |-> "loaded", slot |-> c, path |-> PathOf(c),
                                          val |-> v, obj |-> Nil, ok |-> TRUE, fresh |-> FALSE]]
      BY <2>1 DEF LoadForOverwrite
    <3>2. wr'[w].pc = "loaded" /\ wr'[w].slot = c /\ wr'[w].path = PathOf(c) /\ wr'[w].val = v
          /\ status[c] # "none"
      BY <1>0, <3>1
    <3>3. PathOf(c)' = PathOf(c)
      BY <1>1 DEF PathOf, dbVars
    <3> QED
      BY <1>1, <3>2, <3>3 DEF Taken, Adding, dbVars
  <2>2. CASE ReadSnapshot(w)
    <3>1. wr'[w].pc = "snapshot"
      BY <1>0, <2>2 DEF ReadSnapshot
    <3> QED
      BY <3>1 DEF Taken, Adding
  <2> QED
    BY <2>1, <2>2
<1>3. \A s \in Stripe : Unsettled(s)' \/ ~Unsettled(s)
  BY <1>1, NobodyElse DEF Unsettled, Touches, dbVars, QueueOf
<1> QED
  BY <1>1, <1>2, <1>3, TablesKept DEF dbVars, QueueOf

LEMMA EndWrites ==
    ASSUME Settled, NEW w \in Writers, PutRef(w) \/ Inherit(w)
    PROVE  Writes(w)
<1>1. /\ UNCHANGED <<status, hash, aged, pstatus, phash, wq, pend, run, file>>
      /\ UNCHANGED <<gen, workerVars, rel, boot, pfile>>
      /\ wr' = [wr EXCEPT ![w] = IdleWriter]
      /\ wr[w].pc \in {"flushed", "snapshot"}
  BY DEF PutRef, Inherit, unchangedByWriters
<1>2. wr'[w].pc = "idle" /\ \A u \in Writers \ {w} : wr'[u] = wr[u]
  BY <1>1, ResetFacts DEF Settled
<1>3. \A s \in Stripe : Unsettled(s)' \/ ~Unsettled(s)
  BY <1>1, <1>2, NobodyElse DEF Unsettled, Touches, QueueOf
<1>4. Taken(w)'
  BY <1>2 DEF Taken, Adding
<1> QED
  BY <1>1, <1>2, <1>3, <1>4, TablesKept DEF QueueOf

LEMMA EnqueueGrows ==
    ASSUME NEW c \in Slot, NEW m, Enqueue(c, m)
    PROVE  /\ QueueOf(c)' # {}
           /\ \A d : d # c => QueueOf(d)' = QueueOf(d)
           /\ \A d : QueueOf(d) # {} => QueueOf(d)' # {}
<1>1. PICK n \in QueueId : wq' = wq \cup {[chunk |-> c, id |-> n, mark |-> m]}
  BY DEF Enqueue
<1> DEFINE row == [chunk |-> c, id |-> n, mark |-> m]
<1>2. row.chunk = c /\ row \in wq'
  BY <1>1
<1>3. \A q : q \in wq' <=> q \in wq \/ q = row
  BY <1>1
<1> HIDE DEF row
<1> QED
  BY <1>2, <1>3 DEF QueueOf

(* The request goes on, and its slot is unsettled meanwhile.               *)
LEMMA GoesOn ==
    ASSUME Settled, NEW w \in Writers, NEW pc, Advance(w, pc),
           pc \in WriterPc \ {"snapshot", "idle"},
           pc # "loaded", wr[w].pc \notin {"idle", "snapshot"}, UNCHANGED gen,
           status'[wr[w].slot] = "allocated"
    PROVE  /\ \A u \in Writers \ {w} : wr'[u] = wr[u]
           /\ wr'[w].pc = pc /\ wr'[w].slot = wr[w].slot
           /\ wr[w].slot \in Slot /\ wr[w].path = PathOf(wr[w].slot) /\ wr[w].val \in Data
           /\ PathOf(wr[w].slot) \in Path
           /\ Taken(w)'
<1>1. /\ \A u \in Writers \ {w} : wr'[u] = wr[u]
      /\ wr'[w].pc = pc /\ wr'[w].slot = wr[w].slot /\ wr'[w].path = wr[w].path
      /\ wr'[w].val = wr[w].val
  BY AdvanceFacts DEF Settled
<1>2. wr[w].slot \in Slot
  BY DEF Settled, Typed, WriterSlots
<1>3. wr[w].path = PathOf(wr[w].slot) /\ wr[w].val \in Data
  BY DEF Settled, Rows, RowsTaken, Taken
<1>4. \A c : PathOf(c)' = PathOf(c)
  BY DEF PathOf
<1>5. Taken(w)'
  BY <1>1, <1>3, <1>4 DEF Taken, Adding, WriterPc
<1>6. PathOf(wr[w].slot) \in Path
  BY <1>2, PathIn DEF Settled
<1> QED
  BY <1>1, <1>2, <1>3, <1>5, <1>6

LEMMA IntendWrites ==
    ASSUME Settled, NEW w \in Writers, Intend(w)
    PROVE  Writes(w)
<1>1. wr[w].pc = "allocated" /\ status[wr[w].slot] = "allocated" /\ Advance(w, "intended")
      /\ Enqueue(wr[w].slot, "pending")
      /\ UNCHANGED <<status, hash, aged, pstatus, phash, ref, refHash, pend, run, file>>
      /\ UNCHANGED <<gen, workerVars, rel, boot, crashes, pfile>>
  BY DEF Intend, Settled, Rows, RowsTaken, Taken, Adding, unchangedByWriters
<1>2. /\ \A u \in Writers \ {w} : wr'[u] = wr[u]
      /\ wr'[w].pc = "intended" /\ wr'[w].slot = wr[w].slot /\ wr[w].slot \in Slot /\ Taken(w)'
  BY <1>1, GoesOn DEF WriterPc
<1>3. /\ \A d : d # wr[w].slot => QueueOf(d)' = QueueOf(d)
      /\ \A d : QueueOf(d) # {} => QueueOf(d)' # {}
  BY <1>1, <1>2, EnqueueGrows
<1>4. \A s \in Stripe : Unsettled(s)' \/ ~Unsettled(s)
  BY <1>1, <1>2, <1>3, NobodyElse DEF Unsettled, Touches
<1>5. \A c \in Slot : QueueOf(c)' \subseteq QueueOf(c) \/ status'[c] = "allocated"
  BY <1>1, <1>3
<1>6. StripeWhole' /\ \A s : Same(s)
  BY <1>1 DEF Settled, Rows, StripeWhole, Same
<1> QED
  BY <1>1, <1>2, <1>4, <1>5, <1>6 DEF Writes

LEMMA RecordWrites ==
    ASSUME Settled, NEW w \in Writers, Record(w)
    PROVE  Writes(w)
<1> DEFINE m == IF wr[w].ok THEN "success" ELSE "fail"
<1>1. wr[w].pc = "written" /\ status[wr[w].slot] = "allocated" /\ Advance(w, "recorded")
      /\ Enqueue(wr[w].slot, m)
      /\ UNCHANGED <<status, hash, aged, pstatus, phash, ref, refHash, pend, run, file>>
      /\ UNCHANGED <<gen, workerVars, rel, boot, crashes, pfile>>
  BY DEF Record, Settled, Rows, RowsTaken, Taken, Adding, unchangedByWriters
<1>2. /\ \A u \in Writers \ {w} : wr'[u] = wr[u]
      /\ wr[w].slot \in Slot /\ Taken(w)'
  BY <1>1, GoesOn DEF WriterPc
<1> HIDE DEF m
<1>3. /\ \A d : d # wr[w].slot => QueueOf(d)' = QueueOf(d)
      /\ \A d : QueueOf(d) # {} => QueueOf(d)' # {}
      /\ \A d : d = wr[w].slot => QueueOf(d)' # {}
  <2>1. PICK d \in Slot : d = wr[w].slot
    BY <1>2
  <2>2. Enqueue(d, m)
    BY <1>1, <2>1
  <2> QED
    BY <2>1, <2>2, EnqueueGrows
<1>4. ASSUME NEW s \in Stripe, Unsettled(s)
      PROVE  Unsettled(s)'
  <2>1. CASE Touches(w, s)
    <3>1. \E d \in SlotsOf(s) : d = wr[w].slot
      BY <1>2, <2>1, ShardSlots DEF Touches
    <3> QED
      BY <1>3, <3>1 DEF Unsettled
  <2>2. CASE ~Touches(w, s)
    BY <1>1, <1>2, <1>3, <1>4, <2>2, NobodyElse DEF Unsettled
  <2> QED
    BY <2>1, <2>2
<1>5. \A c \in Slot : QueueOf(c)' \subseteq QueueOf(c) \/ status[c] = "allocated"
  BY <1>1, <1>3
<1> QED
  BY <1>1, <1>2, <1>4, <1>5, TablesKept

LEMMA FileWrites ==
    ASSUME Settled, NEW w \in Writers, OpenFile(w) \/ CompleteFile(w)
    PROVE  Writes(w)
<1>1. PICK pc \in {"opened", "written"}, v \in Stored :
      /\ wr[w].pc \in {"intended", "opened"} /\ Advance(w, pc)
      /\ wr[w].pc = "opened" => pc = "written"
      /\ file' = [file EXCEPT ![wr[w].path] = v]
      /\ UNCHANGED <<status, hash, aged, pstatus, phash, ref, refHash, wq, pend, run>>
      /\ UNCHANGED <<gen, workerVars, rel, boot, crashes, pfile>>
  <2>1. CASE OpenFile(w)
    BY <2>1 DEF OpenFile, unchangedByWriters, Stored
  <2>2. CASE CompleteFile(w)
    <3>1. wr[w].val \in Stored
      BY <2>2 DEF CompleteFile, Settled, Rows, RowsTaken, Taken, Stored
    <3> QED
      BY <2>2, <3>1 DEF CompleteFile, unchangedByWriters
  <2> QED
    BY <2>1, <2>2
<1> DEFINE d == wr[w].slot
<1>2. status[d] = "allocated"
  BY <1>1 DEF Settled, Rows, RowsTaken, Taken, Adding
<1>3. /\ \A u \in Writers \ {w} : wr'[u] = wr[u]
      /\ wr'[w].pc = pc /\ wr'[w].slot = d /\ d \in Slot /\ wr[w].path = PathOf(d)
      /\ PathOf(d) \in Path /\ Taken(w)'
  BY <1>1, <1>2, GoesOn DEF WriterPc
<1>4. v # Nil
  BY SentinelAssumption DEF Stored
<1>5. /\ \A f \in Path : f # PathOf(d) => file'[f] = file[f]
      /\ file'[PathOf(d)] = v
  BY <1>1, <1>3 DEF Settled, Typed, TypeOK
<1>6. PathOf(d) = PathOf(PathOf(d)[1])
  BY <1>3, PathIn DEF Settled
<1>7. \A s \in Stripe : Unsettled(s)' \/ ~Unsettled(s)
  BY <1>1, <1>3, NobodyElse, ShardSlots DEF Unsettled, Touches, QueueOf
<1>8. \A s \in Stripe : s # StripeOf(d) => Same(s)
  BY <1>1, <1>5, PathsDiffer, PathIn, ShardSlots DEF Same, Settled
<1>9. Unsettled(StripeOf(d)) 
  BY <1>1 DEF Unsettled, Touches
<1>10. Unsettled(StripeOf(d))'
  BY <1>3, <1>7, <1>9, SlotFacts
<1> QED
  BY <1>1, <1>2, <1>3, <1>4, <1>5, <1>6, <1>7, <1>8, <1>10
     DEF Writes, Settled, Rows, StripeWhole, QueueOf

LEMMA AllocateWrites ==
    ASSUME Settled, Typed', NEW w \in Writers, Allocate(w)
    PROVE  Writes(w)
<1>0. wr \in [Writers -> WriterState] /\ status \in [Slot -> Status] /\ pstatus \in [Parity -> Status]
  BY DEF Settled, Typed, TypeOK
<1>1. PICK o \in Objects, v \in Data :
          \/ \E c \in Slot : Reuse(w, c, o, v)
          \/ \E s \in Stripe : NewStripe(w, s, o, v)
  BY DEF Allocate
<1>2. /\ wr[w].pc = "idle"
      /\ UNCHANGED <<phash, ref, refHash, wq, pend, run, file, gen, workerVars, rel, boot, pfile>>
  BY DEF Allocate, unchangedByWriters
<1>c. \A c : PathOf(c)' = PathOf(c) /\ QueueOf(c)' = QueueOf(c)
  BY <1>2 DEF PathOf, QueueOf
<1>3. \E d \in Slot :
        /\ \A u \in Writers \ {w} : wr'[u] = wr[u]
        /\ wr'[w].pc = "allocated" /\ wr'[w].slot = d
        /\ wr'[w].path = PathOf(d) /\ wr'[w].val \in Data
        /\ status'[d] = "allocated"
        /\ \A c \in Slot : status[c] = "allocated" => status'[c] = "allocated"
        /\ \A c \in Slot : status[c] # "none" => status'[c] # "none"
        /\ \A c \in Slot : StripeOf(c) # StripeOf(d) => status'[c] = status[c]
        /\ \A c \in Slot : c # d => (status'[c] = "allocated" <=> status[c] = "allocated")
        /\ \A p \in Parity : pstatus'[p] = "allocated" <=> pstatus[p] = "allocated"
        /\ StripeWhole'
  <2>1. ASSUME NEW c \in Slot, Reuse(w, c, o, v)
        PROVE  <1>3!(c)
    <3>1. /\ \A x \in Slot : status'[x] = IF x = c THEN "allocated" ELSE status[x]
          /\ UNCHANGED pstatus
      BY <1>0, <2>1 DEF Reuse
    <3>2. /\ \A u \in Writers \ {w} : wr'[u] = wr[u]
          /\ wr'[w].pc = "allocated" /\ wr'[w].slot = c
          /\ wr'[w].path = PathOf(c) /\ wr'[w].val = v
      BY <1>0, <2>1 DEF Reuse
    <3>3. StripeWhole'
      <4>1. status[c] = "reserved" /\ \A x \in Slot : <<x[1], 0>> \in Slot
        BY <2>1, SlotFacts DEF Reuse, StripeOf
      <4> QED
        BY <3>1, <4>1 DEF Settled, Rows, StripeWhole
    <3> QED
      BY <3>1, <3>2, <3>3
  <2>2. ASSUME NEW s \in Stripe, NewStripe(w, s, o, v)
        PROVE  <1>3!(<<s, 0>>)
    <3>0. <<s, 0>> \in Slot /\ StripeOf(<<s, 0>>) = s
      BY SlotFacts DEF StripeOf
    <3>1. /\ \A x \in Slot : status'[x] = IF StripeOf(x) # s THEN status[x]
                                          ELSE IF x[2] = 0 THEN "allocated" ELSE "reserved"
          /\ \A p \in Parity : pstatus'[p] = IF StripeOf(p) = s THEN "reserved" ELSE pstatus[p]
      BY <2>2 DEF NewStripe
    <3>2. /\ \A u \in Writers \ {w} : wr'[u] = wr[u]
          /\ wr'[w].pc = "allocated" /\ wr'[w].slot = <<s, 0>>
          /\ wr'[w].path = PathOf(<<s, 0>>) /\ wr'[w].val = v
      BY <1>0, <2>2 DEF NewStripe
    <3>3. \A x \in Slot : StripeOf(x) = s => status[x] = "none"
      <4>1. status[<<s, 0>>] = "none"
        BY <2>2 DEF NewStripe, Stripe
      <4> QED
        BY <4>1 DEF Settled, Rows, StripeWhole, StripeOf
    <3>4. \A p \in Parity : StripeOf(p) = s => pstatus[p] # "allocated"
      BY <3>3 DEF Settled, Batch, ParityLive, LiveStripe, SlotsOf
    <3>5. \A x \in Slot : StripeOf(x) = s => (x[2] = 0 <=> x = <<s, 0>>)
      BY SlotFacts DEF StripeOf
    <3>6. StripeWhole'
      <4> SUFFICES ASSUME NEW x \in Slot, status'[<<x[1], 0>>] = "none" PROVE status'[x] = "none"
        BY DEF StripeWhole
      <4>1. <<x[1], 0>> \in Slot /\ StripeOf(<<x[1], 0>>) = StripeOf(x)
        BY SlotFacts DEF StripeOf
      <4> QED
        BY <3>1, <4>1 DEF Settled, Rows, StripeWhole
    <3> QED
      BY <3>0, <3>1, <3>2, <3>3, <3>4, <3>5, <3>6
  <2> QED
    BY <1>1, <2>1, <2>2, SlotFacts
<1>4. PICK d \in Slot : <1>3!(d)
  BY <1>3
<1>5. Taken(w)'
  BY <1>c, <1>4 DEF Taken, Adding
<1>6. ASSUME NEW s \in Stripe
      PROVE  Unsettled(s)' \/ (~Unsettled(s) /\ Same(s))
  <2>1. CASE s = StripeOf(d)
    BY <1>4, <2>1 DEF Unsettled, Touches
  <2>2. CASE s # StripeOf(d)
    <3>1. Same(s)
      BY <1>2, <1>4, <2>2, ShardSlots DEF Same
    <3>2. Unsettled(s)' \/ ~Unsettled(s)
      BY <1>2, <1>c, <1>4, NobodyElse DEF Unsettled, Touches
    <3> QED
      BY <3>1, <3>2
  <2> QED
    BY <2>1, <2>2
<1> QED
  BY <1>2, <1>c, <1>4, <1>5, <1>6 DEF Writes

LEMMA UpdateWrites ==
    ASSUME Settled, NEW w \in Writers, UpdateMetadata(w)
    PROVE  Writes(w)
<1>1. /\ wr[w].pc = "loaded" /\ Advance(w, "allocated")
      /\ UNCHANGED <<phash, pstatus, wq, pend, run, file, gen, workerVars, rel, boot, pfile>>
      /\ status' = [status EXCEPT ![wr[w].slot] = "allocated"]
  BY DEF UpdateMetadata, unchangedByWriters
<1>2. PICK d \in Slot : d = wr[w].slot
  BY <1>1 DEF Settled, Typed, WriterSlots
<1>3. \A c \in Slot : status'[c] = IF c = d THEN "allocated" ELSE status[c]
  BY <1>1, <1>2 DEF Settled, Typed, TypeOK
<1>4. /\ \A u \in Writers \ {w} : wr'[u] = wr[u]
      /\ wr'[w].pc = "allocated" /\ wr'[w].slot = d /\ Taken(w)'
  BY <1>1, <1>2, <1>3, GoesOn DEF WriterPc
<1>5. StripeWhole'
  <2>1. \A x \in Slot : <<x[1], 0>> \in Slot
    BY SlotFacts DEF StripeOf
  <2>2. status[d] # "none"
    BY <1>1, <1>2 DEF Settled, Rows, RowsTaken, Taken
  <2> QED
    BY <1>3, <2>1, <2>2 DEF Settled, Rows, StripeWhole
<1>6. ASSUME NEW s \in Stripe
      PROVE  Unsettled(s)' \/ (~Unsettled(s) /\ Same(s))
  <2>1. CASE s = StripeOf(d)
    BY <1>4, <2>1 DEF Unsettled, Touches
  <2>2. CASE s # StripeOf(d)
    <3>1. Same(s)
      BY <1>1, <1>3, <2>2, ShardSlots DEF Same
    <3>2. Unsettled(s)' \/ ~Unsettled(s)
      BY <1>1, <1>4, NobodyElse DEF Unsettled, Touches, QueueOf
    <3> QED
      BY <3>1, <3>2
  <2> QED
    BY <2>1, <2>2
<1> QED
  BY <1>1, <1>3, <1>4, <1>5, <1>6 DEF Writes, QueueOf

LEMMA FlushWrites ==
    ASSUME Settled, NEW w \in Writers, FlushOwn(w)
    PROVE  Writes(w)
<1>1. /\ wr[w].pc = "recorded" /\ Flush({wr[w].slot})
      /\ Advance(w, "flushed") \/ wr' = [wr EXCEPT ![w] = IdleWriter]
      /\ UNCHANGED <<status, pstatus, phash, run, file, gen, workerVars, rel, boot, pfile>>
  BY DEF FlushOwn, unchangedByWriters
<1>2. \A u \in Writers \ {w} : wr'[u] = wr[u]
  BY <1>1, AdvanceFacts, ResetFacts DEF Settled
<1>3. Taken(w)'
  <2>1. CASE Advance(w, "flushed")
    <3>1. status[wr[w].slot] = "allocated"
      BY <1>1 DEF Settled, Rows, RowsTaken, Taken, Adding
    <3> QED
      BY <1>1, <2>1, <3>1, GoesOn DEF WriterPc
  <2>2. CASE wr' = [wr EXCEPT ![w] = IdleWriter]
    <3>1. wr'[w].pc = "idle"
      BY <2>2, ResetFacts DEF Settled
    <3> QED
      BY <3>1 DEF Taken, Adding
  <2> QED
    BY <1>1, <2>1, <2>2
<1>4. PICK done : /\ done = DonePairs({wr[w].slot})
                  /\ wq' = wq \ UNION {{pr[1], pr[2]} : pr \in done}
                  /\ pend' = pend \cup {StripeOf(pr[1].chunk) : pr \in done}
  BY <1>1 DEF Flush
<1>5. \A q \in wq : q \in wq' \/ StripeOf(q.chunk) \in pend'
  BY <1>4 DEF DonePairs
<1>6. ASSUME NEW s \in Stripe, Unsettled(s)
      PROVE  Unsettled(s)'
  <2>1. CASE \E c \in SlotsOf(s) : QueueOf(c) # {}
    <3>1. PICK q \in wq : q.chunk \in SlotsOf(s)
      BY <2>1 DEF QueueOf
    <3>2. q \in wq' \/ s \in pend'
      BY <1>5, <3>1, ShardSlots
    <3> QED
      BY <3>1, <3>2 DEF Unsettled, QueueOf
  <2>2. CASE s \in pend
    BY <1>4, <2>2 DEF Unsettled
  <2>3. CASE \E u \in Writers : Touches(u, s)
    BY <1>1, <1>2, <2>3, NobodyElse DEF Unsettled, Touches
  <2> QED
    BY <1>6, <2>1, <2>2, <2>3 DEF Unsettled
<1>7. \A c : QueueOf(c)' \subseteq QueueOf(c)
  BY <1>4 DEF QueueOf
<1> QED
  BY <1>1, <1>2, <1>3, <1>6, <1>7, TablesKept

LEMMA WriterWrites ==
    ASSUME Settled, Typed', ~DiskFaults, ~DbFaults, NEW w \in Writers,
           Allocate(w) \/ LoadForOverwrite(w) \/ ReadSnapshot(w) \/ WriterStep(w)
    PROVE  Writes(w)
  BY AllocateWrites, ReadWrites, UpdateWrites, IntendWrites, FileWrites, RecordWrites,
     FlushWrites, EndWrites DEF WriterStep, FailFile, FailStatement
-----------------------------------------------------------------------------
(* The parity worker.                                                      *)

(* A step of the worker leaves requests, data and releases alone.          *)
LEMMA WorkerRows ==
    ASSUME Settled, UNCHANGED unchangedByWorker
    PROVE  /\ Rows' /\ ListsOpen' /\ FormerListed'
           /\ \A c : PathOf(c)' = PathOf(c) /\ QueueOf(c)' = QueueOf(c)
           /\ \A s : LiveStripe(s)' = LiveStripe(s) /\ Shards(s)' = Shards(s)
           /\ \A s : UNCHANGED pend => Unsettled(s)' = Unsettled(s)
<1>1. \A c : PathOf(c)' = PathOf(c) /\ QueueOf(c)' = QueueOf(c)
  BY DEF unchangedByWorker, PathOf, QueueOf
<1>2. EmptyClean' /\ StripeWhole'
  BY DEF Settled, Rows, EmptyClean, StripeWhole, unchangedByWorker, QueueOf
<1>3. RowsTaken'
  BY <1>1 DEF Settled, Rows, RowsTaken, Taken, Adding, unchangedByWorker
<1>4. FileThere'
  BY <1>1 DEF Settled, Rows, FileThere, unchangedByWorker
<1>5. ListsOpen' /\ FormerListed'
  BY DEF Settled, Listed, ListsOpen, FormerListed, unchangedByWorker
<1>6. \A s : LiveStripe(s)' = LiveStripe(s) /\ Shards(s)' = Shards(s)
  BY DEF LiveStripe, Shards, PathOf, unchangedByWorker
<1>7. \A s : UNCHANGED pend => Unsettled(s)' = Unsettled(s)
  BY DEF Unsettled, Touches, QueueOf, unchangedByWorker
<1> QED
  BY <1>1, <1>2, <1>3, <1>4, <1>5, <1>6, <1>7 DEF Rows

LEMMA WorkerSettled ==
    ASSUME Settled, Typed', StaleOld', ~DiskFaults, ~DbFaults, WorkerStep
    PROVE  Settled'
<1> USE DEF Settled
<1>u. UNCHANGED unchangedByWorker
  BY DEF WorkerStep, Claim, LoadMeta, CommitBatch, AbandonBatch, ReadShard, WriteParity
<1>r. Rows' /\ ListsOpen' /\ FormerListed' /\ \A s : LiveStripe(s)' = LiveStripe(s)
  BY <1>u, WorkerRows
<1>b. boot' = boot /\ rel' = rel /\ status' = status
  BY <1>u DEF unchangedByWorker
<1>t. kput \in [Parity -> {"todo", "open", "done"}] /\ kgot \in [Slot -> Stored \cup {Nil}]
  BY DEF Typed, TypeOK
<1> SUFFICES Batch' /\ ParityKnown'
  BY <1>r DEF Listed
<1>1. CASE Claim
  <2>1. kjob = {}
    BY <1>1 DEF Claim, Batch, JobsLive
  <2>2. Batch'
    BY <1>1, <1>b, <1>r, <2>1 DEF Claim, Batch, BatchIs, JobsLive, ParityLive, Begun, ToRead
  <2>3. ParityKnown'
    BY <1>1, <1>b DEF Claim, Listed, ParityKnown
  <2> QED
    BY <2>2, <2>3
<1>2. CASE LoadMeta
  <2>1. \A p \in Parity : kput[p] = "todo" /\ kput'[p] = "todo"
    BY <1>2, <1>t DEF LoadMeta, Batch, JobsLive, Begun
  <2>2. kjob' = {s \in kbatch : LiveStripe(s)} /\ UNCHANGED <<pstatus, pfile, run, kbatch>> /\ kpc' = "computing"
    BY <1>2 DEF LoadMeta
  <2>3. BatchIs' /\ JobsLive' /\ ParityLive'
    BY <1>b, <1>r, <2>1, <2>2 DEF Batch, BatchIs, JobsLive, ParityLive
  <2>4. ParityKnown'
    BY <1>b, <2>1, <2>2 DEF Listed, ParityKnown
  <2> QED
    BY <2>3, <2>4 DEF Batch
<1>3. CASE CommitBatch
  <2>1. /\ \A p \in Parity : pstatus'[p] = IF StripeOf(p) \in kjob THEN "allocated" ELSE pstatus[p]
        /\ \A p \in Parity : kput'[p] = "todo"
        /\ run' = {} /\ kpc' = "idle" /\ kbatch' = {} /\ kjob' = {} /\ pfile' = pfile
    BY <1>3 DEF CommitBatch, LeaveBatch
  <2>2. Batch'
    BY <1>b, <1>r, <2>1 DEF Batch, BatchIs, JobsLive, ParityLive
  <2>3. ParityKnown'
    BY <1>b, <2>1 DEF Listed, ParityKnown, Batch, JobsLive, Begun
  <2> QED
    BY <2>2, <2>3
<1>4. ASSUME NEW c \in Slot, ReadShard(c)
      PROVE  Batch' /\ ParityKnown'
  <2>1. /\ UNCHANGED <<pstatus, run, kpc, kbatch, kpath, kput, pfile>>
        /\ StripeOf(c) \in kjob /\ kpath[c] # Nil /\ kgot[c] = Nil /\ kpc = "computing"
        /\ kjob' \subseteq kjob /\ \A s \in kjob : s # StripeOf(c) => s \in kjob'
        /\ \A d \in Slot : kgot[d] # Nil => kgot'[d] # Nil
    BY <1>4, <1>t DEF ReadShard
  <2>2. ASSUME NEW p \in Parity, kput'[p] # "todo"
        PROVE  Begun(p)'
    <3>1. Begun(p) /\ \A d \in ToRead(StripeOf(p)) : d \in Slot
      BY <2>1, <2>2 DEF Batch, JobsLive, ToRead, SlotsOf
    <3>2. StripeOf(p) # StripeOf(c)
      BY <2>1, <3>1, ShardSlots DEF Begun, ToRead
    <3> QED
      BY <2>1, <3>1, <3>2 DEF Begun, ToRead
  <2>3. BatchIs' /\ JobsLive' /\ ParityLive'
    BY <1>b, <1>r, <2>1, <2>2 DEF Batch, BatchIs, JobsLive, ParityLive
  <2>4. ParityKnown'
    BY <1>b, <2>1 DEF Listed, ParityKnown
  <2> QED
    BY <2>3, <2>4 DEF Batch
<1>5. ASSUME NEW q \in Parity, WriteParity(q)
      PROVE  Batch' /\ ParityKnown'
  <2>1. /\ UNCHANGED <<pstatus, run, kpc, kbatch, kpath, kgot, kjob>>
        /\ StripeOf(q) \in kjob /\ kpc = "computing"
        /\ \A d \in ToRead(StripeOf(q)) : kgot[d] # Nil
        /\ \A p \in Parity : p # q => kput'[p] = kput[p] /\ pfile'[p] = pfile[p]
        /\ kput'[q] # "todo"
    BY <1>5, <1>t DEF WriteParity, Typed, TypeOK
  <2>2. \A p \in Parity : kput'[p] # "todo" => Begun(p)'
    BY <2>1 DEF Batch, JobsLive, Begun, ToRead
  <2>3. BatchIs' /\ JobsLive' /\ ParityLive'
    BY <1>b, <1>r, <2>1, <2>2 DEF Batch, BatchIs, JobsLive, ParityLive
  <2>4. ParityKnown'
    BY <1>b, <2>1 DEF Listed, ParityKnown
  <2> QED
    BY <2>3, <2>4 DEF Batch
<1> QED
  BY <1>1, <1>2, <1>3, <1>4, <1>5 DEF WorkerStep, AbandonBatch

(* A stripe in the batch with rows and files of now is encoded as it is.   *)
LEMMA EncodedShards ==
    ASSUME Settled, NEW s \in Stripe, Current(s), NEW p \in ParityOf(s), kput[p] # "todo"
    PROVE  Encoded(s) = Shards(s)
<1>1. \A c \in ToRead(s) : kgot[c] # Nil
  BY ShardSlots DEF Settled, Batch, JobsLive, Begun
<1>2. \A c \in SlotsOf(s) : kgot[c] = IF status[c] = "allocated" THEN file[PathOf(c)] ELSE Nil
  <2> SUFFICES ASSUME NEW c \in SlotsOf(s)
               PROVE  kgot[c] = IF status[c] = "allocated" THEN file[PathOf(c)] ELSE Nil
    OBVIOUS
  <2>1. CASE status[c] = "allocated"
    <3>1. PathOf(c) # Nil
      BY PathIn, ShardSlots, SentinelAssumption DEF Settled, Path, Slot, Stripe, Shard
    <3>2. kpath[c] # Nil
      BY <2>1, <3>1 DEF Current
    <3> QED
      BY <1>1, <2>1, <3>2 DEF Current, ToRead
  <2>2. CASE status[c] # "allocated"
    BY <2>2 DEF Current
  <2> QED
    BY <2>1, <2>2
<1>3. \A i \in Shard : kgot[<<s, i>>] = IF status[<<s, i>>] = "allocated"
                                        THEN file[PathOf(<<s, i>>)] ELSE Nil
  BY <1>2, ShardSlots
<1> QED
  BY <1>3 DEF Encoded, Shards

LEMMA WorkerSynced ==
    ASSUME Synced, Settled', ~DiskFaults, ~DbFaults, ~SlowDeletes, WorkerStep
    PROVE  Synced'
<1> USE DEF Synced
<1>u. UNCHANGED unchangedByWorker
  BY DEF WorkerStep, Claim, LoadMeta, CommitBatch, AbandonBatch, ReadShard, WriteParity
<1>r. /\ \A c : PathOf(c)' = PathOf(c)
      /\ \A s : LiveStripe(s)' = LiveStripe(s) /\ Shards(s)' = Shards(s)
      /\ \A s : UNCHANGED pend => Unsettled(s)' = Unsettled(s)
      /\ UNCHANGED <<status, file, rel, wr, wq>>
  BY <1>u, WorkerRows DEF unchangedByWorker
<1>b. run = kbatch /\ (kpc = "idle" => kbatch = {}) /\ kjob \subseteq kbatch
  BY DEF Settled, Batch, BatchIs, JobsLive
<1>t. kput \in [Parity -> {"todo", "open", "done"}] /\ kgot \in [Slot -> Stored \cup {Nil}]
      /\ pfile \in [Parity -> Vector \cup {Nil, Torn}] /\ kjob \subseteq Stripe
      /\ rel \in [Releasers -> ReleaserState]
  BY DEF Settled, Typed, TypeOK
<1>s. \A r \in Releasers : rel[r].parities \subseteq Parity
  BY <1>t DEF ReleaserState
<1>1. CASE Claim
  <2>1. /\ kpc = "idle" /\ kbatch' = pend /\ pend' = {} /\ kpc' = "claimed"
        /\ UNCHANGED <<pstatus, phash, pfile>>
        /\ \A r \in Releasers : rel[r].parities = {}
    BY <1>1, <1>b DEF Claim
  <2>2. StaleApart'
    BY <1>r, <2>1 DEF StaleApart
  <2>3. ASSUME NEW s \in Stripe, ~Unsettled(s)', s \notin kbatch', LiveStripe(s)'
        PROVE  Coded(s)'
    <3>1. ~Unsettled(s)
      BY <1>r, <2>1, <2>3 DEF Unsettled, Touches, QueueOf
    <3>2. Coded(s)
      BY <1>b, <1>r, <2>1, <2>3, <3>1 DEF UpToDate
    <3> QED
      BY <1>r, <2>1, <3>2 DEF Coded
  <2> QED
    BY <2>1, <2>2, <2>3 DEF UpToDate
<1>2. CASE LoadMeta
  <2>1. /\ \A c \in Slot : kpath'[c] = IF StripeOf(c) \in kbatch /\ status[c] = "allocated"
                                       THEN PathOf(c) ELSE Nil
        /\ \A c \in Slot : kgot'[c] = Nil
        /\ \A p \in Parity : kput'[p] = "todo"
        /\ kjob' = {s \in kbatch : LiveStripe(s)}
        /\ UNCHANGED <<pstatus, phash, pend, pfile, kbatch>>
    BY <1>2 DEF LoadMeta
  <2>2. StaleApart'
    BY <1>r, <2>1 DEF StaleApart
  <2>3. ASSUME NEW s \in Stripe, ~Unsettled(s)', s \in kbatch
        PROVE  Current(s)'
    BY <1>r, <2>1, <2>3, ShardSlots DEF Current
  <2>4. ASSUME NEW s \in Stripe, ~Unsettled(s)', s \notin kbatch, LiveStripe(s)'
        PROVE  Coded(s)'
    BY <1>r, <2>1, <2>4 DEF UpToDate, Coded
  <2> QED
    BY <2>1, <2>2, <2>3, <2>4 DEF UpToDate
<1>3. CASE CommitBatch
  <2>1. /\ \A p \in Parity : pstatus'[p] = IF StripeOf(p) \in kjob THEN "allocated" ELSE pstatus[p]
        /\ \A p \in Parity : phash'[p] = IF StripeOf(p) \in kjob THEN Encoded(StripeOf(p)) ELSE phash[p]
        /\ \A s \in kjob : \A p \in ParityOf(s) : kput[p] = "done"
        /\ kbatch' = {} /\ kpc = "computing" /\ UNCHANGED <<pend, pfile>>
    BY <1>3 DEF CommitBatch, LeaveBatch
  <2>2. StaleApart'
    BY <1>b, <1>r, <1>s, <2>1 DEF StaleApart
  <2>3. ASSUME NEW s \in Stripe, ~Unsettled(s)', LiveStripe(s)'
        PROVE  Coded(s)'
    <3>1. ~Unsettled(s) /\ LiveStripe(s)
      BY <1>r, <2>1, <2>3
    <3>2. CASE s \in kbatch
      <4>1. Current(s) /\ s \in kjob
        BY <2>1, <3>1, <3>2 DEF UpToDate, Current
      <4>2. \A p \in ParityOf(s) : kput[p] = "done" /\ pfile[p] = Encoded(s) /\ Encoded(s) = Shards(s)
        BY <2>1, <4>1, EncodedShards DEF Current
      <4> QED
        BY <1>r, <2>1, <4>1, <4>2, ShardSlots DEF Coded
    <3>3. CASE s \notin kbatch
      <4>1. Coded(s) /\ s \notin kjob
        BY <1>b, <3>1, <3>3 DEF UpToDate
      <4> QED
        BY <1>r, <2>1, <4>1, ShardSlots DEF Coded
    <3> QED
      BY <3>2, <3>3
  <2> QED
    BY <2>1, <2>2, <2>3 DEF UpToDate
<1>4. ASSUME NEW c \in Slot, ReadShard(c)
      PROVE  Synced'
  <2> DEFINE t == StripeOf(c)
  <2>1. /\ UNCHANGED <<pstatus, phash, pend, kpc, kbatch, kpath, kput, pfile>>
        /\ t \in kjob /\ kpath[c] # Nil /\ kgot[c] = Nil /\ kpc = "computing"
        /\ \A s : s # t => (s \in kjob' <=> s \in kjob)
        /\ \A d \in Slot : d # c => kgot'[d] = kgot[d]
        /\ file[kpath[c]] # Nil => kgot'[c] = file[kpath[c]] /\ kjob' = kjob
    BY <1>4, <1>t DEF ReadShard
  <2>2. StaleApart'
    BY <1>r, <2>1 DEF StaleApart
  <2>3. ASSUME NEW s \in Stripe, ~Unsettled(s)', s \in kbatch
        PROVE  Current(s)'
    <3>1. ~Unsettled(s) /\ Current(s)
      BY <1>r, <2>1, <2>3 DEF UpToDate
    <3>2. CASE s # t
      <4>1. \A d \in SlotsOf(s) : d \in Slot /\ d # c
        BY <3>2, ShardSlots
      <4>2. \A i \in Shard : kgot'[<<s, i>>] = kgot[<<s, i>>]
        BY <2>1, <4>1, ShardSlots
      <4>3. Encoded(s)' = Encoded(s)
        BY <4>2 DEF Encoded
      <4> QED
        BY <1>r, <2>1, <3>1, <3>2, <4>1, <4>3 DEF Current
    <3>3. CASE s = t
      <4>1. status[c] = "allocated" /\ kpath[c] = PathOf(c) /\ c \in SlotsOf(s)
        BY <2>1, <3>1, <3>3, ShardSlots DEF Current
      <4>2. file[PathOf(c)] # Nil
        BY <3>1, <3>3, <4>1 DEF Settled, Rows, FileThere, Unsettled, Touches
      <4>3. kgot'[c] = file[PathOf(c)] /\ kjob' = kjob
        BY <2>1, <4>1, <4>2
      <4>4. \A p \in ParityOf(s) : kput[p] = "todo"
        BY <2>1, <3>3, <4>1, ShardSlots DEF Settled, Batch, JobsLive, Begun, ToRead
      <4>5. \A d \in SlotsOf(s) : kgot'[d] # Nil => kpath[d] # Nil /\ kgot'[d] = file[PathOf(d)]
        BY <2>1, <3>1, <4>3, ShardSlots DEF Current
      <4> QED
        BY <1>r, <2>1, <3>1, <4>3, <4>4, <4>5 DEF Current
    <3> QED
      BY <3>2, <3>3
  <2>4. ASSUME NEW s \in Stripe, ~Unsettled(s)', s \notin kbatch, LiveStripe(s)'
        PROVE  Coded(s)'
    BY <1>r, <2>1, <2>4 DEF UpToDate, Coded
  <2> QED
    BY <2>1, <2>2, <2>3, <2>4 DEF UpToDate
<1>5. ASSUME NEW q \in Parity, WriteParity(q)
      PROVE  Synced'
  <2> DEFINE t == StripeOf(q)
  <2>1. /\ UNCHANGED <<pstatus, phash, pend, kpc, kbatch, kpath, kgot, kjob>>
        /\ t \in kjob
        /\ \A p \in Parity : p # q => kput'[p] = kput[p] /\ pfile'[p] = pfile[p]
        /\ kput'[q] = "done" => pfile'[q] = Encoded(t)
    BY <1>5, <1>t DEF WriteParity
  <2>2. StaleApart'
    BY <1>r, <2>1 DEF StaleApart
  <2>3. ASSUME NEW s \in Stripe, ~Unsettled(s)', s \in kbatch, kpc = "computing"
        PROVE  Current(s)'
    <3>1. Current(s)
      BY <1>r, <2>1, <2>3 DEF UpToDate
    <3>2. Encoded(s)' = Encoded(s)
      BY <2>1 DEF Encoded
    <3>3. \A p \in ParityOf(s) : kput'[p] = "done" => pfile'[p] = Encoded(s)
      BY <2>1, <3>1, ShardSlots DEF Current
    <3> QED
      BY <1>r, <2>1, <3>1, <3>2, <3>3 DEF Current
  <2>4. ASSUME NEW s \in Stripe, ~Unsettled(s)', s \notin kbatch, LiveStripe(s)'
        PROVE  Coded(s)'
    <3>1. Coded(s) /\ \A p \in ParityOf(s) : p # q /\ p \in Parity
      BY <1>b, <1>r, <2>1, <2>4, ShardSlots DEF UpToDate
    <3> QED
      BY <1>r, <2>1, <3>1 DEF Coded
  <2> QED
    BY <2>1, <2>2, <2>3, <2>4 DEF UpToDate
<1> QED
  BY <1>1, <1>2, <1>3, <1>4, <1>5 DEF WorkerStep, AbandonBatch
-----------------------------------------------------------------------------
(* Releases.                                                               *)

(* The transaction of release r frees the chunks F of the stripes S: those *)
(* in L keep data and are queued, the others lose their parity P.          *)
Frees(r, F, S, L, P) ==
    /\ F \subseteq Slot /\ S = {StripeOf(c) : c \in F}
    /\ L = {s \in S : \E c \in SlotsOf(s) \ F : status[c] = "allocated"}
    /\ P = StaleParities(S \ L)
    /\ kbatch \cap S = {} /\ rel[r].pc # "deleting"
    /\ \A w \in Writers : wr[w].pc # "idle" => wr[w].slot \notin F
    /\ \A c \in F : status[c] = "allocated"
    /\ \A c \in Slot : status'[c] = IF c \in F THEN "reserved" ELSE status[c]
    /\ \A c \in Slot : gen'[c] = IF c \in F THEN gen[c] + 1 ELSE gen[c]
    /\ \A c \in Slot : QueueOf(c)' = IF c \in F THEN {} ELSE QueueOf(c)
    /\ \A p \in Parity : pstatus'[p] = IF p \in P THEN "reserved" ELSE pstatus[p]
    /\ \A p \in Parity : phash'[p] = IF p \in P THEN Nil ELSE phash[p]
    /\ pend' = pend \cup (L \ run)
    /\ \A q \in Releasers : q # r => rel'[q] = rel[q]
    /\ rel'[r].pc = "deleting" /\ rel'[r].files = {PathOf(c) : c \in F} /\ rel'[r].parities = P
    /\ UNCHANGED <<run, file, pfile, workerVars, wr, boot>>

LEMMA ReleaseFrees ==
    ASSUME Settled, ~SlowWriters, ~SlowBatches, NEW r \in Releasers, NEW C \in SUBSET Slot, NEW refs,
           rel[r].pc # "deleting", Undisturbed(C), ReleaseChunks(r, C, refs)
    PROVE  \E F, S, L, P : Frees(r, F, S, L, P)
<1> DEFINE free == Unreferenced(C, refs)
           F    == {c \in free : status[c] = "allocated"}
           S    == {StripeOf(c) : c \in F}
           L    == {s \in S : \E c \in SlotsOf(s) \ F : status[c] = "allocated"}
           P    == StaleParities(S \ L)
<1>1. /\ kbatch \cap S = {}
      /\ status' = [c \in Slot |-> IF c \in F THEN "reserved" ELSE status[c]]
      /\ gen' = [c \in Slot |-> IF c \in F THEN gen[c] + 1 ELSE gen[c]]
      /\ wq' = IF F = {} THEN wq ELSE {q \in wq : q.chunk \notin free}
      /\ pstatus' = [p \in Parity |-> IF p \in P THEN "reserved" ELSE pstatus[p]]
      /\ phash' = [p \in Parity |-> IF p \in P THEN Nil ELSE phash[p]]
      /\ pend' = pend \cup (L \ run)
      /\ rel' = [rel EXCEPT ![r] = [pc |-> "deleting", cand |-> {},
                                   files |-> {PathOf(c) : c \in F}, parities |-> P]]
      /\ UNCHANGED <<run, file, pfile, workerVars, wr, boot>>
  BY DEF ReleaseChunks, GenerateChunkPaths, ResetParity, EnqueueRecompute
<1>2. free \subseteq C /\ F \subseteq free /\ F \subseteq Slot /\ \A c \in F : status[c] = "allocated"
  BY DEF Unreferenced
<1>3. \A w \in Writers : wr[w].pc # "idle" => wr[w].slot \notin F
  BY <1>2 DEF Undisturbed, Holds, InFlight
<1>4. \A c \in Slot : QueueOf(c)' = IF c \in F THEN {} ELSE QueueOf(c)
  <2> SUFFICES ASSUME NEW c \in Slot
               PROVE  QueueOf(c)' = IF c \in F THEN {} ELSE QueueOf(c)
    OBVIOUS
  <2>1. c \in free /\ c \notin F => QueueOf(c) = {}
    BY DEF Settled, Rows, EmptyClean
  <2> HIDE DEF F, free
  <2>2. CASE c \in free
    BY <1>1, <1>2, <2>1, <2>2 DEF QueueOf
  <2>3. CASE c \notin free
    BY <1>1, <1>2, <2>3 DEF QueueOf
  <2> QED
    BY <2>2, <2>3
<1> HIDE DEF F, P, free
<1>5. /\ \A q \in Releasers : q # r => rel'[q] = rel[q]
      /\ rel'[r].pc = "deleting" /\ rel'[r].files = {PathOf(c) : c \in F} /\ rel'[r].parities = P
  BY <1>1 DEF Settled, Typed, TypeOK
<1>6. Frees(r, F, S, L, P)
  BY <1>1, <1>2, <1>3, <1>4, <1>5 DEF Frees, P
<1> QED
  BY <1>6

LEMMA FreesLive ==
    ASSUME NEW r, NEW F, NEW S, NEW L, NEW P, Frees(r, F, S, L, P), NEW s
    PROVE  /\ s \notin S => LiveStripe(s)' = LiveStripe(s)
           /\ s \in S \ L => ~LiveStripe(s)'
           /\ s \in L => LiveStripe(s)'
           /\ s \notin S => \A c \in SlotsOf(s) :
                status'[c] = status[c] /\ PathOf(c)' = PathOf(c) /\ QueueOf(c)' = QueueOf(c)
<1>1. s \notin S => \A c \in SlotsOf(s) : c \in Slot /\ c \notin F
  BY ShardSlots DEF Frees
<1>2. s \notin S => \A c \in SlotsOf(s) :
        status'[c] = status[c] /\ PathOf(c)' = PathOf(c) /\ QueueOf(c)' = QueueOf(c)
  BY <1>1 DEF Frees, PathOf
<1>3. s \notin S => LiveStripe(s)' = LiveStripe(s)
  BY <1>2 DEF LiveStripe
<1>4. s \in S \ L => ~LiveStripe(s)'
  BY ShardSlots DEF Frees, LiveStripe
<1>5. s \in L => LiveStripe(s)'
  BY ShardSlots DEF Frees, LiveStripe
<1> QED
  BY <1>2, <1>3, <1>4, <1>5

LEMMA FreesSettled ==
    ASSUME Settled, Typed', StaleOld', NEW r \in Releasers, NEW F, NEW S, NEW L, NEW P,
           Frees(r, F, S, L, P)
    PROVE  Settled'
<1> USE DEF Settled
<1>1. EmptyClean'
  BY DEF Rows, EmptyClean, Frees
<1>2. StripeWhole'
  <2>1. \A c \in Slot : <<c[1], 0>> \in Slot
    BY SlotFacts DEF StripeOf
  <2> QED
    BY <2>1 DEF Rows, StripeWhole, Frees
<1>3. RowsTaken'
  <2> SUFFICES ASSUME NEW w \in Writers PROVE Taken(w)'
    BY DEF RowsTaken
  <2>1. Taken(w) /\ wr' = wr
    BY DEF Rows, RowsTaken, Frees
  <2>2. CASE wr[w].pc = "idle"
    BY <2>1, <2>2 DEF Taken, Adding
  <2>3. CASE wr[w].pc # "idle"
    <3>1. PICK d \in Slot : d = wr[w].slot
      BY <2>3 DEF Typed, WriterSlots
    <3>2. status'[d] = status[d] /\ PathOf(d)' = PathOf(d)
      BY <2>3, <3>1 DEF Frees, PathOf
    <3> QED
      BY <2>1, <3>1, <3>2 DEF Taken, Adding
  <2> QED
    BY <2>2, <2>3
<1>4. FileThere'
  <2> SUFFICES ASSUME NEW c \in Slot, status'[c] = "allocated", file'[PathOf(c)'] = Nil
               PROVE  \E u \in Writers : wr'[u].pc \in {"allocated", "intended"} /\ wr'[u].slot = c
    BY DEF FileThere
  <2>1. c \notin F /\ status[c] = "allocated" /\ PathOf(c)' = PathOf(c) /\ file' = file /\ wr' = wr
    BY DEF Frees, PathOf
  <2> QED
    BY <2>1 DEF Rows, FileThere
<1>5. BatchIs'
  BY DEF Batch, BatchIs, Frees, workerVars
<1>6. JobsLive'
  <2>1. ASSUME NEW s \in kjob
        PROVE  LiveStripe(s)'
    <3>1. s \notin S /\ LiveStripe(s)
      BY DEF Batch, JobsLive, Frees
    <3> QED
      BY <3>1, FreesLive
  <2> QED
    BY <2>1 DEF Batch, JobsLive, Begun, ToRead, Frees, workerVars
<1>7. ParityLive'
  <2> SUFFICES ASSUME NEW p \in Parity, pstatus'[p] = "allocated"
               PROVE  LiveStripe(StripeOf(p))'
    BY DEF ParityLive
  <2>1. p \notin P /\ pstatus[p] = "allocated"
    BY DEF Frees
  <2>2. LiveStripe(StripeOf(p))
    BY <2>1 DEF Batch, ParityLive
  <2>3. PICK s \in Stripe : s = StripeOf(p)
    BY SlotFacts
  <2>4. s \notin S \ L
    BY <2>1, <2>3 DEF Frees, StaleParities
  <2>5. LiveStripe(s)'
    BY <2>2, <2>3, <2>4, FreesLive
  <2> QED
    BY <2>3, <2>5
<1>8. ListsOpen'
  BY DEF Listed, ListsOpen, Frees
<1>9. FormerListed'
  <2> SUFFICES ASSUME NEW c \in Slot, NEW g \in 0..MaxGen, g < gen'[c], file[<<c, g>>] # Nil
               PROVE  \E q \in Releasers : <<c, g>> \in rel'[q].files
    BY DEF FormerListed, Frees
  <2>1. CASE c \in F /\ g = gen[c]
    BY <2>1 DEF Frees, PathOf
  <2>2. CASE ~(c \in F /\ g = gen[c])
    <3>0. gen'[c] = (IF c \in F THEN gen[c] + 1 ELSE gen[c]) /\ gen[c] \in Nat /\ g \in Nat
      BY ShapeAssumption DEF Frees, Typed, TypeOK
    <3>1. g < gen[c]
      BY <2>2, <3>0
    <3>2. PICK q \in Releasers : <<c, g>> \in rel[q].files
      BY <3>1 DEF Listed, FormerListed
    <3>3. q # r
      BY <3>2 DEF Listed, ListsOpen, Frees
    <3> QED
      BY <3>2, <3>3 DEF Frees
  <2> QED
    BY <2>1, <2>2
<1>10. ParityKnown'
  <2> SUFFICES ASSUME NEW p \in Parity, pfile[p] # Nil
               PROVE  \/ pstatus'[p] = "allocated" \/ kput[p] # "todo"
                      \/ \E q \in Releasers : p \in rel'[q].parities
    BY DEF ParityKnown, Frees, workerVars
  <2>1. ASSUME NEW q \in Releasers, p \in rel[q].parities
        PROVE  q # r
    BY <2>1 DEF Listed, ListsOpen, Frees
  <2> QED
    BY <2>1 DEF Listed, ParityKnown, Frees
<1> QED
  BY <1>1, <1>2, <1>3, <1>4, <1>5, <1>6, <1>7, <1>8, <1>9, <1>10 DEF Rows, Batch, Listed

LEMMA FreesSynced ==
    ASSUME Synced, Typed', StaleOld', NEW r \in Releasers, NEW F, NEW S, NEW L, NEW P,
           Frees(r, F, S, L, P)
    PROVE  Synced'
<1>1. Settled'
  BY FreesSettled DEF Synced
<1>2. StaleApart'
  <2> SUFFICES ASSUME NEW q \in Releasers, NEW p \in rel'[q].parities
               PROVE  pstatus'[p] # "allocated" /\ StripeOf(p) \notin kbatch
    BY DEF StaleApart, Frees, workerVars
  <2>1. CASE q = r
    BY <2>1 DEF Frees, StaleParities
  <2>2. CASE q # r
    <3>1. p \in rel[q].parities /\ p \in Parity
      BY <2>2 DEF Frees, Synced, Settled, Typed, TypeOK, ReleaserState
    <3> QED
      BY <3>1 DEF Frees, Synced, StaleApart
  <2> QED
    BY <2>1, <2>2
<1>3. UpToDate'
  <2> SUFFICES ASSUME NEW s \in Stripe, ~Unsettled(s)'
               PROVE  /\ s \in kbatch /\ kpc = "computing" => Current(s)'
                      /\ s \notin kbatch /\ LiveStripe(s)' => Coded(s)'
    BY DEF UpToDate, Frees, workerVars
  <2>1. CASE s \in L
    BY <2>1 DEF Frees, Unsettled, Synced, Settled, Batch, BatchIs
  <2>2. CASE s \in S \ L
    <3>1. ~LiveStripe(s)'
      BY <2>2, FreesLive
    <3>2. s \notin kbatch
      BY <2>2 DEF Frees
    <3> QED
      BY <3>1, <3>2
  <2>3. CASE s \notin S
    <3>1. /\ \A c \in SlotsOf(s) :
                status'[c] = status[c] /\ PathOf(c)' = PathOf(c) /\ QueueOf(c)' = QueueOf(c)
          /\ LiveStripe(s)' = LiveStripe(s)
      BY <2>3, FreesLive
    <3>2. UNCHANGED <<file, pfile, workerVars, wr>>
          /\ \A p \in ParityOf(s) : pstatus'[p] = pstatus[p] /\ phash'[p] = phash[p]
      BY <2>3, ShardSlots DEF Frees, StaleParities
    <3>3. ~Unsettled(s)
      BY <3>1, <3>2 DEF Unsettled, Touches, Frees
    <3>4. /\ s \in kbatch /\ kpc = "computing" => Current(s)
          /\ s \notin kbatch /\ LiveStripe(s) => Coded(s)
      BY <3>3 DEF Synced, UpToDate
    <3>5. \A i \in Shard : /\ status'[<<s, i>>] = status[<<s, i>>]
                           /\ PathOf(<<s, i>>)' = PathOf(<<s, i>>)
      BY <3>1, ShardSlots
    <3>6. Shards(s)' = Shards(s)
      BY <3>2, <3>5 DEF Shards
    <3>7. Current(s) => Current(s)'
      BY <3>1, <3>2 DEF Current, Encoded, workerVars
    <3>8. Coded(s) => Coded(s)'
      BY <3>2, <3>6 DEF Coded
    <3> QED
      BY <3>1, <3>4, <3>7, <3>8
  <2> QED
    BY <2>1, <2>2, <2>3 DEF Frees
<1> QED
  BY <1>1, <1>2, <1>3 DEF Synced

(* The deletion of files afterwards, and the other steps of a release.     *)
LEMMA DeleteSettled ==
    ASSUME Settled, Typed', StaleOld', ~DiskFaults, NEW r \in Releasers,
           ScanOrphans(r) \/ DeleteFile(r) \/ DeleteParityFile(r) \/ EndRelease(r)
    PROVE  /\ Settled'
           /\ UNCHANGED <<dbVars, wr, workerVars, boot>>
           /\ \A c \in Slot : file'[PathOf(c)] = file[PathOf(c)]
           /\ \A q \in Releasers : rel'[q].parities \subseteq rel[q].parities
           /\ \A p \in Parity : pfile'[p] = pfile[p] \/ \E q \in Releasers : p \in rel[q].parities
<1> USE DEF Settled
<1>0. rel \in [Releasers -> ReleaserState] /\ file \in [Path -> Stored \cup {Nil}]
      /\ pfile \in [Parity -> Vector \cup {Nil, Torn}]
  BY DEF Typed, TypeOK
<1>1. UNCHANGED <<dbVars, wr, workerVars, boot>>
  BY DEF ScanOrphans, DeleteFile, DeleteParityFile, EndRelease
<1>2. /\ \A f \in Path : file'[f] = file[f] \/ (file'[f] = Nil /\ f \in rel[r].files)
      /\ \A p \in Parity : pfile'[p] = pfile[p] \/ (pfile'[p] = Nil /\ p \in rel[r].parities)
      /\ \A f \in rel[r].files : f \in rel'[r].files \/ file'[f] = Nil
      /\ \A p \in rel[r].parities : p \in rel'[r].parities \/ pfile'[p] = Nil
      /\ rel'[r].files \subseteq rel[r].files /\ rel'[r].parities \subseteq rel[r].parities
      /\ \A q \in Releasers : q # r => rel'[q] = rel[q]
      /\ rel'[r].pc = "deleting" \/ (rel'[r].files = {} /\ rel'[r].parities = {})
  <2>1. CASE ScanOrphans(r)
    BY <1>0, <2>1 DEF ScanOrphans, diskVars, ReleaserState, Listed, ListsOpen
  <2>2. CASE DeleteFile(r)
    <3>1. PICK f \in rel[r].files :
              file' = [file EXCEPT ![f] = Nil] /\ rel' = [rel EXCEPT ![r].files = @ \ {f}]
      BY <2>2 DEF DeleteFile
    <3>2. f \in Path /\ rel[r].pc = "deleting" /\ pfile' = pfile
      BY <1>0, <2>2 DEF DeleteFile, ReleaserState
    <3>3. /\ rel'[r].files = rel[r].files \ {f} /\ rel'[r].parities = rel[r].parities
          /\ rel'[r].pc = rel[r].pc /\ \A q \in Releasers : q # r => rel'[q] = rel[q]
      BY <1>0, <3>1 DEF ReleaserState
    <3> QED
      BY <1>0, <3>1, <3>2, <3>3
  <2>3. CASE DeleteParityFile(r)
    <3>1. PICK p \in rel[r].parities :
              pfile' = [pfile EXCEPT ![p] = Nil] /\ rel' = [rel EXCEPT ![r].parities = @ \ {p}]
      BY <2>3 DEF DeleteParityFile
    <3>2. p \in Parity /\ rel[r].pc = "deleting" /\ file' = file
      BY <1>0, <2>3 DEF DeleteParityFile, ReleaserState
    <3>3. /\ rel'[r].parities = rel[r].parities \ {p} /\ rel'[r].files = rel[r].files
          /\ rel'[r].pc = rel[r].pc /\ \A q \in Releasers : q # r => rel'[q] = rel[q]
      BY <1>0, <3>1 DEF ReleaserState
    <3> QED
      BY <1>0, <3>1, <3>2, <3>3
  <2>4. CASE EndRelease(r)
    BY <1>0, <2>4 DEF EndRelease, diskVars, IdleReleaser
  <2> QED
    BY <2>1, <2>2, <2>3, <2>4
<1>3. \A c \in Slot : /\ PathOf(c)' = PathOf(c) /\ QueueOf(c)' = QueueOf(c)
                      /\ file'[PathOf(c)] = file[PathOf(c)]
  <2> TAKE c \in Slot
  <2>1. PathOf(c) \in Path /\ PathOf(c)[1] = c /\ PathOf(c)[2] = gen[c] /\ gen[c] \in Nat
    BY PathIn DEF PathOf, Typed, TypeOK
  <2>2. PathOf(c) \notin rel[r].files
    BY <2>1 DEF StaleOld
  <2> QED
    BY <1>1, <1>2, <2>1, <2>2 DEF PathOf, QueueOf, dbVars
<1>4. Rows'
  <2>1. EmptyClean' /\ StripeWhole'
    BY <1>1, <1>3 DEF Rows, EmptyClean, StripeWhole, dbVars
  <2>2. RowsTaken'
    BY <1>1 DEF Rows, RowsTaken, Taken, Adding, PathOf, dbVars
  <2>3. FileThere'
    BY <1>1, <1>3 DEF Rows, FileThere, dbVars
  <2> QED
    BY <2>1, <2>2, <2>3 DEF Rows
<1>5. Batch'
  <2>1. \A s : LiveStripe(s)' = LiveStripe(s)
    BY <1>1 DEF LiveStripe, dbVars
  <2> QED
    BY <1>1, <2>1 DEF Batch, BatchIs, JobsLive, Begun, ToRead, ParityLive, dbVars, workerVars
<1>6. ListsOpen'
  BY <1>2 DEF Listed, ListsOpen
<1>7. FormerListed'
  <2> SUFFICES ASSUME NEW c \in Slot, NEW g \in 0..MaxGen, g < gen[c], file'[<<c, g>>] # Nil
               PROVE  \E q \in Releasers : <<c, g>> \in rel'[q].files
    BY <1>1 DEF FormerListed, dbVars
  <2>1. <<c, g>> \in Path
    BY DEF Path
  <2>2. PICK q \in Releasers : <<c, g>> \in rel[q].files
    BY <1>2, <2>1 DEF Listed, FormerListed
  <2> QED
    BY <1>2, <2>2
<1>8. ParityKnown'
  <2> SUFFICES ASSUME NEW p \in Parity, pfile'[p] # Nil
               PROVE  \/ pstatus[p] = "allocated" \/ kput[p] # "todo"
                      \/ \E q \in Releasers : p \in rel'[q].parities
    BY <1>1 DEF ParityKnown, dbVars, workerVars
  <2>1. pfile[p] # Nil
    BY <1>2
  <2>2. ASSUME NEW q \in Releasers, p \in rel[q].parities
        PROVE  p \in rel'[q].parities
    BY <1>2, <2>2
  <2> QED
    BY <2>1, <2>2 DEF Listed, ParityKnown
<1>9. Settled'
  BY <1>4, <1>5, <1>6, <1>7, <1>8 DEF Listed
<1>10. /\ \A q \in Releasers : rel'[q].parities \subseteq rel[q].parities
       /\ \A p \in Parity : pfile'[p] = pfile[p] \/ \E q \in Releasers : p \in rel[q].parities
  BY <1>2
<1> QED
  BY <1>1, <1>3, <1>9, <1>10

LEMMA DeleteSynced ==
    ASSUME Synced, Settled', UNCHANGED <<dbVars, wr, workerVars, boot>>,
           \A c \in Slot : file'[PathOf(c)] = file[PathOf(c)],
           \A q \in Releasers : rel'[q].parities \subseteq rel[q].parities,
           \A p \in Parity : pfile'[p] = pfile[p] \/ \E q \in Releasers : p \in rel[q].parities
    PROVE  Synced'
<1>1. StaleApart'
  BY DEF Synced, StaleApart, dbVars, workerVars
<1>2. UpToDate'
  <2> SUFFICES ASSUME NEW s \in Stripe, ~Unsettled(s)'
               PROVE  /\ s \in kbatch /\ kpc = "computing" => Current(s)'
                      /\ s \notin kbatch /\ LiveStripe(s)' => Coded(s)'
    BY DEF UpToDate, workerVars
  <2>1. ~Unsettled(s)
    BY DEF Unsettled, Touches, QueueOf, dbVars
  <2>2. \A c \in SlotsOf(s) : PathOf(c)' = PathOf(c) /\ file'[PathOf(c)] = file[PathOf(c)]
                              /\ status'[c] = status[c]
    BY ShardSlots DEF PathOf, dbVars
  <2>3. Shards(s)' = Shards(s) /\ LiveStripe(s)' = LiveStripe(s)
    BY <2>2, SameShards DEF Same, dbVars
  <2>4. ASSUME s \in kbatch, kpc = "computing"
        PROVE  Current(s)'
    <3>1. Current(s)
      BY <2>1, <2>4 DEF Synced, UpToDate
    <3>2. \A p \in ParityOf(s) : pfile'[p] = pfile[p]
      BY <2>4, ShardSlots DEF Synced, StaleApart
    <3> QED
      BY <2>2, <2>3, <3>1, <3>2 DEF Current, Encoded, workerVars
  <2>5. ASSUME s \notin kbatch, LiveStripe(s)'
        PROVE  Coded(s)'
    <3>1. Coded(s)
      BY <2>1, <2>3, <2>5 DEF Synced, UpToDate
    <3>2. \A p \in ParityOf(s) : pfile'[p] = pfile[p]
      BY <3>1, ShardSlots DEF Synced, StaleApart, Coded
    <3> QED
      BY <2>3, <3>1, <3>2 DEF Coded, dbVars
  <2> QED
    BY <2>4, <2>5
<1> QED
  BY <1>1, <1>2 DEF Synced
-----------------------------------------------------------------------------
LEMMA InitSynced == Init => Synced
<1> SUFFICES ASSUME Init PROVE Synced
  OBVIOUS
<1>1. Typed /\ \A w \in Writers : wr[w].pc = "idle"
  BY InitTyped DEF Init, IdleWriter
<1>2. \A r \in Releasers : rel[r].files = {} /\ rel[r].parities = {}
  BY DEF Init, IdleReleaser
<1>3. /\ \A c \in Slot : status[c] = "none" /\ gen[c] = 0
      /\ \A p \in Parity : pstatus[p] = "none" /\ pfile[p] = Nil /\ kput[p] = "todo"
      /\ \A f \in Path : file[f] = Nil
      /\ wq = {} /\ run = {} /\ kbatch = {} /\ kjob = {} /\ boot = "up"
  BY DEF Init
<1>4. Rows
  BY <1>1, <1>3, SlotFacts
     DEF Rows, EmptyClean, QueueOf, StripeWhole, RowsTaken, Taken, Adding, FileThere, StripeOf
<1>5. Batch
  BY <1>3 DEF Batch, BatchIs, JobsLive, ParityLive
<1>6. Listed
  BY <1>2, <1>3 DEF Listed, ListsOpen, FormerListed, ParityKnown
<1>7. \A s \in Stripe : ~LiveStripe(s)
  BY <1>3, ShardSlots DEF LiveStripe
<1> QED
  BY <1>1, <1>2, <1>3, <1>4, <1>5, <1>6, <1>7
     DEF Synced, Settled, StaleOld, UpToDate, StaleApart

(* One release, of a purge or of an orphan collection.                     *)
LEMMA PurgeFrees ==
    ASSUME Settled, Faultless, NEW r \in Releasers,
           (\E O \in SUBSET Objects : Purge(r, O)) \/ CollectOrphans(r)
    PROVE  \E F, S, L, P : Frees(r, F, S, L, P)
<1>1. ASSUME NEW O \in SUBSET Objects, Purge(r, O)
      PROVE  \E F, S, L, P : Frees(r, F, S, L, P)
  <2>1. {ref[o] : o \in O} \in SUBSET Slot
    BY <1>1 DEF Purge, Settled, Typed, TypeOK
  <2> QED
    BY <1>1, <2>1, ReleaseFrees DEF Purge, Faultless
<1>2. CASE CollectOrphans(r)
  <2>1. rel[r].cand \in SUBSET Slot
    BY DEF Settled, Typed, TypeOK, ReleaserState
  <2> QED
    BY <1>2, <2>1, ReleaseFrees DEF CollectOrphans, Faultless
<1> QED
  BY <1>1, <1>2

(* Time passes, or nothing does.                                           *)
LEMMA IdleSynced ==
    ASSUME Settled, Typed', StaleOld',
           UNCHANGED <<status, gen, pstatus, phash, wq, pend, run, file, pfile, wr,
                       workerVars, rel, boot>>
    PROVE  /\ Settled'
           /\ Synced => Synced'
<1>1. /\ \A c : PathOf(c)' = PathOf(c) /\ QueueOf(c)' = QueueOf(c)
      /\ \A s : LiveStripe(s)' = LiveStripe(s) /\ Shards(s)' = Shards(s)
      /\ \A s : Unsettled(s)' = Unsettled(s)
  BY DEF PathOf, QueueOf, LiveStripe, Shards, Unsettled, Touches
<1>2. EmptyClean' /\ StripeWhole' /\ FileThere'
  BY <1>1 DEF Settled, Rows, EmptyClean, StripeWhole, FileThere
<1>3. RowsTaken'
  BY DEF Settled, Rows, RowsTaken, Taken, Adding, PathOf
<1>4. Batch'
  BY <1>1 DEF Settled, Batch, BatchIs, JobsLive, Begun, ToRead, ParityLive, workerVars
<1>5. Listed'
  BY DEF Settled, Listed, ListsOpen, FormerListed, ParityKnown, workerVars
<1>6. Settled'
  BY <1>2, <1>3, <1>4, <1>5 DEF Settled, Rows
<1>7. ASSUME Synced
      PROVE  UpToDate' /\ StaleApart'
  <2>1. StaleApart'
    BY <1>7 DEF Synced, StaleApart, workerVars
  <2>2. ASSUME NEW s
        PROVE  (Current(s) => Current(s)') /\ (Coded(s) => Coded(s)')
    BY <1>1 DEF Current, Encoded, Coded, workerVars
  <2>3. UpToDate'
    BY <1>1, <1>7, <2>2 DEF Synced, UpToDate, workerVars
  <2> QED
    BY <2>1, <2>3
<1> QED
  BY <1>6, <1>7 DEF Synced

LEMMA NextSettled ==
    ASSUME Faultless, Settled, [Next]_vars
    PROVE  Settled' /\ (~SlowDeletes /\ Synced => Synced')
<1>1. Typed' /\ StaleOld'
  BY NextTyped, StaleKept DEF Settled
<1>2. ASSUME NEW w \in Writers,
             Allocate(w) \/ LoadForOverwrite(w) \/ ReadSnapshot(w) \/ WriterStep(w)
      PROVE  Settled' /\ (~SlowDeletes /\ Synced => Synced')
  BY <1>1, <1>2, WriterWrites, WritesSettled, WritesSynced DEF Faultless
<1>3. CASE WorkerStep
  BY <1>1, <1>3, WorkerSettled, WorkerSynced DEF Faultless
<1>4. ASSUME NEW r \in Releasers,
             (\E O \in SUBSET Objects : Purge(r, O)) \/ ScanOrphans(r) \/ ReleaserStep(r)
      PROVE  Settled' /\ (~SlowDeletes /\ Synced => Synced')
  <2>1. CASE (\E O \in SUBSET Objects : Purge(r, O)) \/ CollectOrphans(r)
    <3>1. PICK F, S, L, P : Frees(r, F, S, L, P)
      BY <2>1, PurgeFrees
    <3> QED
      BY <1>1, <3>1, FreesSettled, FreesSynced
  <2>2. CASE ScanOrphans(r) \/ DeleteFile(r) \/ DeleteParityFile(r) \/ EndRelease(r)
    <3>1. /\ Settled'
          /\ UNCHANGED <<dbVars, wr, workerVars, boot>>
          /\ \A c \in Slot : file'[PathOf(c)] = file[PathOf(c)]
          /\ \A q \in Releasers : rel'[q].parities \subseteq rel[q].parities
          /\ \A p \in Parity : pfile'[p] = pfile[p] \/ \E q \in Releasers : p \in rel[q].parities
      BY <1>1, <2>2, DeleteSettled DEF Faultless
    <3> QED
      BY <3>1, DeleteSynced
  <2> QED
    BY <1>4, <2>1, <2>2 DEF ReleaserStep
<1>5. CASE (\E s \in Stripe : Age(s)) \/ UNCHANGED vars
  <2>1. UNCHANGED <<status, gen, pstatus, phash, wq, pend, run, file, pfile, wr,
                    workerVars, rel, boot>>
    BY <1>5 DEF Age, vars, dbVars, diskVars
  <2> QED
    BY <1>1, <2>1, IdleSynced
<1>6. CASE Crash \/ Startup
  <2>1. ~Crash
    BY DEF Faultless, Crash, Settled, Typed, TypeOK
  <2>2. ~Startup
    BY DEF Startup, FlushAll, DropQueue, Settled, Batch, BatchIs
  <2> QED
    BY <1>6, <2>1, <2>2
<1> QED
  BY <1>2, <1>3, <1>4, <1>5, <1>6 DEF Next, Releasers

(* Once nothing is queued for a stripe its parity rows and files encode    *)
(* the data that is there: Flush, ReleaseChunks and the worker lose no     *)
(* recompute, whatever overwrites a chunk while a batch reads it.          *)
THEOREM ParityCatchesUp ==
    ASSUME Faultless, ~SlowDeletes
    PROVE  Spec => []QuiescentParity
<1>1. Init => Synced
  BY InitSynced
<1>2. Synced /\ [Next]_vars => Synced'
  BY NextSettled DEF Synced
<1>3. Synced => QuiescentParity
  <2> SUFFICES ASSUME Synced, NEW s \in Stripe, Quiescent(s) PROVE Protected(s)
    BY DEF QuiescentParity
  <2>1. ~Unsettled(s) /\ s \notin kbatch
    BY DEF Quiescent, Unsettled, Touches, InFlight, Synced, Settled, Batch, BatchIs
  <2>2. LiveStripe(s) => Coded(s)
    BY <2>1 DEF Synced, UpToDate
  <2>3. ~LiveStripe(s) => \A p \in ParityOf(s) : pstatus[p] # "allocated"
    BY ShardSlots DEF Synced, Settled, Batch, ParityLive
  <2> QED
    BY <2>2, <2>3 DEF Protected, Coded
<1> QED
  BY <1>1, <1>2, <1>3, PTL DEF Spec

(* DeleteStaleFiles forgets no file: after a release has run its course    *)
(* no former content of a slot and no parity of an emptied stripe is left  *)
(* on the disks, however late the deletion comes.                          *)
THEOREM PurgedLeavesNothing ==
    ASSUME Faultless
    PROVE  Spec => []PurgedDataErased
<1>1. Init => Settled
  BY InitSynced DEF Synced
<1>2. Settled /\ [Next]_vars => Settled'
  BY NextSettled
<1>3. Settled => PurgedDataErased
  <2> SUFFICES ASSUME Settled, NEW s \in Stripe, Quiescent(s)
               PROVE  /\ \A c \in SlotsOf(s) : \A g \in 0..MaxGen : g < gen[c] => file[<<c, g>>] = Nil
                      /\ ~LiveStripe(s) => \A p \in ParityOf(s) : pfile[p] = Nil
    BY DEF PurgedDataErased
  <2>1. \A r \in Releasers : rel[r].files = {} /\ rel[r].parities = {}
    BY DEF Quiescent, Settled, Listed, ListsOpen
  <2>2. s \notin kjob
    BY DEF Quiescent, Settled, Batch, BatchIs, JobsLive
  <2>3. \A c \in SlotsOf(s) : \A g \in 0..MaxGen : g < gen[c] => file[<<c, g>>] = Nil
    BY <2>1, ShardSlots DEF Settled, Listed, FormerListed
  <2>4. ASSUME ~LiveStripe(s), NEW p \in ParityOf(s)
        PROVE  pfile[p] = Nil
    <3>1. p \in Parity /\ StripeOf(p) = s
      BY ShardSlots
    <3>2. pstatus[p] # "allocated"
      BY <2>4, <3>1 DEF Settled, Batch, ParityLive
    <3>3. kput[p] = "todo"
      BY <2>2, <3>1 DEF Settled, Batch, JobsLive, Begun
    <3> QED
      BY <2>1, <3>1, <3>2, <3>3 DEF Settled, Listed, ParityKnown
  <2> QED
    BY <2>3, <2>4
<1> QED
  BY <1>1, <1>2, <1>3, PTL DEF Spec
=============================================================================
