------------------------------ MODULE PoolState ------------------------------
(***************************************************************************)
(* The state of one storage pool of zenofs: the rows of the chunks,        *)
(* write_queues, stripe_queues and version_chunks tables, the chunk files  *)
(* on the disks, and the program counters of the goroutines that work on   *)
(* them.  PoolWrite, PoolParity and PoolRelease hold the actions of those  *)
(* goroutines; Pool composes them.                                         *)
(*                                                                         *)
(* A transaction (DbManager.Tx, serialised by BEGIN IMMEDIATE) is one      *)
(* step, a statement outside a transaction is one step, and creating       *)
(* (truncating) a file and completing it are two steps.                    *)
(***************************************************************************)
EXTENDS Integers, FiniteSets

CONSTANTS
    Writers,        \* request goroutines that store slices (fileHandle.putSlice)
    Purgers,        \* goroutines that purge versions and release their chunks
    Collectors,     \* goroutines that run the orphan collection
    Objects,        \* keys of version_chunks rows: one (version_id, idx) each
    Data,           \* contents a slice can have
    Nil,            \* absent row value, missing file, zero-filled shard
    Torn,           \* what a file holds between truncation and the last byte
    DS, PS,         \* data_shards and parity_shards of the pool
    MaxStripe,      \* bound: stripes ever created
    MaxGen,         \* bound: path generations of one slot
    MaxQueue,       \* bound: write_queues rows one chunk can have at a time
    MaxCrash        \* bound: process crashes

(***************************************************************************)
(* The faults and the timing the environment may produce.                  *)
(***************************************************************************)
CONSTANTS
    DiskFaults,     \* a disk read, write or delete may fail
    DbFaults,       \* a database statement may fail
    Overwriting,    \* the chunk API overwrites chunks in place (WriteChunks)
    SlowWriters,    \* a release may meet a request that holds the chunk half way
    SlowBatches,    \* a release may commit during a parity batch of its stripe
    SlowDeletes     \* a parity batch may start before stale parity is deleted

ASSUME ShapeAssumption ==
    /\ DS \in Nat \ {0}
    /\ PS \in Nat
    /\ MaxStripe \in Nat /\ MaxGen \in Nat /\ MaxQueue \in Nat /\ MaxCrash \in Nat
ASSUME SentinelAssumption ==
    /\ Nil \notin Data /\ Torn \notin Data /\ Nil # Torn /\ Nil \notin Objects
    /\ Nil \notin (1..MaxStripe) \X (0..(DS - 1))
    /\ Nil \notin ((1..MaxStripe) \X (0..(DS - 1))) \X (0..MaxGen)
ASSUME SwitchAssumption ==
    {DiskFaults, DbFaults, Overwriting, SlowWriters, SlowBatches,
     SlowDeletes} \subseteq BOOLEAN

VARIABLES
    (* tables *)
    status,     \* chunks.status of the data rows; "none": the row does not exist
    hash,       \* chunks.hash (with size): the content the row says the file has
    gen,        \* chunks.path: the how-manieth path generated for the slot
    aged,       \* stripes whose rows are older than orphanGracePeriod
    pstatus,    \* chunks.status of the parity rows
    phash,      \* chunks.hash of the parity rows
    ref, refHash, \* version_chunks: chunk_id and hash of each row
    wq,         \* write_queues
    pend, run,  \* stripe_queues of type parity: stripes with a Pending / Running row
    (* disks *)
    file,       \* data chunk files, by path
    pfile,      \* parity files; the path of a parity chunk never changes
    (* goroutines *)
    wr,         \* writers
    kpc, kbatch, kpath, kgot, kjob, kput, \* the parity worker's batch
    rel,        \* releasers
    boot, crashes \* startup phase; crashes so far

dbVars     == <<status, hash, gen, aged, pstatus, phash, ref, refHash, wq, pend, run>>
diskVars   == <<file, pfile>>
workerVars == <<kpc, kbatch, kpath, kgot, kjob, kput>>
vars == <<dbVars, diskVars, wr, workerVars, rel, boot, crashes>>

-----------------------------------------------------------------------------
Releasers == Purgers \cup Collectors
Stripe  == 1..MaxStripe
Shard   == 0..(DS - 1)
Slot    == Stripe \X Shard              \* data chunks: (stripe, index)
Parity  == Stripe \X (0..(PS - 1))      \* parity chunks: (stripe, index)
Path    == Slot \X (0..MaxGen)          \* a path is generated for one slot only

Stored  == Data \cup {Torn}             \* what reading an existing file returns
Vector  == [Shard -> Stored \cup {Nil}] \* the data shards a parity shard encodes
Status  == {"none", "reserved", "allocated"}
Mark    == {"pending", "success", "fail"}
QueueId == 1..MaxQueue
QueueRow == [chunk : Slot, id : QueueId, mark : Mark]

StripeOf(c) == c[1]
SlotsOf(s)  == {c \in Slot : StripeOf(c) = s}
ParityOf(s) == {p \in Parity : StripeOf(p) = s}
PathOf(c)   == <<c, gen[c]>>

WriterPc == {"idle", "snapshot", "loaded", "allocated", "intended", "opened", "written",
             "recorded", "flushed"}
WriterState == [pc : WriterPc, slot : Slot \cup {Nil}, path : Path \cup {Nil},
                val : Data \cup {Nil}, obj : Objects \cup {Nil},
                ok : BOOLEAN, fresh : BOOLEAN]
IdleWriter == [pc |-> "idle", slot |-> Nil, path |-> Nil, val |-> Nil,
               obj |-> Nil, ok |-> TRUE, fresh |-> FALSE]

ReleaserState == [pc : {"idle", "scanned", "deleting"}, cand : SUBSET Slot,
                  files : SUBSET Path, parities : SUBSET Parity]
IdleReleaser == [pc |-> "idle", cand |-> {}, files |-> {}, parities |-> {}]

(* Every row and file has the shape the code gives it. *)
TypeOK ==
    /\ status  \in [Slot -> Status]
    /\ hash    \in [Slot -> Stored \cup {Nil}]
    /\ gen     \in [Slot -> 0..MaxGen]
    /\ aged    \in SUBSET Stripe
    /\ pstatus \in [Parity -> Status]
    /\ phash   \in [Parity -> Vector \cup {Nil}]
    /\ ref     \in [Objects -> Slot \cup {Nil}]
    /\ refHash \in [Objects -> Data \cup {Nil}]
    /\ wq      \in SUBSET QueueRow
    /\ pend    \in SUBSET Stripe
    /\ run     \in SUBSET Stripe
    /\ file    \in [Path -> Stored \cup {Nil}]
    /\ pfile   \in [Parity -> Vector \cup {Nil, Torn}]
    /\ wr      \in [Writers -> WriterState]
    /\ kpc     \in {"idle", "claimed", "computing"}
    /\ kbatch  \in SUBSET Stripe
    /\ kpath   \in [Slot -> Path \cup {Nil}]
    /\ kgot    \in [Slot -> Stored \cup {Nil}]
    /\ kjob    \in SUBSET Stripe
    /\ kput    \in [Parity -> {"todo", "open", "done"}]
    /\ rel     \in [Releasers -> ReleaserState]
    /\ boot    \in {"flush", "clean", "up"}
    /\ crashes \in 0..MaxCrash

-----------------------------------------------------------------------------
(* What a reader of the tables derives from them. *)

Referenced(c)  == \E o \in Objects : ref[o] = c
QueueOf(c)     == {r \in wq : r.chunk = c}
InFlight(w)    == wr[w].pc # "idle"
Holds(w, c)    == InFlight(w) /\ wr[w].slot = c
LiveStripe(s)  == \E c \in SlotsOf(s) : status[c] = "allocated"

Init ==
    /\ status  = [c \in Slot |-> "none"]
    /\ hash    = [c \in Slot |-> Nil]
    /\ gen     = [c \in Slot |-> 0]
    /\ aged    = {}
    /\ pstatus = [p \in Parity |-> "none"]
    /\ phash   = [p \in Parity |-> Nil]
    /\ ref     = [o \in Objects |-> Nil]
    /\ refHash = [o \in Objects |-> Nil]
    /\ wq = {} /\ pend = {} /\ run = {}
    /\ file    = [f \in Path |-> Nil]
    /\ pfile   = [p \in Parity |-> Nil]
    /\ wr      = [w \in Writers |-> IdleWriter]
    /\ kpc = "idle" /\ kbatch = {} /\ kjob = {}
    /\ kpath   = [c \in Slot |-> Nil]
    /\ kgot    = [c \in Slot |-> Nil]
    /\ kput    = [p \in Parity |-> "todo"]
    /\ rel     = [r \in Releasers |-> IdleReleaser]
    /\ boot = "up" /\ crashes = 0
=============================================================================
