----------------------------- MODULE RebuildState ------------------------------
(***************************************************************************)
(* One pool with its disks, for what goes wrong with disks: the rows of    *)
(* pools, disks, chunks, stripe_queues and tasks, the files at the place   *)
(* the rows say, and what the references promise.  Requests are coarser    *)
(* here than in Pool: the write queue and the deletion of released files   *)
(* are part of the step they belong to.                                    *)
(***************************************************************************)
EXTENDS Naturals, FiniteSets

CONSTANTS
    Writers,        \* requests that store slices
    DS, PS,         \* data and parity shards the pool starts with
    MaxAdd,         \* bound: data disks added (at most one)
    MaxStripe,      \* bound: stripes ever created
    MaxWrite,       \* bound: slices written, those of the initial state included
    MaxTask,        \* bound: rebuild jobs
    MaxLoss,        \* bound: files lost and disks swapped
    MaxFault,       \* bound: crashes and failing statements of the worker
    Nil, Garbage,   \* no file or row value; bytes nobody ever wrote
    Overlaps        \* the races the environment may produce, see Rebuild

ASSUME RebuildAssumption ==
    /\ DS \in Nat \ {0} /\ PS \in Nat /\ MaxAdd \in {0, 1}
    /\ MaxStripe \in Nat \ {0} /\ MaxWrite \in Nat /\ MaxTask \in Nat
    /\ MaxLoss \in Nat /\ MaxFault \in Nat

VARIABLES
    pool,           \* pools: status, data_shards and parity_shards
    disk,           \* disks: status, and how often the path was swapped
    row,            \* chunks: status, hash, and the how-manieth path of the slot
    pend, run,      \* stripe_queues, parity: stripes with a Pending / Running row
    rpend, rrun,    \* stripe_queues, rebuild: Pending / Running rows (stripe, task)
    task,           \* tasks: status of each job
    file,           \* what the file at the place the row names holds
    want,           \* version_chunks: the slice a reference expects there
    wr,             \* the writers
    adding,         \* AddDisk between its two halves: the kind of shard, or Nil
    wk,             \* the parity worker
    writes, losses, faults

tables == <<pool, disk, row, pend, run, rpend, rrun, task>>
counts == <<writes, losses, faults>>
vars   == <<tables, file, want, wr, adding, wk, counts>>

Stripe == 1..MaxStripe
Task   == 1..MaxTask
Disk   == 1..(DS + PS + MaxAdd)
Data   == {"data"} \X (0..(DS + MaxAdd - 1))
Parity == {"parity"} \X (0..(PS + MaxAdd - 1))
Chunk  == Stripe \X (Data \cup Parity)
Entry  == Stripe \X (0..MaxTask)        \* a rebuild row; task 0: none

StripeOf(c) == c[1]
IsData(c)   == c[2][1] = "data"
Index(c)    == c[2][2]

(* Each stripe has one shard on each disk.  The shuffle of getNewChunks is *)
(* abstracted: every stripe has the layout of the first.                   *)
DiskOf(c) ==
    IF IsData(c) THEN (IF Index(c) < DS THEN Index(c) + 1 ELSE DS + PS + 1)
                 ELSE (IF Index(c) < PS THEN DS + Index(c) + 1 ELSE DS + PS + 1)

(* A slice is known by the number of its write.  A parity file is the      *)
(* vector of data shards it was computed from, zeros for unwritten slots.  *)
Slice   == {<<n>> : n \in 1..MaxWrite}
Zeros   == <<0>>
Vector  == UNION {[0..(n - 1) -> Slice \cup {Zeros, Garbage}] : n \in DS..(DS + MaxAdd)}
Content == Slice \cup {Zeros, Nil, Garbage} \cup Vector

ASSUME SentinelAssumption == Nil \notin Slice \cup {Zeros, Garbage} \cup Vector \cup Chunk \cup Nat
                                        \cup {"data", "parity"}

None    == [st |-> "none", hash |-> Nil, gen |-> 0]
Idle    == [pc |-> "idle", slot |-> Nil, val |-> Nil, loc |-> Nil, ds |-> 0, ps |-> 0]
NoBatch == [pc |-> "idle", ents |-> {}, meta |-> Nil, todo |-> {}, fix |-> <<>>, good |-> {}]

Written(c)   == row[c].st = "written"
Readable(c)  == file[c] # Nil /\ file[c] = row[c].hash
Slots(s)     == {c \in Chunk : StripeOf(c) = s /\ row[c].st # "none"}
Stripes      == {s \in Stripe : Slots(s) # {}}
Lost(c)      == Written(c) /\ ~Readable(c)

(* Where a row says its file is: the path of the slot on the disk as it is. *)
Loc(c) == <<row[c].gen, disk[DiskOf(c)].swaps>>

TypeOK ==
    /\ pool.status \in {"online", "offline"}
    /\ pool.ds \in DS..(DS + MaxAdd) /\ pool.ps \in PS..(PS + MaxAdd)
    /\ \A d \in Disk : disk[d].st \in {"none", "online", "repair"} /\ disk[d].swaps \in 0..MaxLoss
    /\ \A c \in Chunk : /\ row[c].st \in {"none", "reserved", "written", "double"}
                        /\ row[c].hash \in Content /\ file[c] \in Content
                        /\ row[c].st \in {"none", "reserved"} => row[c].hash = Nil
                        /\ want[c] \in Slice \cup {Nil}
    /\ pend \subseteq Stripe /\ run \subseteq Stripe
    /\ rpend \subseteq Entry /\ rrun \subseteq Entry /\ rpend \cap rrun = {}
    /\ task \in [Task -> {"none", "pending", "success", "fail"}]

(* A pool that is empty, or has one stripe of some written slots and its   *)
(* parity computed.                                                        *)
Init ==
    \E n \in {n \in 0..DS : n <= MaxWrite} :
        LET held(c) == IF n = 0 \/ StripeOf(c) # 1 \/ Index(c) >= (IF IsData(c) THEN DS ELSE PS) THEN None
                       ELSE IF ~IsData(c) THEN [st |-> "written", gen |-> 0, hash |->
                                [i \in 0..(DS - 1) |-> IF i < n THEN <<i + 1>> ELSE Zeros]]
                       ELSE IF Index(c) < n THEN [st |-> "written", gen |-> 0, hash |-> <<Index(c) + 1>>]
                       ELSE [st |-> "reserved", gen |-> 0, hash |-> Nil]
        IN  /\ row  = [c \in Chunk |-> held(c)]
            /\ file = [c \in Chunk |-> held(c).hash]
            /\ want = [c \in Chunk |-> IF IsData(c) THEN held(c).hash ELSE Nil]
            /\ pool = [status |-> "online", ds |-> DS, ps |-> PS]
            /\ disk = [d \in Disk |-> [st |-> IF d <= DS + PS THEN "online" ELSE "none", swaps |-> 0]]
            /\ pend = {} /\ run = {} /\ rpend = {} /\ rrun = {}
            /\ task = [t \in Task |-> "none"]
            /\ wr = [w \in Writers |-> Idle]
            /\ adding = Nil /\ wk = NoBatch
            /\ writes = n /\ losses = 0 /\ faults = 0
=============================================================================
