------------------------------- MODULE PoolAdmin -------------------------------
(***************************************************************************)
(* What requests do to the pool: slices written and released, disks added  *)
(* and swapped, the pool taken offline, rebuilds asked for by the          *)
(* administrator and by reads that fail.                                   *)
(***************************************************************************)
EXTENDS RebuildState

Update(w, r) == wr' = [wr EXCEPT ![w] = r]

(* getNewChunks, before its transaction: the pool and its online disks.    *)
CheckPool(w) ==
    /\ wr[w].pc = "idle" /\ writes < MaxWrite
    /\ pool.status = "online"
    /\ writes' = writes + 1
    /\ Update(w, [Idle EXCEPT !.pc = "checked", !.val = <<writes + 1>>, !.ds = pool.ds,
                              !.ps = IF Cardinality({d \in Disk : disk[d].st = "online"})
                                        = pool.ds + pool.ps THEN pool.ps ELSE Nil])
    /\ UNCHANGED <<tables, file, want, adding, wk, losses, faults>>

Holding(r, c) == [r EXCEPT !.pc = "allocated", !.slot = c, !.loc = Loc(c)]

(* The transaction: a Reserved slot of the pool is used again ...          *)
Reuse(w, c) ==
    /\ wr[w].pc = "checked"
    /\ IsData(c) /\ row[c].st = "reserved"
    /\ row' = [row EXCEPT ![c] = [@ EXCEPT !.st = "written", !.hash = wr[w].val]]
    /\ Update(w, Holding(wr[w], c))
    /\ UNCHANGED <<pool, disk, pend, run, rpend, rrun, task, file, want, adding, wk, counts>>

(* ... or a stripe of the shape read before is made.                       *)
NewStripe(w, s) ==
    LET slots == {c \in Chunk : StripeOf(c) = s /\ Index(c) < (IF IsData(c) THEN wr[w].ds ELSE wr[w].ps)}
        first == <<s, <<"data", 0>>>>
    IN  /\ wr[w].pc = "checked" /\ wr[w].ps # Nil
        /\ \A c \in Chunk : IsData(c) => row[c].st # "reserved"
        /\ s \notin Stripes /\ s - 1 \in Stripes \cup {0}
        /\ row' = [c \in Chunk |->
                    IF c = first THEN [st |-> "written", hash |-> wr[w].val, gen |-> 0]
                    ELSE IF c \in slots THEN [None EXCEPT !.st = "reserved"] ELSE row[c]]
        /\ Update(w, Holding(wr[w], first))
        /\ UNCHANGED <<pool, disk, pend, run, rpend, rrun, task, file, want, adding, wk, counts>>

(* The file is written where the row said it goes; a path that is no more  *)
(* current takes it where nobody reads.                                    *)
StoreSlice(w) ==
    LET r == wr[w] IN
    /\ r.pc = "allocated"
    /\ file' = IF r.loc = Loc(r.slot) THEN [file EXCEPT ![r.slot] = r.val] ELSE file
    /\ Update(w, [r EXCEPT !.pc = "stored"])
    /\ UNCHANGED <<tables, want, adding, wk, counts>>

(* Flush queues the parity of the stripe, and the version refers to it.    *)
FlushSlice(w) ==
    LET r == wr[w] IN
    /\ r.pc = "stored"
    /\ pend' = pend \cup {StripeOf(r.slot)}
    /\ want' = [want EXCEPT ![r.slot] = r.val]
    /\ Update(w, Idle)
    /\ UNCHANGED <<pool, disk, row, run, rpend, rrun, task, file, adding, wk, counts>>

Emptied_KeepsHash(r) ==             (* Mutant: the hash is not reset. *)
    [r EXCEPT !.st = "reserved", !.gen = r.gen + 1]
Emptied(r) == [st |-> "reserved", hash |-> Nil, gen |-> r.gen + 1]

(* ReleaseChunks of one chunk, by a purge or the collector: the slot gets  *)
(* a new path.  The parity of a stripe that keeps data is queued, unless   *)
(* it is already; an emptied stripe loses it.                              *)
Release(c) ==
    LET s    == StripeOf(c)
        live == \E b \in Slots(s) \ {c} : IsData(b) /\ Written(b)
        gone == {c} \cup (IF live THEN {} ELSE {p \in Slots(s) : ~IsData(p) /\ Written(p)})
    IN  /\ IsData(c) /\ Written(c)
        /\ \A w \in Writers : wr[w].slot # c
        /\ row'  = [b \in Chunk |-> IF b = c THEN Emptied(row[c])
                                    ELSE IF b \in gone THEN [row[b] EXCEPT !.st = "reserved", !.hash = Nil]
                                    ELSE row[b]]
        /\ file' = [b \in Chunk |-> IF b \in gone THEN Nil ELSE file[b]]
        /\ want' = [want EXCEPT ![c] = Nil]
        /\ pend' = IF live /\ s \notin run THEN pend \cup {s} ELSE pend
        /\ UNCHANGED <<pool, disk, run, rpend, rrun, task, wr, adding, wk, counts>>
-----------------------------------------------------------------------------
(* A file is lost or its disk can no longer read it.                       *)
LoseFile(c) ==
    /\ losses < MaxLoss /\ Written(c) /\ Readable(c)
    /\ file' = [file EXCEPT ![c] = Nil]
    /\ losses' = losses + 1
    /\ UNCHANGED <<tables, want, wr, adding, wk, writes, faults>>

(* readSlice fails, also because the pool is offline: RebuildByChunks      *)
(* queues the stripe unless a rebuild row of it is there.                  *)
ReadFails(c) ==
    LET s == StripeOf(c) IN
    /\ want[c] # Nil /\ (pool.status = "offline" \/ file[c] = Nil)
    /\ \A e \in rpend \cup rrun : e[1] # s
    /\ rpend' = rpend \cup {<<s, 0>>}
    /\ UNCHANGED <<pool, disk, row, pend, run, rrun, task, file, want, wr, adding, wk, counts>>

SwapDisk_KeepsPool(d) ==            (* Mutant: the pool stays online. *)
    /\ losses < MaxLoss /\ disk[d].st # "none"
    /\ disk' = [disk EXCEPT ![d] = [st |-> "repair", swaps |-> @.swaps + 1]]
    /\ file' = [c \in Chunk |-> IF DiskOf(c) = d THEN Nil ELSE file[c]]
    /\ losses' = losses + 1
    /\ UNCHANGED <<pool, row, pend, run, rpend, rrun, task, want, wr, adding, wk, writes, faults>>
(* The new disk is empty.                                                  *)
SwapDisk(d) ==
    /\ losses < MaxLoss /\ disk[d].st # "none"
    /\ disk' = [disk EXCEPT ![d] = [st |-> "repair", swaps |-> @.swaps + 1]]
    /\ pool' = [pool EXCEPT !.status = "offline"]
    /\ file' = [c \in Chunk |-> IF DiskOf(c) = d THEN Nil ELSE file[c]]
    /\ losses' = losses + 1
    /\ UNCHANGED <<row, pend, run, rpend, rrun, task, want, wr, adding, wk, writes, faults>>

OfflinePool ==
    /\ pool.status = "online"
    /\ pool' = [pool EXCEPT !.status = "offline"]
    /\ UNCHANGED <<disk, row, pend, run, rpend, rrun, task, file, want, wr, adding, wk, counts>>

(* RebuildPool: one job at a time, for the stripes with written shards on  *)
(* the disks to repair.                                                    *)
Damaged == {s \in Stripe : \E c \in Slots(s) : Written(c) /\ disk[DiskOf(c)].st = "repair"}
RebuildPool(t) ==
    /\ task[t] = "none" /\ \A u \in Task : u < t => task[u] \in {"success", "fail"}
    /\ Damaged # {}
    /\ task' = [task EXCEPT ![t] = "pending"]
    /\ rpend' = rpend \cup {<<s, t>> : s \in Damaged}
    /\ UNCHANGED <<pool, disk, row, pend, run, rrun, file, want, wr, adding, wk, counts>>

(* AddDisk, the transaction: the disk and the shape of the pool.           *)
AddDisk(kind) ==
    LET d == DS + PS + 1 IN
    /\ d \in Disk /\ disk[d].st = "none"
    /\ disk' = [disk EXCEPT ![d].st = "online"]
    /\ pool' = IF kind = "data" THEN [pool EXCEPT !.ds = @ + 1] ELSE [pool EXCEPT !.ps = @ + 1]
    /\ adding' = kind
    /\ UNCHANGED <<row, pend, run, rpend, rrun, task, file, want, wr, wk, counts>>

NewIndex_Total ==                   (* Mutant: the count of all shards. *)
    pool.ds + pool.ps - 1
NewIndex == IF adding = "data" THEN pool.ds - 1 ELSE pool.ps - 1

(* After it: a slot for each stripe there is, one that was made with the   *)
(* new shape included.                                                     *)
AddSlots ==
    LET new == {<<s, <<adding, NewIndex>>>> : s \in Stripes}
    IN  /\ adding # Nil
        /\ row' = [c \in Chunk |->
                    IF c \notin new THEN row[c]
                    ELSE IF row[c].st = "none" THEN [None EXCEPT !.st = "reserved"]
                    ELSE [row[c] EXCEPT !.st = "double"]]
        /\ adding' = Nil
        /\ UNCHANGED <<pool, disk, pend, run, rpend, rrun, task, file, want, wr, wk, counts>>
=============================================================================
