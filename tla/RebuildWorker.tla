----------------------------- MODULE RebuildWorker -----------------------------
(***************************************************************************)
(* The background worker of the pool (StartParityWorker): on each tick it  *)
(* rebuilds the stripes that are queued (rebuild.go) and then computes the *)
(* parity of those that are (parity.go).                                   *)
(***************************************************************************)
EXTENDS PoolAdmin

At(pc)  == wk' = [wk EXCEPT !.pc = pc]
Leave   == wk' = NoBatch
BatchOf == {e[1] : e \in wk.ents}

(* What it finds at the place the rows it has loaded name.                 *)
Current(c) == wk.meta.loc[c] = Loc(c)
Found(c)   == IF Current(c) THEN file[c] ELSE Nil
Meta == [ds |-> pool.ds, ps |-> pool.ps, row |-> row, loc |-> [c \in Chunk |-> Loc(c)]]

(* buildStripeJobs: the written data chunks of the shape, all parity rows. *)
JobData(s)   == {c \in Chunk : StripeOf(c) = s /\ IsData(c) /\ Index(c) < wk.meta.ds
                               /\ wk.meta.row[c].st = "written"}
JobParity(s) == {c \in Chunk : StripeOf(c) = s /\ ~IsData(c) /\ wk.meta.row[c].st # "none"}
Refs(s) == JobData(s) \cup {c \in JobParity(s) : wk.meta.row[c].st = "written"}
-----------------------------------------------------------------------------
(* claimStripeTasks, rebuild.                                              *)
ClaimRebuild ==
    /\ wk.pc = "idle" /\ rpend \cup rrun # {}
    /\ rpend' = {} /\ rrun' = rpend \cup rrun
    /\ wk' = [wk EXCEPT !.pc = "load", !.ents = rpend \cup rrun]
    /\ UNCHANGED <<pool, disk, row, pend, run, task, file, want, wr, adding, counts>>

LoadMeta ==
    /\ wk.pc = "load"
    /\ wk' = [wk EXCEPT !.pc = "work", !.meta = Meta, !.todo = BatchOf]
    /\ UNCHANGED <<tables, file, want, wr, adding, counts>>

(* Reed-Solomon.  The decoder takes the first ds shards there are, data    *)
(* before parity.  They give back what was encoded if they belong to one   *)
(* encoding of this many data shards; else bytes that were never written.  *)
Decoded_Zero(data, parity, ds) ==   (* Mutant: an erased shard comes back as zeros. *)
    [i \in 0..(ds - 1) |-> IF i \in DOMAIN data THEN data[i] ELSE Zeros]
Decoded(data, parity, ds) ==
    LET short == ds - Cardinality(DOMAIN data)
        used  == {p \in DOMAIN parity : Cardinality({q \in DOMAIN parity : q < p}) < short}
        fits(v) == /\ \A p \in used : parity[p] = v
                   /\ DOMAIN v = 0..(ds - 1)
                   /\ \A i \in DOMAIN data : data[i] = v[i]
        shards == {parity[p] : p \in used}
    IN  [i \in 0..(ds - 1) |->
            IF i \in DOMAIN data THEN data[i]
            ELSE IF \E v \in shards : fits(v) THEN (CHOOSE v \in shards : fits(v))[i]
            ELSE Garbage]

Missing(s) == {c \in Refs(s) : Found(c) = Nil \/ Found(c) # wk.meta.row[c].hash}

(* rebuildStripeJob.  What is not read counts as erased, and so do the     *)
(* slots nobody has written.                                               *)
Shards(P) == [i \in {Index(c) : c \in P} |-> Found(CHOOSE c \in P : Index(c) = i)]
Fixed(s)  == {c \in DOMAIN wk.fix : StripeOf(c) = s}
RebuildRead(s) ==
    LET there == Refs(s) \ Missing(s)
        v == Decoded(Shards({c \in there : IsData(c)}), Shards({c \in there : ~IsData(c)}), wk.meta.ds)
    IN  /\ wk.pc = "work" /\ s \in wk.todo /\ Fixed(s) = {}
        /\ wk' = IF Missing(s) = {} \/ Cardinality(Missing(s)) > wk.meta.ps
                    \/ Cardinality(there) < wk.meta.ds
                 THEN [wk EXCEPT !.todo = @ \ {s}]
                 ELSE [wk EXCEPT !.fix = [c \in DOMAIN @ \cup Missing(s) |->
                        IF c \in DOMAIN @ THEN @[c] ELSE IF IsData(c) THEN v[Index(c)] ELSE v]]
        /\ UNCHANGED <<tables, file, want, wr, adding, counts>>

Stored_Data(P) ==                   (* Mutant: lost parity is not written. *)
    [c \in Chunk |-> IF c \in P /\ IsData(c) /\ Current(c) THEN wk.fix[c] ELSE file[c]]
Stored(P) == [c \in Chunk |-> IF c \in P /\ Current(c) THEN wk.fix[c] ELSE file[c]]
RebuildWrite(s) ==
    /\ wk.pc = "work" /\ s \in wk.todo /\ Fixed(s) # {}
    /\ file' = Stored(Fixed(s))
    /\ wk' = [wk EXCEPT !.todo = @ \ {s}]
    /\ UNCHANGED <<tables, want, wr, adding, counts>>

(* saveRebuiltChunks, and the commit of calculateStripeParity: hash and    *)
(* status, whatever the row says by now.                                   *)
Marked == [c \in Chunk |-> IF c \in DOMAIN wk.fix
                           THEN [row[c] EXCEPT !.st = "written", !.hash = wk.fix[c]] ELSE row[c]]
Save ==
    /\ wk.pc = "work" /\ wk.todo = {}
    /\ row' = Marked
    /\ wk' = [NoBatch EXCEPT !.pc = "drop", !.ents = wk.ents]
    /\ UNCHANGED <<pool, disk, pend, run, rpend, rrun, task, file, want, wr, adding, counts>>

DropEntries_Keeps ==                (* Mutant: the rows of the batch stay. *)
    wk.pc = "drop" /\ At("finish") /\ UNCHANGED <<tables, file, want, wr, adding, counts>>
DropEntries ==
    /\ wk.pc = "drop"
    /\ rrun' = {}
    /\ At("finish")
    /\ UNCHANGED <<pool, disk, row, pend, run, rpend, task, file, want, wr, adding, counts>>

(* finishRebuildTasks: the jobs whose last rows were in this batch.        *)
Jobs == {t \in {e[2] : e \in wk.ents} \ {0} : \A e \in rpend \cup rrun : e[2] # t}
CountLeft ==
    /\ wk.pc = "finish"
    /\ At(IF Jobs # {} THEN "verify" ELSE "parity")
    /\ UNCHANGED <<tables, file, want, wr, adding, counts>>

(* recoverAfterRebuild: a disk is whole if every written chunk on it is.   *)
DiskDataComplete_Data(d) ==         (* Mutant: only the data chunks are looked at. *)
    \A c \in Chunk : DiskOf(c) = d /\ IsData(c) => ~Lost(c)
DiskDataComplete(d) == \A c \in Chunk : DiskOf(c) = d => ~Lost(c)
InRepair == {d \in Disk : disk[d].st = "repair"}
VerifyDisks ==
    /\ wk.pc = "verify"
    /\ wk' = [wk EXCEPT !.pc = IF InRepair = {} THEN "job" ELSE "online",
                        !.good = {d \in InRepair : DiskDataComplete(d)}]
    /\ UNCHANGED <<tables, file, want, wr, adding, counts>>

DisksOnline ==
    /\ wk.pc = "online"
    /\ disk' = [d \in Disk |-> IF d \in wk.good \cap InRepair THEN [disk[d] EXCEPT !.st = "online"]
                               ELSE disk[d]]
    /\ At("pool")
    /\ UNCHANGED <<pool, row, pend, run, rpend, rrun, task, file, want, wr, adding, counts>>

CountBad ==
    /\ wk.pc = "pool"
    /\ At(IF InRepair = {} THEN "pool up" ELSE "job")
    /\ UNCHANGED <<tables, file, want, wr, adding, counts>>

PoolOnline ==
    /\ wk.pc = "pool up"
    /\ pool' = [pool EXCEPT !.status = "online"]
    /\ At("job")
    /\ UNCHANGED <<disk, row, pend, run, rpend, rrun, task, file, want, wr, adding, counts>>

EndJob ==
    /\ wk.pc = "job"
    /\ task' = [t \in Task |-> IF t \in Jobs THEN IF InRepair = {} THEN "success" ELSE "fail"
                               ELSE task[t]]
    /\ At("parity")
    /\ UNCHANGED <<pool, disk, row, pend, run, rpend, rrun, file, want, wr, adding, counts>>
-----------------------------------------------------------------------------
(* calculateStripeParity.                                                  *)
ClaimParity ==
    /\ wk.pc = "parity" \/ (wk.pc = "idle" /\ rpend \cup rrun = {} /\ pend \cup run # {})
    /\ IF pend \cup run = {} THEN Leave /\ UNCHANGED <<pend, run>>
       ELSE /\ run' = pend \cup run /\ pend' = {}
            /\ wk' = [NoBatch EXCEPT !.pc = "rows", !.todo = pend \cup run]
    /\ UNCHANGED <<pool, disk, row, rpend, rrun, task, file, want, wr, adding, counts>>

LoadRows ==
    /\ wk.pc = "rows"
    /\ wk' = [wk EXCEPT !.pc = "compute", !.meta = Meta]
    /\ UNCHANGED <<tables, file, want, wr, adding, counts>>

(* computeStripe: a stripe without data is skipped; one with a file that   *)
(* cannot be read, or with fewer parity rows than the pool has, is given   *)
(* up.                                                                     *)
Encoded(s) == [i \in 0..(wk.meta.ds - 1) |->
                LET C == {c \in JobData(s) : Index(c) = i}
                IN  IF C = {} THEN Zeros ELSE Found(CHOOSE c \in C : TRUE)]
Computable(s) == JobData(s) # {} /\ \A c \in JobData(s) : Found(c) # Nil
ShapeRows(s)  == {c \in JobParity(s) : Index(c) < wk.meta.ps}
ComputeParity ==
    LET shaped(s) == IF Computable(s) THEN ShapeRows(s) ELSE {}
        done == {s \in wk.todo : Computable(s) /\ Cardinality(ShapeRows(s)) = wk.meta.ps}
    IN  /\ wk.pc = "compute"
        /\ file' = [c \in Chunk |-> IF StripeOf(c) \in wk.todo /\ c \in shaped(StripeOf(c)) /\ Current(c)
                                    THEN Encoded(StripeOf(c)) ELSE file[c]]
        /\ wk' = [NoBatch EXCEPT !.pc = "commit",
                    !.fix = [c \in UNION {ShapeRows(s) : s \in done} |-> Encoded(StripeOf(c))]]
        /\ UNCHANGED <<tables, want, wr, adding, counts>>

(* One transaction: the parity rows, and every Running row of the queue.   *)
CommitParity ==
    /\ wk.pc = "commit"
    /\ row' = Marked
    /\ run' = {} /\ rrun' = {}
    /\ Leave
    /\ UNCHANGED <<pool, disk, pend, rpend, task, file, want, wr, adding, counts>>

WorkerStep ==
    \/ ClaimRebuild \/ LoadMeta \/ Save \/ DropEntries \/ CountLeft
    \/ \E s \in Stripe : RebuildRead(s) \/ RebuildWrite(s)
    \/ VerifyDisks \/ DisksOnline \/ CountBad \/ PoolOnline \/ EndJob
    \/ ClaimParity \/ LoadRows \/ ComputeParity \/ CommitParity
-----------------------------------------------------------------------------
(* One stripe of a rebuild fails, maybe after some of its files.           *)
RebuildFails(s) ==
    /\ faults < MaxFault
    /\ wk.pc = "work" /\ s \in wk.todo
    /\ \E P \in SUBSET Fixed(s) : file' = Stored(P)
    /\ wk' = [wk EXCEPT !.todo = @ \ {s}, !.fix = [c \in DOMAIN @ \ Fixed(s) |-> @[c]]]
    /\ faults' = faults + 1
    /\ UNCHANGED <<tables, want, wr, adding, writes, losses>>

(* A statement of the worker fails: it goes on with the next that does not *)
(* need its result, at the latest with the parity of the tick.             *)
StatementFails ==
    /\ faults < MaxFault
    /\ CASE wk.pc = "load" -> At("parity")
         [] wk.pc = "work" /\ wk.todo = {} ->
                wk' = [NoBatch EXCEPT !.pc = "drop", !.ents = wk.ents]
         [] wk.pc = "drop" -> At("finish")
         [] wk.pc \in {"finish", "job"} -> At("parity")
         [] wk.pc \in {"verify", "online", "pool", "pool up"} -> At("job")
         [] wk.pc \in {"rows", "commit"} -> Leave
         [] OTHER -> FALSE
    /\ faults' = faults + 1
    /\ UNCHANGED <<tables, file, want, wr, adding, writes, losses>>

(* The process ends and starts again.  What a request had stored and       *)
(* recorded is queued for parity by the startup cleanup.                   *)
Crash ==
    /\ faults < MaxFault
    /\ \E w \in SUBSET {w \in Writers : wr[w].pc = "stored"} :
            pend' = pend \cup {StripeOf(wr[v].slot) : v \in w}
    /\ wr' = [w \in Writers |-> Idle]
    /\ adding' = Nil
    /\ Leave
    /\ faults' = faults + 1
    /\ UNCHANGED <<pool, disk, row, run, rpend, rrun, task, file, want, writes, losses>>
=============================================================================
