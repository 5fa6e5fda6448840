------------------------------ MODULE PoolWrite ------------------------------
(***************************************************************************)
(* The write path of the pool (chunk.go): a request goroutine stores one   *)
(* slice, AddChunks of one item followed by the version_chunks upsert of   *)
(* its caller (vfs putSlice), or overwrites a chunk in place, WriteChunks. *)
(* The only callers pass one item at a time.                               *)
(*                                                                         *)
(*   allocate -> intent row -> open file -> complete file -> result row    *)
(*            -> Flush -> version_chunks row                               *)
(***************************************************************************)
EXTENDS PoolState

unchangedByWriters == <<gen, workerVars, rel, boot, crashes, pfile>>

Advance(w, pc) == wr' = [wr EXCEPT ![w].pc = pc]

(* Mutant: the reuse query forgets the Reserved filter.                    *)
Reuse_AnySlot(w, c, o, v) ==
    /\ status[c] # "none" /\ gen[c] < MaxGen
    /\ status' = [status EXCEPT ![c] = "allocated"]
    /\ hash'   = [hash EXCEPT ![c] = v]
    /\ wr'     = [wr EXCEPT ![w] = [pc |-> "allocated", slot |-> c, path |-> PathOf(c),
                                    val |-> v, obj |-> o, ok |-> TRUE, fresh |-> FALSE]]
    /\ UNCHANGED <<pstatus, aged>>

(* getNewChunks, phases 1 and 3: take a Reserved data slot of the pool and *)
(* fill in status, size and hash; its path and created_at stay.  A slot on *)
(* its last path, the bound MaxGen, is not used again.                     *)
Reuse(w, c, o, v) ==
    /\ status[c] = "reserved" /\ gen[c] < MaxGen
    /\ status' = [status EXCEPT ![c] = "allocated"]
    /\ hash'   = [hash EXCEPT ![c] = v]
    /\ wr'     = [wr EXCEPT ![w] = [pc |-> "allocated", slot |-> c, path |-> PathOf(c),
                                    val |-> v, obj |-> o, ok |-> TRUE, fresh |-> FALSE]]
    /\ UNCHANGED <<pstatus, aged>>

(* Mutant: the new stripe numbers its data shards from one.                *)
NewStripe_IndexFromOne(w, s, o, v) ==
    /\ \A c \in Slot : status[c] # "reserved"
    /\ \A t \in Stripe : status[<<t, 0>>] = "none" <=> t >= s
    /\ wr' = [wr EXCEPT ![w] = [pc |-> "allocated", slot |-> <<s, DS>>,
                                path |-> <<<<s, DS>>, 0>>, val |-> v, obj |-> o,
                                ok |-> TRUE, fresh |-> TRUE]]
    /\ UNCHANGED <<status, pstatus, hash, aged>>

(* getNewChunks, phase 2: without a Reserved slot a stripe is created; the *)
(* write takes shard 0, the other rows are Reserved, every path is new.    *)
NewStripe(w, s, o, v) ==
    /\ \A c \in Slot : status[c] # "reserved"
    /\ \A t \in Stripe : status[<<t, 0>>] = "none" <=> t >= s
    /\ status'  = [c \in Slot |-> IF StripeOf(c) # s THEN status[c]
                                  ELSE IF c[2] = 0 THEN "allocated" ELSE "reserved"]
    /\ pstatus' = [p \in Parity |-> IF StripeOf(p) = s THEN "reserved" ELSE pstatus[p]]
    /\ hash'    = [hash EXCEPT ![<<s, 0>>] = v]
    /\ wr'      = [wr EXCEPT ![w] = [pc |-> "allocated", slot |-> <<s, 0>>,
                                     path |-> PathOf(<<s, 0>>), val |-> v, obj |-> o,
                                     ok |-> TRUE, fresh |-> TRUE]]
    /\ UNCHANGED aged

(* AddChunks steps 1 and 2.  A version is written through one handle, so   *)
(* no two goroutines write the same version_chunks key at a time.          *)
Allocate(w) ==
    /\ boot = "up" /\ wr[w].pc = "idle"
    /\ \E o \in Objects, v \in Data :
        /\ \A u \in Writers : wr[u].obj # o
        /\ \/ \E c \in Slot : Reuse(w, c, o, v)
           \/ \E s \in Stripe : NewStripe(w, s, o, v)
    /\ UNCHANGED <<phash, ref, refHash, wq, pend, run, file, unchangedByWriters>>

(* WriteChunks reads the row of the chunk, its path included, and later    *)
(* upserts status, size and hash in a statement of its own.                *)
LoadForOverwrite(w) ==
    /\ Overwriting
    /\ boot = "up" /\ wr[w].pc = "idle"
    /\ \E c \in Slot, v \in Data :
        /\ status[c] # "none"
        /\ wr' = [wr EXCEPT ![w] = [pc |-> "loaded", slot |-> c, path |-> PathOf(c),
                                    val |-> v, obj |-> Nil, ok |-> TRUE, fresh |-> FALSE]]
    /\ UNCHANGED <<dbVars, file, workerVars, rel, boot, crashes, pfile>>

UpdateMetadata(w) ==
    /\ wr[w].pc = "loaded"
    /\ status' = [status EXCEPT ![wr[w].slot] = "allocated"]
    /\ hash'   = [hash EXCEPT ![wr[w].slot] = wr[w].val]
    /\ Advance(w, "allocated")
    /\ UNCHANGED <<aged, pstatus, phash, ref, refHash, wq, pend, run, file,
                   unchangedByWriters>>

(* One INSERT into write_queues: the id is larger than every id in use.    *)
Enqueue(c, mark) ==
    \E n \in QueueId :
        /\ \A r \in QueueOf(c) : r.id < n
        /\ n = 1 \/ \E r \in QueueOf(c) : r.id = n - 1
        /\ wq' = wq \cup {[chunk |-> c, id |-> n, mark |-> mark]}

(* persistChunkData step 3: enqueueWriteIntents.                           *)
Intend(w) ==
    /\ wr[w].pc = "allocated"
    /\ Enqueue(wr[w].slot, "pending")
    /\ Advance(w, "intended")
    /\ UNCHANGED <<status, hash, aged, pstatus, phash, ref, refHash, pend, run, file,
                   unchangedByWriters>>

(* persistChunkData step 4, writeChunkFiles: os.WriteFile truncates or     *)
(* creates the file under the path read from the row, then fills it.       *)
OpenFile(w) ==
    /\ wr[w].pc = "intended"
    /\ file' = [file EXCEPT ![wr[w].path] = Torn]
    /\ Advance(w, "opened")
    /\ UNCHANGED <<status, hash, aged, pstatus, phash, ref, refHash, wq, pend, run,
                   unchangedByWriters>>

CompleteFile(w) ==
    /\ wr[w].pc = "opened"
    /\ file' = [file EXCEPT ![wr[w].path] = wr[w].val]
    /\ Advance(w, "written")
    /\ UNCHANGED <<status, hash, aged, pstatus, phash, ref, refHash, wq, pend, run,
                   unchangedByWriters>>

FailFile(w) ==
    /\ DiskFaults
    /\ wr[w].pc \in {"intended", "opened"}
    /\ wr' = [wr EXCEPT ![w].pc = "written", ![w].ok = FALSE]
    /\ UNCHANGED <<dbVars, file, workerVars, rel, boot, crashes, pfile>>

(* persistChunkData step 5: enqueueWriteResults.                           *)
Record(w) ==
    /\ wr[w].pc = "written"
    /\ Enqueue(wr[w].slot, IF wr[w].ok THEN "success" ELSE "fail")
    /\ Advance(w, "recorded")
    /\ UNCHANGED <<status, hash, aged, pstatus, phash, ref, refHash, pend, run, file,
                   unchangedByWriters>>

(* The pairs Flush settles: a Pending row and the result row next to it in *)
(* id order, of the same chunk.                                            *)
DonePairs(C) ==
    {pr \in wq \X wq :
        /\ pr[1].chunk \in C /\ pr[2].chunk = pr[1].chunk
        /\ pr[1].id < pr[2].id
        /\ pr[1].mark = "pending" /\ pr[2].mark # "pending"
        /\ \A r \in QueueOf(pr[1].chunk) : ~(pr[1].id < r.id /\ r.id < pr[2].id)}

(* Mutant: Flush leaves out stripes that already have a Running task.      *)
Flush_SkipRunning(C) ==
    LET done == DonePairs(C) IN
    /\ wq'   = wq \ UNION {{pr[1], pr[2]} : pr \in done}
    /\ pend' = pend \cup ({StripeOf(pr[1].chunk) : pr \in done} \ run)
    /\ UNCHANGED hash

(* Flush(chunkIds): settled pairs leave the write queue, their stripes     *)
(* enter the stripe queue, and the hash of a failed write is recomputed    *)
(* from what the disk holds (recalcChunksFromDisk), when it can be read.   *)
Flush(C) ==
    LET done   == DonePairs(C)
        failed == {pr[2].chunk : pr \in {q \in done : q[2].mark = "fail"}}
    IN  \E unread \in SUBSET failed :
        /\ unread # {} => DiskFaults
        /\ wq'   = wq \ UNION {{pr[1], pr[2]} : pr \in done}
        /\ pend' = pend \cup {StripeOf(pr[1].chunk) : pr \in done}
        /\ hash' = [c \in Slot |->
                        IF c \in failed \ unread /\ file[PathOf(c)] # Nil
                        THEN file[PathOf(c)] ELSE hash[c]]

(* Mutant: the write error is lost, the slice is referenced regardless.    *)
FlushOwn_IgnoreError(w) ==
    /\ wr[w].pc = "recorded"
    /\ Flush({wr[w].slot})
    /\ IF wr[w].obj # Nil THEN Advance(w, "flushed")
                           ELSE wr' = [wr EXCEPT ![w] = IdleWriter]
    /\ UNCHANGED <<status, aged, pstatus, phash, ref, refHash, run, file,
                   unchangedByWriters>>

(* persistChunkData step 6.  A failed write returns its error here, a      *)
(* stored slice goes on to its version_chunks row.                         *)
FlushOwn(w) ==
    /\ wr[w].pc = "recorded"
    /\ Flush({wr[w].slot})
    /\ IF wr[w].ok /\ wr[w].obj # Nil
       THEN Advance(w, "flushed")
       ELSE wr' = [wr EXCEPT ![w] = IdleWriter]
    /\ UNCHANGED <<status, aged, pstatus, phash, ref, refHash, run, file,
                   unchangedByWriters>>

(* putSlice: upsert the version_chunks row on (version_id, idx).           *)
PutRef(w) ==
    /\ wr[w].pc = "flushed"
    /\ ref'     = [ref EXCEPT ![wr[w].obj] = wr[w].slot]
    /\ refHash' = [refHash EXCEPT ![wr[w].obj] = wr[w].val]
    /\ wr'      = [wr EXCEPT ![w] = IdleWriter]
    /\ UNCHANGED <<status, hash, aged, pstatus, phash, wq, pend, run, file,
                   unchangedByWriters>>

(* A handle opened for writing (vfs Open, loadSnapshot) reads the rows of  *)
(* the current version; beginWrite inserts them for the new version in a   *)
(* later statement: both versions then share the chunk.                    *)
ReadSnapshot(w) ==
    /\ boot = "up" /\ wr[w].pc = "idle"
    /\ \E o \in Objects, q \in Objects :
        /\ ref[o] # Nil /\ ref[q] = Nil
        /\ \A u \in Writers : wr[u].obj # q
        /\ wr' = [wr EXCEPT ![w] = [pc |-> "snapshot", slot |-> ref[o], path |-> Nil,
                                    val |-> refHash[o], obj |-> q, ok |-> TRUE,
                                    fresh |-> FALSE]]
    /\ UNCHANGED <<dbVars, file, workerVars, rel, boot, crashes, pfile>>

Inherit(w) ==
    /\ wr[w].pc = "snapshot"
    /\ ref'     = [ref EXCEPT ![wr[w].obj] = wr[w].slot]
    /\ refHash' = [refHash EXCEPT ![wr[w].obj] = wr[w].val]
    /\ wr'      = [wr EXCEPT ![w] = IdleWriter]
    /\ UNCHANGED <<status, hash, aged, pstatus, phash, wq, pend, run, file,
                   unchangedByWriters>>

(* A failing statement ends the request; what it did so far stays.         *)
FailStatement(w) ==
    /\ DbFaults
    /\ wr[w].pc \in {"snapshot", "loaded", "allocated", "written", "recorded", "flushed"}
    /\ wr' = [wr EXCEPT ![w] = IdleWriter]
    /\ UNCHANGED <<dbVars, file, workerVars, rel, boot, crashes, pfile>>

WriterStep(w) ==
    \/ UpdateMetadata(w) \/ Intend(w)
    \/ OpenFile(w) \/ CompleteFile(w) \/ FailFile(w)
    \/ Record(w) \/ FlushOwn(w) \/ PutRef(w) \/ Inherit(w) \/ FailStatement(w)
=============================================================================
