----------------------------- MODULE PoolParity ------------------------------
(***************************************************************************)
(* The parity worker (parity.go): one goroutine that claims every Pending  *)
(* parity task, loads the rows of those stripes, reads their data chunks,  *)
(* writes their parity files and commits the batch.                        *)
(***************************************************************************)
EXTENDS PoolState

unchangedByWorker == <<status, hash, gen, aged, ref, refHash, wq, file, wr, rel,
                       boot, crashes>>

(* claimStripeTasks: Running rows a crash or an error left behind become   *)
(* Pending, and the Pending rows become Running.  No other goroutine tells *)
(* the two statements apart, so they are one step here.                    *)
Claim ==
    /\ boot = "up" /\ kpc = "idle"
    /\ pend \cup run # {}
    /\ SlowDeletes \/ \A r \in Releasers : rel[r].parities = {}
    /\ kbatch' = pend \cup run
    /\ run'    = pend \cup run
    /\ pend'   = {}
    /\ kpc'    = "claimed"
    /\ UNCHANGED <<pstatus, phash, pfile, kpath, kgot, kjob, kput, unchangedByWorker>>

(* loadStripeMeta and buildStripeJobs: a snapshot of the rows of the       *)
(* batch.  Reserved slots are left out, a stripe without data is skipped.  *)
LoadMeta ==
    /\ kpc = "claimed"
    /\ kpath' = [c \in Slot |-> IF StripeOf(c) \in kbatch /\ status[c] = "allocated"
                                THEN PathOf(c) ELSE Nil]
    /\ kjob'  = {s \in kbatch : LiveStripe(s)}
    /\ kgot'  = [c \in Slot |-> Nil]
    /\ kput'  = [p \in Parity |-> "todo"]
    /\ kpc'   = "computing"
    /\ UNCHANGED <<pstatus, phash, pend, run, pfile, kbatch, unchangedByWorker>>

(* The batch is over: without a commit its rows stay Running.              *)
LeaveBatch ==
    /\ kpc' = "idle" /\ kbatch' = {} /\ kjob' = {}
    /\ kpath' = [c \in Slot |-> Nil]
    /\ kgot'  = [c \in Slot |-> Nil]
    /\ kput'  = [p \in Parity |-> "todo"]

ToRead(s) == {c \in SlotsOf(s) : kpath[c] # Nil}

(* computeStripe, step 2: the data files are read concurrently; a missing  *)
(* file or a read error gives up the whole stripe.                         *)
ReadShard(c) ==
    /\ kpc = "computing" /\ ParityOf(StripeOf(c)) # {}
    /\ StripeOf(c) \in kjob /\ kpath[c] # Nil /\ kgot[c] = Nil
    /\ \/ /\ file[kpath[c]] # Nil
          /\ kgot' = [kgot EXCEPT ![c] = file[kpath[c]]]
          /\ UNCHANGED kjob
       \/ /\ file[kpath[c]] = Nil \/ DiskFaults
          /\ kjob' = kjob \ {StripeOf(c)}
          /\ UNCHANGED kgot
    /\ UNCHANGED <<pstatus, phash, pend, run, pfile, kpc, kbatch, kpath, kput,
                   unchangedByWorker>>

(* The shards the encoder is given: a slot without data counts as zeros.   *)
Encoded(s) == [i \in Shard |-> kgot[<<s, i>>]]

(* computeStripe, step 5: once all data is read, each parity file is       *)
(* truncated and written; an error gives up the stripe.                    *)
WriteParity(p) ==
    LET s == StripeOf(p) IN
    /\ kpc = "computing" /\ s \in kjob
    /\ \A c \in ToRead(s) : kgot[c] # Nil
    /\ \/ /\ kput[p] = "todo"
          /\ pfile' = [pfile EXCEPT ![p] = Torn]
          /\ kput'  = [kput EXCEPT ![p] = "open"]
          /\ UNCHANGED kjob
       \/ /\ kput[p] = "open"
          /\ pfile' = [pfile EXCEPT ![p] = Encoded(s)]
          /\ kput'  = [kput EXCEPT ![p] = "done"]
          /\ UNCHANGED kjob
       \/ /\ DiskFaults /\ kput[p] # "done"
          /\ kjob' = kjob \ {s}
          /\ UNCHANGED <<pfile, kput>>
    /\ UNCHANGED <<pstatus, phash, pend, run, kpc, kbatch, kpath, kgot,
                   unchangedByWorker>>

(* Mutant: the commit deletes the tasks of its stripes whatever their      *)
(* status, those queued since the claim included.                          *)
CommitBatch_DropPending ==
    /\ kpc = "computing"
    /\ \A s \in kjob : \A p \in ParityOf(s) : kput[p] = "done"
    /\ pstatus' = [p \in Parity |-> IF StripeOf(p) \in kjob THEN "allocated" ELSE pstatus[p]]
    /\ phash'   = [p \in Parity |-> IF StripeOf(p) \in kjob THEN Encoded(StripeOf(p))
                                    ELSE phash[p]]
    /\ run' = {} /\ pend' = pend \ kbatch
    /\ LeaveBatch
    /\ UNCHANGED <<pfile, unchangedByWorker>>

(* calculateStripeParity, step 5, one transaction: the parity rows of the  *)
(* stripes that succeeded take the new hash, and every Running row goes,   *)
(* those of the stripes that failed included.                              *)
CommitBatch ==
    /\ kpc = "computing"
    /\ \A s \in kjob : \A p \in ParityOf(s) : kput[p] = "done"
    /\ pstatus' = [p \in Parity |-> IF StripeOf(p) \in kjob THEN "allocated" ELSE pstatus[p]]
    /\ phash'   = [p \in Parity |-> IF StripeOf(p) \in kjob THEN Encoded(StripeOf(p))
                                    ELSE phash[p]]
    /\ run' = {}
    /\ LeaveBatch
    /\ UNCHANGED <<pend, pfile, unchangedByWorker>>

(* Loading the rows or committing the batch fails: the worker comes back   *)
(* to the Running rows on its next round.                                  *)
AbandonBatch ==
    /\ DbFaults
    /\ \/ kpc = "claimed"
       \/ /\ kpc = "computing"
          /\ \A s \in kjob : \A p \in ParityOf(s) : kput[p] = "done"
    /\ LeaveBatch
    /\ UNCHANGED <<pstatus, phash, pend, run, pfile, unchangedByWorker>>

WorkerStep ==
    \/ Claim \/ LoadMeta \/ CommitBatch \/ AbandonBatch
    \/ \E c \in Slot : ReadShard(c)
    \/ \E p \in Parity : WriteParity(p)
=============================================================================
