-------------------------------- MODULE Pool ---------------------------------
(***************************************************************************)
(* One storage pool: request goroutines (PoolWrite), the parity worker     *)
(* (PoolParity), purges and the orphan collector (PoolRelease), process    *)
(* crashes and the startup cleanup.                                        *)
(***************************************************************************)
EXTENDS PoolWrite, PoolParity, PoolRelease

(* The rows of a stripe become older than the grace period.  A request     *)
(* that created the stripe is over by then.                                *)
Age(s) ==
    /\ s \notin aged
    /\ \E c \in SlotsOf(s) : status[c] # "none"
    /\ \A w \in Writers : ~(InFlight(w) /\ wr[w].fresh /\ StripeOf(wr[w].slot) = s)
    /\ aged' = aged \cup {s}
    /\ UNCHANGED <<status, hash, gen, pstatus, phash, ref, refHash, wq, pend, run,
                   diskVars, wr, workerVars, rel, boot, crashes>>

(* The process stops: tables and files stay, the goroutines are gone.      *)
Crash ==
    /\ crashes < MaxCrash
    /\ crashes' = crashes + 1
    /\ boot' = "flush"
    /\ wr'   = [w \in Writers |-> IdleWriter]
    /\ rel'  = [r \in Releasers |-> IdleReleaser]
    /\ LeaveBatch
    /\ UNCHANGED <<dbVars, diskVars>>

(* CleanupWriteQueueOnStartup, before any goroutine starts: Flush(nil),    *)
(* then every row left in write_queues is deleted.                         *)
FlushAll ==
    /\ boot = "flush" /\ boot' = "clean"
    /\ Flush(Slot)
    /\ UNCHANGED <<status, gen, aged, pstatus, phash, ref, refHash, run, diskVars, wr,
                   workerVars, rel, crashes>>

(* Mutant: the leftover rows survive the startup.                          *)
DropQueue_KeepRows ==
    /\ boot = "clean" /\ boot' = "up"
    /\ UNCHANGED <<dbVars, diskVars, wr, workerVars, rel, crashes>>

DropQueue ==
    /\ boot = "clean" /\ boot' = "up"
    /\ wq' = {}
    /\ UNCHANGED <<status, hash, gen, aged, pstatus, phash, ref, refHash, pend, run,
                   diskVars, wr, workerVars, rel, crashes>>

Startup == FlushAll \/ DropQueue

Next ==
    \/ \E w \in Writers : Allocate(w) \/ LoadForOverwrite(w) \/ ReadSnapshot(w) \/ WriterStep(w)
    \/ WorkerStep
    \/ \E r \in Purgers : \E O \in (SUBSET Objects) \ {{}} : Purge(r, O)
    \/ \E r \in Collectors : ScanOrphans(r)
    \/ \E r \in Releasers : ReleaserStep(r)
    \/ \E s \in Stripe : Age(s)
    \/ Crash \/ Startup

Spec == Init /\ [][Next]_vars

(* Requests that began run to completion, the worker's ticker keeps        *)
(* firing, a release goes on to delete its files, startup completes, time  *)
(* passes and the collector runs again; requests need not come.            *)
Fairness ==
    /\ \A w \in Writers : WF_vars(WriterStep(w))
    /\ WF_vars(WorkerStep)
    /\ \A r \in Releasers : WF_vars(ReleaserStep(r))
    /\ \A r \in Collectors : WF_vars(ScanOrphans(r))
    /\ \A s \in Stripe : WF_vars(Age(s))
    /\ WF_vars(Startup)

FairSpec == Spec /\ Fairness
-----------------------------------------------------------------------------
(* A version_chunks row names a written chunk whose row and whose file     *)
(* hold exactly the content the row was made for: nothing a release, a     *)
(* collection, a failed write, a crash or the startup cleanup does on      *)
(* other slots, or did earlier on this one, reaches a referenced slice.    *)
RefsReadable ==
    \A o \in Objects : ref[o] # Nil =>
        /\ status[ref[o]] = "allocated"
        /\ hash[ref[o]] = refHash[o]
        /\ file[PathOf(ref[o])] = refHash[o]

(* An AddChunks under way is the only one to own its slot, and nobody      *)
(* references the slot yet.                                                *)
Storing(w) == InFlight(w) /\ wr[w].pc \notin {"snapshot", "loaded"} /\ wr[w].obj # Nil
ExclusiveSlots ==
    \A w \in Writers : Storing(w) =>
        /\ ~Referenced(wr[w].slot)
        /\ \A u \in Writers \ {w} : ~Holds(u, wr[w].slot)

(* A data file waiting to be deleted is no chunk's current path, whatever  *)
(* has been written since: DeleteStaleFiles may be late.                   *)
StaleNeverCurrent ==
    \A r \in Releasers : \A f \in rel[r].files : f # PathOf(f[1])

(* Nothing that concerns the stripe is under way or queued.                *)
Quiescent(s) ==
    /\ boot = "up"
    /\ s \notin pend \cup run
    /\ \A c \in SlotsOf(s) : QueueOf(c) = {}
    /\ \A w \in Writers : InFlight(w) => StripeOf(wr[w].slot) # s
    /\ \A r \in Releasers : rel[r].pc # "deleting"

(* The data shards a rebuild would feed to the decoder.                    *)
Shards(s) == [i \in Shard |-> IF status[<<s, i>>] = "allocated"
                              THEN file[PathOf(<<s, i>>)] ELSE Nil]

Protected(s) ==
    \A p \in ParityOf(s) :
        IF LiveStripe(s)
        THEN pstatus[p] = "allocated" /\ phash[p] = Shards(s) /\ pfile[p] = Shards(s)
        ELSE pstatus[p] # "allocated"

(* Once nothing is queued for a stripe its parity encodes exactly the data *)
(* that is there: no write and no release loses its recompute.             *)
QuiescentParity == \A s \in Stripe : Quiescent(s) => Protected(s)

(* After a release has run its course nothing of the purged data is left   *)
(* on the disks: no file under a former path, no parity of an empty stripe.*)
PurgedDataErased ==
    \A s \in Stripe : Quiescent(s) =>
        /\ \A c \in SlotsOf(s) : \A g \in 0..MaxGen : g < gen[c] => file[<<c, g>>] = Nil
        /\ ~LiveStripe(s) => \A p \in ParityOf(s) : pfile[p] = Nil

(* What reading a slice back yields; a lost file is not a purged entry.    *)
ReadBack(c) == IF file[PathOf(c)] = Nil THEN Torn ELSE file[PathOf(c)]

(* The pool implements the map its callers see.                            *)
Content == [o \in Objects |-> IF ref[o] = Nil THEN Nil ELSE ReadBack(ref[o])]
Store == INSTANCE ObjectStore WITH content <- Content
ImplementsObjectStore == Store!Spec

(* The parity of every stripe is brought up to date again and again.       *)
AlwaysProtectedAgain == \A s \in Stripe : []<>Protected(s)

(* Leaked chunks, of failed or crashed requests, are found and released.   *)
Leaked(c) == status[c] = "allocated" /\ ~Referenced(c)
LeaksReclaimed == \A c \in Slot : Leaked(c) ~> ~Leaked(c)
=============================================================================
