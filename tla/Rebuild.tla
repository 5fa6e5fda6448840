-------------------------------- MODULE Rebuild --------------------------------
(***************************************************************************)
(* Requests, losses, crashes and the worker together, the races that are   *)
(* left out, and the properties.                                           *)
(***************************************************************************)
EXTENDS RebuildWorker

Request ==
    \/ \E w \in Writers :
        \/ CheckPool(w) \/ StoreSlice(w) \/ FlushSlice(w)
        \/ \E c \in Chunk : Reuse(w, c)
        \/ \E s \in Stripe : NewStripe(w, s)
    \/ \E c \in Chunk : Release(c) \/ ReadFails(c)
    \/ \E d \in Disk : SwapDisk(d)
    \/ OfflinePool
    \/ \E t \in Task : RebuildPool(t)
    \/ \E k \in {"data", "parity"} : AddDisk(k)
    \/ AddSlots

(* What the worker and the writers are at.                                 *)
Filling(w, s)  == wr[w].slot # Nil /\ StripeOf(wr[w].slot) = s
Rebuilding(s)  == wk.pc \in {"load", "work"} /\ s \in BatchOf
Encoding(s)    == wk.pc \in {"rows", "compute", "commit"} /\ s \in run
Queued(s)      == \E e \in rpend \cup rrun : e[1] = s
LostIn(s)      == {c \in Slots(s) : Written(c) /\ file[c] = Nil /\ \A w \in Writers : wr[w].slot # c}
StaleParity(s) == s \in pend \cup run \/ \E w \in Writers : Filling(w, s)
OldShape(s)    == \E p \in Slots(s) : ~IsData(p) /\ Written(p) /\ DOMAIN row[p].hash # 0..(pool.ds - 1)
(* The shape of the stripes there are, for which AddSlots is still to come. *)
Fits(w)        == /\ wr[w].ds = pool.ds - (IF adding = "data" THEN 1 ELSE 0)
                  /\ wr[w].ps = pool.ps - (IF adding = "parity" THEN 1 ELSE 0)
Finishing      == wk.pc \in {"finish", "verify", "online", "pool", "pool up", "job"}

(* The races and faults, one class each:                                   *)
(*   stale    a shard is lost while the parity of its stripe is out of     *)
(*            date: a write or a release has queued it, or runs;           *)
(*   shape    a stripe that lost a shard is rebuilt although its parity    *)
(*            was computed for fewer data shards than the pool has by now; *)
(*   inflight a stripe is queued for rebuild while a request fills it;     *)
(*   release  a chunk is released while its stripe is being rebuilt or its *)
(*            parity computed;                                             *)
(*   again    a disk is swapped or a file lost between the load of a batch *)
(*            and its shards, or while a job is finishing;                 *)
(*   grow     a disk is added while a request or the worker runs;          *)
(*   split    while disks are added, a stripe is made with another shape   *)
(*            than the stripes there are, or the process ends between the  *)
(*            halves of AddDisk;                                           *)
(*   torn     the process ends while a request fills a slot;               *)
(*   job      a crash or a failing statement while a job is finishing, or  *)
(*            a parity batch of the tick that could not load its rebuild.  *)
Allowed ==
    /\ \A s \in Stripe :
        /\ "stale" \in Overlaps \/ ~(StaleParity(s) /\ LostIn(s) # {})
        /\ "shape" \in Overlaps \/ ~(OldShape(s) /\ Queued(s) /\ LostIn(s) # {})
        /\ "inflight" \in Overlaps \/
                ~(Queued(s) /\ \E w \in Writers : Filling(w, s))
    /\ "grow" \in Overlaps \/
            (adding # Nil => wk.pc = "idle" /\ \A w \in Writers : wr[w].pc = "idle")
    /\ "job" \in Overlaps \/ ~((Finishing \/ wk.pc = "parity") /\ rrun # {} /\ pend \cup run # {})

AllowedStep ==
    /\ "stale" \in Overlaps \/ losses' = losses \/
            \A s \in Stripe : StaleParity(s) => \A c \in Slots(s) :
                                file'[c] = file[c] /\ disk'[DiskOf(c)] = disk[DiskOf(c)]
    /\ "release" \in Overlaps \/
            ~\E c \in Chunk : /\ row[c].gen # row'[c].gen
                              /\ Rebuilding(StripeOf(c)) \/ Encoding(StripeOf(c))
    /\ "split" \in Overlaps \/ \A w \in Writers, s \in Stripe : NewStripe(w, s) => Fits(w)
    /\ "again" \in Overlaps \/ ~(losses' # losses /\ (Finishing \/ wk.pc = "work"))
    /\ faults' # faults =>
        /\ "torn" \in Overlaps \/ \A w \in Writers : wr[w].slot # Nil => wr'[w] = wr[w]
        /\ {"grow", "split"} \subseteq Overlaps \/ adding' = adding
        /\ "job" \in Overlaps \/ ~Finishing

Next ==
    /\ \/ Request \/ WorkerStep \/ StatementFails \/ Crash
       \/ \E s \in Stripe : RebuildFails(s)
       \/ \E c \in Chunk : LoseFile(c)
    /\ Allowed' /\ AllowedStep

(* The worker goroutine goes on, unless it waits for the AddDisk under way, *)
(* which then goes on itself.                                              *)
Spec == Init /\ [][Next]_vars /\ WF_vars((WorkerStep \/ AddSlots) /\ Allowed' /\ AllowedStep)
-----------------------------------------------------------------------------
(* Properties.                                                             *)

(* Whatever is lost and rebuilt, in whatever order: a chunk that a version *)
(* refers to keeps the hash the version expects, and its file holds the    *)
(* slice or nothing, never something the decoder made up.                  *)
RebuildKeepsData ==
    \A c \in Chunk : want[c] # Nil =>
        Written(c) /\ row[c].hash = want[c] /\ file[c] \in {want[c], Nil}

(* A pool never serves while a disk of it is being repaired.               *)
PoolServesWhole ==
    pool.status = "online" => \A d \in Disk : disk[d].st # "repair"

(* Every stripe has one slot for each shard of the pool, whenever disks    *)
(* were added: while a request that read the old shape takes a slot, or a  *)
(* worker that read it marks the rows of its batch.                        *)
StripeShape ==
    adding = Nil => \A s \in Stripes :
        Slots(s) = {c \in Chunk : StripeOf(c) = s /\ row[c].st \in {"reserved", "written"}
                                  /\ Index(c) < (IF IsData(c) THEN pool.ds ELSE pool.ps)}
        /\ Cardinality(Slots(s)) = pool.ds + pool.ps

(* A disk leaves repair only with everything that was written to it, but   *)
(* for the slots a request is just filling.                                *)
RepairedDiskComplete ==
    [][\A d \in Disk : disk[d].st = "repair" /\ disk'[d].st = "online" =>
            \A c \in Chunk : DiskOf(c) = d /\ Lost(c)' => \E w \in Writers : wr[w].slot = c]_vars

(* A stripe whose slots are all written and whose parity is up to date     *)
(* comes back whole, data and parity, when no more of its shards are lost  *)
(* than the pool has parity shards.  Between the halves of AddDisk a       *)
(* stripe has slots missing and nothing is claimed of it.                  *)
Whole(s)   == adding = Nil /\ ~StaleParity(s) /\ \A c \in Slots(s) : Written(c)
Intact(s)  == [i \in 0..(pool.ds - 1) |-> row[<<s, <<"data", i>>>>].hash]
Recovers(s) == Cardinality({c \in Slots(s) : Lost(c)}) <= pool.ps =>
                    \A c \in Slots(s) : file'[c] = IF IsData(c) THEN row[c].hash ELSE Intact(s)
RebuildRecovers ==
    [][wk.pc = "work" /\ wk'.pc = "work" /\ faults' = faults =>
            \A s \in wk.todo \ wk'.todo : Whole(s) => Recovers(s)]_vars

(* The same of every stripe with parity, a partly filled one included.     *)
AnyLossRecovers ==
    [][wk.pc = "work" /\ wk'.pc = "work" /\ faults' = faults =>
            \A s \in wk.todo \ wk'.todo :
                ~StaleParity(s) /\ Cardinality({c \in Slots(s) : Lost(c)}) <= pool.ps
                => \A c \in Slots(s) : Written(c) => file'[c] = row[c].hash]_vars

(* Every job ends, so that the next one may be asked for.                  *)
JobEnds == \A t \in Task : task[t] = "pending" ~> task[t] \in {"success", "fail"}
=============================================================================
