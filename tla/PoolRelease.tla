---------------------------- MODULE PoolRelease ------------------------------
(***************************************************************************)
(* Releasing chunks (release.go, gc.go): purging a version in one          *)
(* transaction, or an orphan scan followed by one; the files that fell out *)
(* of use are deleted after the commit.                                    *)
(***************************************************************************)
EXTENDS PoolState

(* Mutant: the candidates are trusted.                                     *)
Unreferenced_All(C, refs) == C

(* filterUnreferenced: judged on the references the transaction leaves.    *)
Unreferenced(C, refs) == {c \in C : \A o \in Objects : refs[o] # c}

(* Mutant: a freed slot goes back to the path it had two writes ago.       *)
GenerateChunkPaths_Toggle(C) == gen' = [c \in Slot |-> IF c \in C THEN 1 - gen[c] ELSE gen[c]]

(* generateChunkPaths: a freed slot gets a path no chunk has had before.   *)
GenerateChunkPaths(C) ==
    gen' = [c \in Slot |-> IF c \in C THEN gen[c] + 1 ELSE gen[c]]

(* Mutant: an emptied stripe is left to the parity worker.                 *)
StaleParities_None(emptied) == {}

(* requeueParity: a stripe the release emptied loses its parity rows and   *)
(* files.  A parity row that is Reserved has no file to delete.            *)
StaleParities(emptied) ==
    {p \in Parity : StripeOf(p) \in emptied /\ pstatus[p] = "allocated"}

ResetParity(P) ==
    /\ pstatus' = [p \in Parity |-> IF p \in P THEN "reserved" ELSE pstatus[p]]
    /\ phash'   = [p \in Parity |-> IF p \in P THEN Nil ELSE phash[p]]

(* enqueueParityRecompute: the stripes that still have data get a task,    *)
(* unless one is Pending or Running already.                               *)
EnqueueRecompute(live) == pend' = pend \cup (live \ run)

(* ReleaseChunks(candidates): every written candidate that no row of       *)
(* version_chunks references becomes an empty slot under a new path, and   *)
(* the write queue rows of the candidates go.                              *)
ReleaseChunks(r, C, refs) ==
    LET free  == Unreferenced(C, refs)
        freed == {c \in free : status[c] = "allocated"}
        S     == {StripeOf(c) : c \in freed}
        live  == {s \in S : \E c \in SlotsOf(s) \ freed : status[c] = "allocated"}
    IN  /\ \A c \in freed : gen[c] < MaxGen
        /\ SlowBatches \/ kbatch \cap S = {}
        /\ status' = [c \in Slot |-> IF c \in freed THEN "reserved" ELSE status[c]]
        /\ hash'   = [c \in Slot |-> IF c \in freed THEN Nil ELSE hash[c]]
        /\ GenerateChunkPaths(freed)
        /\ wq'     = IF freed = {} THEN wq ELSE {q \in wq : q.chunk \notin free}
        /\ ResetParity(StaleParities(S \ live))
        /\ EnqueueRecompute(live)
        /\ rel'    = [rel EXCEPT ![r] = [pc |-> "deleting", cand |-> {},
                                        files |-> {PathOf(c) : c \in freed},
                                        parities |-> StaleParities(S \ live)]]
        /\ UNCHANGED <<aged, run, file, pfile, workerVars, wr, boot, crashes>>

(* SlowWriters = FALSE is the timing the grace period and the short        *)
(* windows of a request are meant to provide: a release never meets a      *)
(* chunk a request has taken or read and not yet referenced.               *)
Undisturbed(C) == SlowWriters \/ \A w \in Writers : \A c \in C : ~Holds(w, c)

(* purgeInode, trimVersions and PurgeShare: version_chunks rows go and     *)
(* their chunks are released, in one transaction.                          *)
Purge(r, O) ==
    LET C == {ref[o] : o \in O} IN
    /\ boot = "up" /\ rel[r].pc = "idle"
    /\ Nil \notin C /\ Undisturbed(C)
    /\ ref'     = [o \in Objects |-> IF o \in O THEN Nil ELSE ref[o]]
    /\ refHash' = [o \in Objects |-> IF o \in O THEN Nil ELSE refHash[o]]
    /\ ReleaseChunks(r, C, ref')

(* orphanQuery: written data chunks older than the grace period that have  *)
(* no reference and no write queue row.                                    *)
Orphans == {c \in Slot : /\ status[c] = "allocated"
                         /\ ~Referenced(c)
                         /\ StripeOf(c) \in aged
                         /\ QueueOf(c) = {}}

(* GarbageCollect: the candidates are selected outside the transaction ... *)
ScanOrphans(r) ==
    /\ boot = "up" /\ rel[r].pc = "idle"
    /\ Orphans # {} /\ Undisturbed(Orphans)
    /\ rel' = [rel EXCEPT ![r].pc = "scanned", ![r].cand = Orphans]
    /\ UNCHANGED <<dbVars, diskVars, wr, workerVars, boot, crashes>>

(* ... that releases those still unreferenced.                             *)
CollectOrphans(r) ==
    /\ rel[r].pc = "scanned"
    /\ Undisturbed(rel[r].cand)
    /\ ReleaseChunks(r, rel[r].cand, ref)
    /\ UNCHANGED <<ref, refHash>>

(* DeleteStaleFiles: after the commit, one file at a time; a file that     *)
(* cannot be deleted stays as garbage.                                     *)
DeleteFile(r) ==
    /\ rel[r].pc = "deleting"
    /\ \E f \in rel[r].files :
        /\ \/ file' = [file EXCEPT ![f] = Nil]
           \/ DiskFaults /\ UNCHANGED file
        /\ rel' = [rel EXCEPT ![r].files = @ \ {f}]
    /\ UNCHANGED <<dbVars, pfile, wr, workerVars, boot, crashes>>

DeleteParityFile(r) ==
    /\ rel[r].pc = "deleting"
    /\ \E p \in rel[r].parities :
        /\ \/ pfile' = [pfile EXCEPT ![p] = Nil]
           \/ DiskFaults /\ UNCHANGED pfile
        /\ rel' = [rel EXCEPT ![r].parities = @ \ {p}]
    /\ UNCHANGED <<dbVars, file, wr, workerVars, boot, crashes>>

EndRelease(r) ==
    /\ rel[r].pc = "deleting" /\ rel[r].files = {} /\ rel[r].parities = {}
    /\ rel' = [rel EXCEPT ![r] = IdleReleaser]
    /\ UNCHANGED <<dbVars, diskVars, wr, workerVars, boot, crashes>>

ReleaserStep(r) ==
    \/ CollectOrphans(r) \/ DeleteFile(r) \/ DeleteParityFile(r) \/ EndRelease(r)
=============================================================================
