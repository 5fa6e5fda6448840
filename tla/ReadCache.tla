------------------------------- MODULE ReadCache -------------------------------
(***************************************************************************)
(* Copies of much read chunks on the cache disks (cache.go): readers count *)
(* their accesses and make the copies, writers and releases drop them, the *)
(* cleaner evicts the cold ones, and cache disks are added and deleted.    *)
(* A statement or a file operation is one step; the chunk is one file.     *)
(* Statements of the cache do not fail here: the code logs their errors,   *)
(* and a failing one would leave a copy no row names.                      *)
(***************************************************************************)
EXTENDS Naturals, FiniteSets, FiniteSetsExt

CONSTANTS
    Readers, Chunks, Disks,     \* Chunks and Disks are sets of numbers
    Values, Nil,
    Threshold,                  \* cachePromoteThreshold
    MaxRow, MaxPath, MaxWrite,  \* bounds: rows and copies ever made, writes and releases
    Overlaps                    \* the races that may happen, see Allowed

ASSUME CacheAssumption ==
    /\ Chunks \subseteq Nat /\ Disks \subseteq Nat /\ IsFiniteSet(Disks)
    /\ Threshold \in Nat /\ MaxRow \in Nat /\ MaxPath \in Nat /\ MaxWrite \in Nat

VARIABLES
    cdisk,          \* the cache disks that are there
    src, gen,       \* the file of the chunk; how often its slot was released
    cache,          \* read_caches: the row of the chunk, or Nil
    copy,           \* cache files by path: content and disk
    junk,           \* paths deleteCacheFiles or DeleteStaleFiles will delete
    rd, wr,         \* the readers; the WriteChunks under way, one at a time
    cold, gone,     \* what the cleaner and DeleteCacheDisk have read
    rows, writes    \* rows and writes so far

vars == <<cdisk, src, gen, cache, copy, junk, rd, wr, cold, gone, rows, writes>>

Path   == 1..MaxPath
NoWr   == [pc |-> "idle", chunk |-> 0, files |-> {}]
NoGone == [pc |-> "idle", disk |-> 0, files |-> {}]
NoRead == [pc |-> "idle", chunk |-> 0, gen |-> 0, disks |-> {}, entry |-> Nil,
           data |-> Nil, disk |-> 0, path |-> 0, sure |-> FALSE]
Row    == [id : 1..MaxRow, disk : Disks, path : 0..MaxPath, count : 1..(Threshold + 1),
           cached : BOOLEAN]
Copy   == [data : Values, disk : Disks]

ASSUME SentinelAssumption == Nil \notin Values \cup Row \cup Copy

Writing(c) == wr.pc # "idle" /\ wr.chunk = c
Hit(e)     == e # Nil /\ e.cached
Hot(e)     == e # Nil /\ ~e.cached /\ e.count > Threshold
FileOf(e)  == IF Hit(e) THEN {e.path} ELSE {}

Init ==
    /\ cdisk = Disks
    /\ src \in [Chunks -> Values] /\ gen = [c \in Chunks |-> 0]
    /\ cache = [c \in Chunks |-> Nil]
    /\ copy = [p \in Path |-> Nil] /\ junk = {}
    /\ rd = [r \in Readers |-> NoRead]
    /\ wr = NoWr /\ cold = Nil /\ gone = NoGone
    /\ rows = 0 /\ writes = 0
-----------------------------------------------------------------------------
(* ReadChunks.                                                             *)
Reader(r, x) == rd' = [rd EXCEPT ![r] = x]
OnlyReaders  == UNCHANGED <<cdisk, src, gen, cache, copy, junk, wr, cold, gone, rows, writes>>

LoadChunk(r, c) ==
    /\ rd[r].pc = "idle" /\ src[c] # Nil
    /\ Reader(r, [NoRead EXCEPT !.pc = "load", !.chunk = c, !.gen = gen[c],
                                !.disks = cdisk, !.sure = ~Writing(c)])
    /\ OnlyReaders

LoadCaches(r) ==
    /\ rd[r].pc = "load"
    /\ LET e == cache[rd[r].chunk] IN
       Reader(r, [rd[r] EXCEPT !.pc = "read", !.entry = e,
                               !.disks = IF Hit(e) THEN @ \cap {e.disk} ELSE {}])
    /\ OnlyReaders

(* A copy that cannot be read falls back to the source disk.               *)
Cached(x) == IF Hit(x.entry) /\ x.entry.disk \in x.disks /\ copy[x.entry.path] # Nil
             THEN copy[x.entry.path].data ELSE Nil
Source(x) == IF gen[x.chunk] = x.gen THEN src[x.chunk] ELSE Nil
Data_NoFallback(x) ==               (* Mutant: a copy that is not there is an error. *)
    IF Hit(x.entry) THEN Cached(x) ELSE Source(x)
Data(x) == IF Cached(x) # Nil THEN Cached(x) ELSE Source(x)

ReadData(r) ==
    /\ rd[r].pc = "read"
    /\ Reader(r, [rd[r] EXCEPT !.pc = IF Data(rd[r]) = Nil THEN "failed" ELSE "update",
                               !.data = Data(rd[r]), !.gen = 0, !.disks = {}])
    /\ OnlyReaders

Return(r) ==
    /\ rd[r].pc = "failed"
    /\ Reader(r, NoRead)
    /\ OnlyReaders

(* updateCacheAccess: the disk of the chunk, by its number.                *)
Ordered(n, D) == CHOOSE d \in D : Cardinality({e \in D : e < d}) = n
PickCacheDisk_Modulo(D, c) == c % Cardinality(D)   (* Mutant: the remainder taken for the id. *)
PickCacheDisk(D, c) == Ordered(c % Cardinality(D), D)
ChooseDisk(r) ==
    LET x    == rd[r]
        next == [NoRead EXCEPT !.chunk = x.chunk, !.disk = PickCacheDisk(cdisk, x.chunk)]
    IN  /\ x.pc = "update"
        /\ Reader(r, IF cdisk = {} THEN NoRead
                     ELSE IF x.entry = Nil THEN [next EXCEPT !.pc = "insert"]
                     ELSE IF ~Hot(x.entry) THEN [next EXCEPT !.pc = "bump"]
                     ELSE [next EXCEPT !.pc = "copy", !.entry = x.entry, !.data = x.data])
        /\ OnlyReaders

(* The copy is written under a path no file has (generateChunkPaths draws  *)
(* it at random); or that fails, and what it wrote is not counted.         *)
Used == junk \cup wr.files \cup gone.files \cup {p \in Path : copy[p] # Nil}
        \cup {rd[r].path : r \in Readers}
        \cup {e.path : e \in {x \in {cache[c] : c \in Chunks} \cup {rd[r].entry : r \in Readers}
                                   \cup (IF cold = Nil THEN {} ELSE cold) : x # Nil}}
WriteCopy(r) ==
    /\ rd[r].pc = "copy"
    /\ \/ LET p == Min(Path \ Used) IN
            /\ Path \ Used # {}
            /\ copy' = [copy EXCEPT ![p] = [data |-> rd[r].data, disk |-> rd[r].disk]]
            /\ Reader(r, [rd[r] EXCEPT !.pc = "save", !.path = p, !.data = Nil])
       \/ /\ Reader(r, NoRead)
          /\ UNCHANGED copy
    /\ UNCHANGED <<cdisk, src, gen, cache, junk, wr, cold, gone, rows, writes>>

(* The upsert goes by the id of the row: one that was deleted meanwhile is *)
(* inserted again, unless the chunk has another, which fails.              *)
Promoted(x) == [x.entry EXCEPT !.path = x.path, !.disk = x.disk, !.cached = TRUE]
SavePromoted(r) ==
    LET x == rd[r] IN
    /\ x.pc = "save"
    /\ cache' = IF cache[x.chunk] # Nil /\ cache[x.chunk].id # x.entry.id THEN cache
                ELSE [cache EXCEPT ![x.chunk] = Promoted(x)]
    /\ Reader(r, NoRead)
    /\ UNCHANGED <<cdisk, src, gen, copy, junk, wr, cold, gone, rows, writes>>

InsertRow(r) ==
    LET x == rd[r] IN
    /\ x.pc = "insert"
    /\ IF cache[x.chunk] # Nil THEN UNCHANGED <<cache, rows>>
       ELSE /\ rows < MaxRow /\ rows' = rows + 1
            /\ cache' = [cache EXCEPT ![x.chunk] = [id |-> rows + 1, disk |-> x.disk, path |-> 0,
                            count |-> 1, cached |-> FALSE]]
    /\ Reader(r, NoRead)
    /\ UNCHANGED <<cdisk, src, gen, copy, junk, wr, cold, gone, writes>>

(* The count is not told apart above the threshold.                        *)
Bump(r) ==
    LET x == rd[r] IN
    /\ x.pc = "bump"
    /\ cache' = IF cache[x.chunk] = Nil THEN cache
                ELSE [cache EXCEPT ![x.chunk].count = IF @ > Threshold THEN @ ELSE @ + 1]
    /\ Reader(r, NoRead)
    /\ UNCHANGED <<cdisk, src, gen, copy, junk, wr, cold, gone, rows, writes>>
-----------------------------------------------------------------------------
(* Readers that meet a write or a release may see either content.          *)
Disturb(c) == rd' = [r \in Readers |-> IF rd[r].pc # "idle" /\ rd[r].chunk = c
                                       THEN [rd[r] EXCEPT !.sure = FALSE] ELSE rd[r]]

(* WriteChunks: dropCaches reads the rows, deletes them, deletes the files *)
(* they name; then the chunk is overwritten.                               *)
StartWrite(c) ==
    /\ wr.pc = "idle" /\ writes < MaxWrite /\ src[c] # Nil
    /\ writes' = writes + 1
    /\ wr' = [pc |-> IF cache[c] = Nil THEN "write" ELSE "drop", chunk |-> c, files |-> FileOf(cache[c])]
    /\ Disturb(c)
    /\ UNCHANGED <<cdisk, src, gen, cache, copy, junk, cold, gone, rows>>

DropRows ==
    /\ wr.pc = "drop"
    /\ cache' = [cache EXCEPT ![wr.chunk] = Nil]
    /\ junk' = junk \cup wr.files
    /\ wr' = [wr EXCEPT !.pc = "write"]
    /\ UNCHANGED <<cdisk, src, gen, copy, rd, cold, gone, rows, writes>>

WriteFile(v) ==
    /\ wr.pc = "write"
    /\ src' = [src EXCEPT ![wr.chunk] = v]
    /\ wr' = NoWr
    /\ UNCHANGED <<cdisk, gen, cache, copy, junk, rd, cold, gone, rows, writes>>

(* ReleaseChunks with dropCacheRows, one transaction ...                   *)
Dropped_Kept(c) == cache            (* Mutant: the row of a released chunk stays. *)
Dropped(c) == [cache EXCEPT ![c] = Nil]
Release(c) ==
    /\ src[c] # Nil /\ ~Writing(c) /\ writes < MaxWrite
    /\ writes' = writes + 1
    /\ src' = [src EXCEPT ![c] = Nil] /\ gen' = [gen EXCEPT ![c] = @ + 1]
    /\ cache' = Dropped(c)
    /\ junk' = junk \cup FileOf(cache[c])
    /\ Disturb(c)
    /\ UNCHANGED <<cdisk, copy, wr, cold, gone, rows>>

(* ... and the slot is used again.                                         *)
Reuse(c, v) ==
    /\ src[c] = Nil
    /\ src' = [src EXCEPT ![c] = v]
    /\ Disturb(c)
    /\ UNCHANGED <<cdisk, gen, cache, copy, junk, wr, cold, gone, rows, writes>>

DeleteCopy(p) ==
    /\ p \in junk
    /\ copy' = [copy EXCEPT ![p] = Nil]
    /\ junk' = junk \ {p}
    /\ UNCHANGED <<cdisk, src, gen, cache, rd, wr, cold, gone, rows, writes>>
-----------------------------------------------------------------------------
(* cleanupColdCache reads the rows nobody has read for an hour (which may  *)
(* be any) and deletes them by their ids.                                  *)
SelectCold ==
    \E C \in SUBSET {c \in Chunks : cache[c] # Nil} :
        /\ cold = Nil /\ C # {}
        /\ cold' = {cache[c] : c \in C}
        /\ UNCHANGED <<cdisk, src, gen, cache, copy, junk, rd, wr, gone, rows, writes>>

EvictedFiles_None == {}             (* Mutant: only the rows are deleted. *)
EvictedFiles == UNION {FileOf(e) : e \in cold}
EvictCold ==
    /\ cold # Nil
    /\ cache' = [c \in Chunks |-> IF cache[c] # Nil /\ \E e \in cold : e.id = cache[c].id
                                  THEN Nil ELSE cache[c]]
    /\ junk' = junk \cup EvictedFiles
    /\ cold' = Nil
    /\ UNCHANGED <<cdisk, src, gen, copy, rd, wr, gone, rows, writes>>

(* DeleteCacheDisk: the rows of the disk are read, their files deleted,    *)
(* then the rows there are by now and the disk go.                         *)
DeleteCacheDisk(d) ==
    /\ gone.pc = "idle" /\ d \in cdisk
    /\ gone' = [pc |-> "files", disk |-> d,
                files |-> UNION {FileOf(cache[c]) : c \in {b \in Chunks : cache[b] # Nil /\ cache[b].disk = d}}]
    /\ UNCHANGED <<cdisk, src, gen, cache, copy, junk, rd, wr, cold, rows, writes>>

DeleteFiles ==
    /\ gone.pc = "files"
    /\ copy' = [p \in Path |-> IF p \in gone.files THEN Nil ELSE copy[p]]
    /\ gone' = [gone EXCEPT !.pc = "rows"]
    /\ UNCHANGED <<cdisk, src, gen, cache, junk, rd, wr, cold, rows, writes>>

(* Mutant: the rows that were read are deleted, not those there are.       *)
DeleteRows_Read ==
    /\ gone.pc = "rows"
    /\ cache' = [c \in Chunks |-> IF cache[c] # Nil /\ cache[c].path \in gone.files THEN Nil ELSE cache[c]]
    /\ cdisk' = cdisk \ {gone.disk}
    /\ gone' = NoGone
    /\ UNCHANGED <<src, gen, copy, junk, rd, wr, cold, rows, writes>>
DeleteRows ==
    /\ gone.pc = "rows"
    /\ cache' = [c \in Chunks |-> IF cache[c] # Nil /\ cache[c].disk = gone.disk THEN Nil ELSE cache[c]]
    /\ cdisk' = cdisk \ {gone.disk}
    /\ gone' = NoGone
    /\ UNCHANGED <<src, gen, copy, junk, rd, wr, cold, rows, writes>>
-----------------------------------------------------------------------------
(* The races, one class each:                                              *)
(*   promote  a chunk is written or released while a reader is about to    *)
(*            make, or save, a copy of what it has read;                   *)
(*   row      two readers make a copy of one chunk, or the row one of them *)
(*            is about to save is evicted or deleted with its disk;        *)
(*   disk     a cache disk goes while a reader puts a copy on it.          *)
Promoting(r) == rd[r].pc \in {"read", "update", "copy", "save"} /\ Hot(rd[r].entry)
Allowed ==
    /\ "promote" \in Overlaps \/ \A r \in Readers : Promoting(r) => ~Writing(rd[r].chunk)
    /\ "row" \in Overlaps \/ \A r \in Readers : Promoting(r) =>
            /\ \A q \in Readers \ {r} : ~(Promoting(q) /\ rd[q].chunk = rd[r].chunk)
            /\ cache[rd[r].chunk] # Nil /\ cache[rd[r].chunk].id = rd[r].entry.id
            /\ cold # Nil => \A e \in cold : e.id # rd[r].entry.id
    /\ "disk" \in Overlaps \/ \A r \in Readers : rd[r].pc \in {"copy", "save"} => rd[r].disk \in cdisk
AllowedStep ==
    "promote" \in Overlaps \/ \A r \in Readers : Promoting(r) => gen'[rd[r].chunk] = gen[rd[r].chunk]

Next ==
    /\ \/ \E r \in Readers : \/ \E c \in Chunks : LoadChunk(r, c)
                             \/ LoadCaches(r) \/ ReadData(r) \/ Return(r) \/ ChooseDisk(r)
                             \/ WriteCopy(r) \/ SavePromoted(r) \/ InsertRow(r) \/ Bump(r)
       \/ \E c \in Chunks : StartWrite(c) \/ Release(c)
       \/ \E v \in Values : WriteFile(v) \/ \E c \in Chunks : Reuse(c, v)
       \/ DropRows \/ SelectCold \/ EvictCold
       \/ \E p \in Path : DeleteCopy(p)
       \/ \E d \in Disks : DeleteCacheDisk(d)
       \/ DeleteFiles \/ DeleteRows
    /\ Allowed' /\ AllowedStep

Spec == Init /\ [][Next]_vars
-----------------------------------------------------------------------------
(* Properties.                                                             *)

TypeOK ==
    /\ cdisk \subseteq Disks /\ src \in [Chunks -> Values \cup {Nil}]
    /\ \A c \in Chunks : cache[c] # Nil => cache[c] \in Row
    /\ \A p \in Path : copy[p] # Nil => copy[p] \in Copy
    /\ junk \subseteq Path /\ rows \in 0..MaxRow /\ writes \in 0..MaxWrite

(* A copy that reads can hit is the content of the chunk, whatever wrote,  *)
(* released, reused or copied it before: dropCaches and dropCacheRows come *)
(* in time.                                                                *)
NoStaleHit ==
    \A c \in Chunks : Hit(cache[c]) /\ ~Writing(c) /\ copy[cache[c].path] # Nil =>
        copy[cache[c].path].data = src[c]

(* A read no write or release overlaps returns the content of the chunk,   *)
(* also when its copy is evicted or its cache disk deleted under it.       *)
ReadsCurrent ==
    \A r \in Readers : rd[r].sure /\ rd[r].pc \in {"update", "failed"} =>
        rd[r].data = src[rd[r].chunk]

(* A row never says a copy is on a disk that is gone, also when the copy   *)
(* was made while DeleteCacheDisk was deleting those it had read: such a   *)
(* chunk would be read from the source for as long as it is read often.    *)
CopiesReachable ==
    \A c \in Chunks : Hit(cache[c]) => cache[c].disk \in cdisk

(* Every copy on a cache disk is named by a row, or somebody is about to   *)
(* delete it or to save its row: no space is lost.                         *)
CopiesAccounted ==
    \A p \in Path : copy[p] # Nil /\ copy[p].disk \in cdisk =>
        \/ \E c \in Chunks : cache[c] # Nil /\ cache[c].path = p
        \/ p \in junk \cup wr.files \cup gone.files
        \/ \E r \in Readers : rd[r].pc = "save" /\ rd[r].path = p
=============================================================================
