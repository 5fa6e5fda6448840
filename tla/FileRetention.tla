---------------------------- MODULE FileRetention ----------------------------
(***************************************************************************)
(* What else happens to files and their versions: the trash (fs_write.go,  *)
(* recycle.go), the retention sweeps (retention.go), RestoreVersion        *)
(* (history.go) and the orphan collection of the pool.                     *)
(***************************************************************************)
EXTENDS FileState

(* Remove puts a file into the trash.                                      *)
markDeleted(i) ==
    /\ inode[i].state = "live"
    /\ inode' = [inode EXCEPT ![i].state = "deleted"]
    /\ UNCHANGED <<vrow, vchunk, nextVer, chunk, fh, purging, restoring, text, crashes>>

(* Restore takes it out again.  Its check (deletedInode) and its           *)
(* transaction are one step here: the transaction does not check again,    *)
(* and an entry that is gone is not touched by its UPDATE.  A purge that    *)
(* has found the entry deleted goes on regardless.                         *)
Restore(i) ==
    /\ inode[i].state = "deleted"
    /\ inode' = [inode EXCEPT ![i].state = "live"]
    /\ UNCHANGED <<vrow, vchunk, nextVer, chunk, fh, purging, restoring, text, crashes>>

(* Purge and SweepRecycle: the entry is found deleted ...                  *)
deletedInode(i) ==
    /\ inode[i].state = "deleted" /\ i \notin purging
    /\ purging' = purging \cup {i}
    /\ UNCHANGED <<tables, chunk, fh, restoring, text, crashes>>

(* Mutant: the chunks of the deleted rows are freed, shared or not.        *)
DropVersions_Shared(D) ==
    /\ vchunk' = [y \in Version \X Idx |-> IF y[1] \in D THEN Nil ELSE vchunk[y]]
    /\ vrow'   = [v \in Version |-> IF v \in D THEN Nil ELSE vrow[v]]
    /\ text'   = [v \in Version |-> IF v \in D THEN Nil ELSE text[v]]
    /\ chunk'  = [c \in Chunks |-> IF \E v \in D, x \in Idx : vchunk[v, x] = c
                                   THEN Nil ELSE chunk[c]]

(* Deleting the version rows D, their mapping, and the chunks that no row  *)
(* refers to any more: one transaction (ReleaseChunks is part of it).      *)
DropVersions(D) ==
    LET freed == {c \in Chunks : /\ \E v \in D, x \in Idx : vchunk[v, x] = c
                                 /\ \A v \in Version \ D, x \in Idx : vchunk[v, x] # c}
    IN  /\ vchunk' = [y \in Version \X Idx |-> IF y[1] \in D THEN Nil ELSE vchunk[y]]
        /\ vrow'   = [v \in Version |-> IF v \in D THEN Nil ELSE vrow[v]]
        /\ text'   = [v \in Version |-> IF v \in D THEN Nil ELSE text[v]]
        /\ chunk'  = [c \in Chunks |-> IF c \in freed THEN Nil ELSE chunk[c]]

(* ... and goes with its versions and their mapping.                       *)
purgeInode(i) ==
    /\ i \in purging
    /\ "release" \in Overlaps \/ ((\A h \in Handles : ~Uses(h, i))
                                  /\ \A r \in restoring : r[2] # i)
    /\ purging' = purging \ {i}
    /\ inode' = [inode EXCEPT ![i].state = "gone"]
    /\ DropVersions(VersionsOf(i))
    /\ UNCHANGED <<nextVer, fh, restoring, crashes>>

(* Does a handle or a RestoreVersion depend on version v ?                 *)
InUse(v) == \/ \E h \in Handles : fh[h].pc # "closed" /\ v \in {fh[h].base, fh[h].ver}
            \/ \E r \in restoring : r[1] = v

Newest(S, n) == {v \in S : Cardinality({w \in S : w > v}) < n}

(* Mutant: the newest versions are kept, whichever is current.             *)
KeepSet_NewestOnly(i) == Newest(VersionsOf(i), Keep)

(* keepSet: the current version, then the newest ones until Keep are kept. *)
KeepSet(i) ==
    LET current == {inode[i].ver} \ {0}
    IN  current \cup Newest(VersionsOf(i) \ current, Keep - Cardinality(current))

(* trimVersions, one transaction.                                          *)
trimVersions(i) ==
    LET drop == VersionsOf(i) \ KeepSet(i)
    IN  /\ Keep > 0 /\ inode[i].state \in {"live", "deleted"} /\ drop # {}
        /\ "release" \in Overlaps \/ \A v \in drop : ~InUse(v)
        /\ DropVersions(drop)
        /\ UNCHANGED <<inode, nextVer, fh, purging, restoring, crashes>>

(* RestoreVersion: the version and its file are found ... (bound: one call *)
(* at a time)                                                              *)
FindVersion(v) ==
    /\ restoring = {} /\ vrow[v] # Nil
    /\ inode[vrow[v].inode].state = "live"
    /\ "draft" \in Overlaps \/ text[v] # Nil
    /\ restoring' = {<<v, vrow[v].inode>>}
    /\ UNCHANGED <<tables, chunk, fh, purging, text, crashes>>

(* ... and the file is pointed at the version.                             *)
RestoreVersion(v, i) ==
    /\ <<v, i>> \in restoring
    /\ restoring' = restoring \ {<<v, i>>}
    /\ inode' = [inode EXCEPT ![i].ver = IF inode[i].state = "gone" THEN @ ELSE v]
    /\ UNCHANGED <<vrow, vchunk, nextVer, chunk, fh, purging, text, crashes>>

(* The orphan collection; a chunk on its way to its row is too young.      *)
GarbageCollect(c) ==
    /\ chunk[c] # Nil
    /\ \A v \in Version, x \in Idx : vchunk[v, x] # c
    /\ \A h \in Handles : fh[h].got # c
    /\ chunk' = [chunk EXCEPT ![c] = Nil]
    /\ UNCHANGED <<tables, fh, purging, restoring, text, crashes>>

(* The process stops; nothing of the file layer is cleaned up at startup.  *)
Crash ==
    /\ crashes < MaxCrash
    /\ crashes' = crashes + 1
    /\ fh' = [h \in Handles |-> Closed]
    /\ purging' = {} /\ restoring' = {}
    /\ UNCHANGED <<tables, chunk, text>>
=============================================================================
