------------------------------- MODULE Files ---------------------------------
(***************************************************************************)
(* Versioned files: handles, the trash, the retention sweeps and restores  *)
(* of old versions, and what they owe to the users of a share.             *)
(***************************************************************************)
EXTENDS FileHandle, FileRetention

Next ==
    \/ \E h \in Handles : HandleCall(h) \/ HandleStep(h)
    \/ \E i \in Inodes : \/ markDeleted(i) \/ Restore(i) \/ deletedInode(i) \/ purgeInode(i)
                         \/ trimVersions(i)
    \/ \E v \in Version : FindVersion(v)
    \/ \E r \in restoring : RestoreVersion(r[1], r[2])
    \/ \E c \in Chunks : GarbageCollect(c)
    \/ Crash

Spec == Init /\ [][Next]_vars

-----------------------------------------------------------------------------
(* Properties.                                                             *)

Committed == {v \in Version : vrow[v] # Nil /\ text[v] # Nil}

(* A committed version keeps exactly the bytes its writer committed:       *)
(* neither the writes, truncations and failures of later handles, which    *)
(* share its chunks, nor trimming, purging and collecting others change    *)
(* what it reads (beginWrite, putSlice, truncateTo, DropVersions).         *)
VersionsIntact ==
    \A v \in Committed :
        /\ \A x \in Idx : vchunk[v, x] # Nil => chunk[vchunk[v, x]] # Nil
        /\ vrow[v].size = Len(text[v].bytes)
        /\ Flat(Contents(RowsOf(v)), vrow[v].size) = text[v].bytes

(* The version a file points at exists: trimming keeps it, whether it is   *)
(* the newest one or an old one brought back, and a commit or a restore    *)
(* never points at a version that is not there (trimVersions, Close,       *)
(* RestoreVersion).                                                        *)
CurrentKept ==
    \A i \in Inodes : inode[i].state # "gone" /\ inode[i].ver # 0 => vrow[inode[i].ver] # Nil

(* Bytes of slices S that handle f reads are the ones its user wrote.      *)
ReadsView(f, S) ==
    /\ f.size = Len(f.view)
    /\ \A x \in S : Readable(f, x)
    /\ \A k \in 1..f.size : LET x == (k - 1) \div SliceSize IN
            x \in S => Byte(Plain(f, x), (k - 1) % SliceSize) = f.view[k]

(* A handle whose calls all succeeded reads what its user has written over *)
(* what the file held at open, and zeros where nothing was written: holes, *)
(* truncated and extended ranges included (ReadAt, WriteAt, truncateTo).   *)
ReadsOwnView ==
    \A h \in Handles : fh[h].pc = "ready" /\ fh[h].sure => ReadsView(fh[h], Idx)

(* The same but for the slices the handle has dropped: as long as it does  *)
(* not come back to one, they are not in the file it commits.              *)
ReadsOwnWrites ==
    \A h \in Handles : fh[h].pc = "ready" /\ fh[h].sure =>
        ReadsView(fh[h], {x \in Idx : ~Dropped(fh[h], x)})
=============================================================================
