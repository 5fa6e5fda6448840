------------------------------ MODULE FileState ------------------------------
(***************************************************************************)
(* The state of the file layer of one share (internal/vfs): inodes, their  *)
(* versions, the version_chunks rows that map slices to chunks, and the    *)
(* open handles.  The pool below is reduced to what PoolProofs proves of   *)
(* it: a chunk holds the slice it was written with until it is released.   *)
(*                                                                         *)
(* A byte is a number, 0 the zero byte; the content of a slice, of a       *)
(* payload and of a file is a sequence of bytes.                           *)
(***************************************************************************)
EXTENDS Integers, Sequences, FiniteSets

CONSTANTS
    Inodes,         \* inode ids
    Handles,        \* open files
    Chunks,         \* chunk ids; a released one is handed out again
    Payloads,       \* what one WriteAt may carry
    Nil,            \* absent row, hole, nothing pending
    SliceSize,      \* bytes per slice
    MaxSize,        \* bound: size of a file
    MaxVersion,     \* bound: versions ever created
    MaxCalls,       \* bound: writes, truncations and flushes per handle
    MaxCrash,       \* bound: process crashes
    Keep,           \* version_keep of the share; 0: versions are not trimmed
    Faults,         \* a pool call or a statement of a handle may fail
    Overlaps        \* the unguarded situations that may arise

(* "release":  a trim or a purge meets a handle that has the file open, or *)
(*             a RestoreVersion under way                                  *)
(* "draft":    RestoreVersion picks a version that is still being written  *)
(* "dropped":  a handle comes back to a slice it has dropped               *)
ASSUME FileAssumption ==
    /\ SliceSize \in Nat \ {0} /\ MaxSize \in Nat \ {0}
    /\ MaxVersion \in Nat /\ MaxCalls \in Nat /\ MaxCrash \in Nat /\ Keep \in Nat
    /\ Payloads \subseteq Seq(Nat) \ {<<>>}
    /\ Faults \in BOOLEAN
    /\ Overlaps \subseteq {"release", "draft", "dropped"}
    /\ Nil \notin Chunks /\ Nil \notin Nat /\ Nil \notin Seq(Nat)
    /\ Nil \notin [inode : Inodes, size : Nat] /\ Nil \notin [bytes : Seq(Nat), sure : BOOLEAN]

VARIABLES
    inode,      \* inodes: state and version_id (0: NULL) of each row
    vrow,       \* versions: inode_id and size of each row
    vchunk,     \* version_chunks: chunk_id by (version_id, idx)
    nextVer,    \* the id the next version gets (AUTOINCREMENT)
    chunk,      \* the pool: what each chunk holds; Nil: an empty slot
    fh,         \* open handles
    purging,    \* purges between their check and their transaction
    restoring,  \* RestoreVersion calls between check and transaction
    text,       \* history: what the committer of each version owes
    crashes

tables == <<inode, vrow, vchunk, nextVer>>
vars   == <<tables, chunk, fh, purging, restoring, text, crashes>>

Version == 1..MaxVersion
Idx     == 0..((MaxSize - 1) \div SliceSize)
NoRows  == [i \in Idx |-> Nil]

(* A handle: its snapshot (base, old), the version it writes (ver, new,    *)
(* size, dirty), the active slice (act, buf), the slice being stored (out, *)
(* got), the operation under way (op), and three history fields: what its  *)
(* user has written (view), whether every call succeeded (sure), and how   *)
(* many there were (calls).                                                *)
Closed == [pc |-> "closed", inode |-> Nil, writable |-> FALSE, base |-> 0, old |-> NoRows,
           ver |-> 0, new |-> NoRows, size |-> 0, dirty |-> FALSE, act |-> Nil, buf |-> <<>>,
           out |-> Nil, got |-> Nil, op |-> Nil, view |-> <<>>, sure |-> TRUE, calls |-> 0]

Pc == {"closed", "stat", "base", "snapshot", "born", "ready", "write", "cut", "flush",
       "store", "commit", "discard"}

(* Every row, chunk and handle has the shape the code gives it.            *)
TypeOK ==
    /\ \A i \in Inodes : inode[i].state \in {"absent", "live", "deleted", "gone"}
                         /\ inode[i].ver \in 0..MaxVersion
    /\ \A v \in Version : vrow[v] # Nil => vrow[v].inode \in Inodes /\ vrow[v].size \in 0..MaxSize
    /\ \A v \in Version, i \in Idx : vchunk[v, i] \in Chunks \cup {Nil}
    /\ nextVer \in 1..(MaxVersion + 1)
    /\ \A c \in Chunks : chunk[c] # Nil => Len(chunk[c]) \in 1..SliceSize
    /\ \A h \in Handles :
        /\ fh[h].pc \in Pc /\ fh[h].calls \in 0..MaxCalls /\ fh[h].size \in 0..MaxSize /\ Len(fh[h].buf) \in 0..SliceSize
        /\ fh[h].pc # "closed" => fh[h].inode \in Inodes
        /\ fh[h].pc \in {"flush", "store"} => fh[h].out.idx \in Idx
    /\ purging \subseteq Inodes /\ restoring \subseteq Version \X Inodes
    /\ crashes \in 0..MaxCrash

-----------------------------------------------------------------------------
(* Slices and flat content.                                                *)

Byte(s, k) == IF k < Len(s) THEN s[k + 1] ELSE 0        \* past the end: zeros

(* The first n bytes of a file whose slices are sl; a hole reads as zeros. *)
Flat(sl, n) == [k \in 1..n |-> Byte(sl[(k - 1) \div SliceSize], (k - 1) % SliceSize)]

(* Writing p over s at offset off; a gap between them reads as zeros.      *)
Patch(s, off, p) ==
    [k \in 1..(IF off + Len(p) > Len(s) THEN off + Len(p) ELSE Len(s)) |->
        IF k > off /\ k <= off + Len(p) THEN p[k - off] ELSE Byte(s, k - 1)]

Resize(s, n) == [k \in 1..n |-> Byte(s, k - 1)]

(* What the rows of a version, or of a snapshot, say about each slice; a   *)
(* row whose chunk is gone has nothing to give.                            *)
Contents(rows) == [i \in Idx |-> IF rows[i] = Nil \/ chunk[rows[i]] = Nil THEN <<>>
                                 ELSE chunk[rows[i]]]
RowsOf(v)      == [i \in Idx |-> vchunk[v, i]]

Uses(h, i)    == fh[h].pc # "closed" /\ fh[h].inode = i
VersionsOf(i) == {v \in Version : vrow[v] # Nil /\ vrow[v].inode = i}

Init ==
    /\ inode  = [i \in Inodes |-> [state |-> "absent", ver |-> 0]]
    /\ vrow   = [v \in Version |-> Nil]
    /\ vchunk = [x \in Version \X Idx |-> Nil]
    /\ nextVer = 1
    /\ chunk  = [c \in Chunks |-> Nil]
    /\ fh     = [h \in Handles |-> Closed]
    /\ purging = {} /\ restoring = {}
    /\ text   = [v \in Version |-> Nil]
    /\ crashes = 0
=============================================================================
