----------------------------- MODULE FileHandle ------------------------------
(***************************************************************************)
(* The life of a file handle (file.go, file_write.go): open, snapshot,     *)
(* slice-wise copy on write, truncation, close.  A handle is used by one   *)
(* goroutine at a time; every statement and every pool call is a step.     *)
(***************************************************************************)
EXTENDS FileState

unchangedByHandle == <<purging, restoring, crashes>>

Become(h, rec) == fh' = [fh EXCEPT ![h] = rec]

(* Open: lookup reads the inode row; Create makes one when there is none.  *)
Open(h, i, write) ==
    /\ fh[h].pc = "closed"
    /\ \/ inode[i].state = "live" /\ UNCHANGED inode
       \/ /\ inode[i].state = "absent" /\ write
          /\ inode' = [inode EXCEPT ![i].state = "live"]
    /\ LET base == inode[i].ver
           held == IF base = 0 THEN [bytes |-> <<>>, sure |-> TRUE]
                   ELSE IF text[base] = Nil THEN [bytes |-> <<>>, sure |-> FALSE]
                   ELSE text[base]
       IN Become(h, [Closed EXCEPT !.pc = "stat", !.inode = i, !.writable = write,
                                   !.base = base, !.view = held.bytes, !.sure = held.sure])
    /\ UNCHANGED <<vrow, vchunk, nextVer, chunk, text, unchangedByHandle>>

AfterLoad(h) == IF fh[h].writable THEN "snapshot" ELSE "ready"

(* loadSnapshot: the version row; without one the file counts as empty.    *)
LoadVersion(h) ==
    /\ fh[h].pc = "stat"
    /\ LET base == fh[h].base IN
       IF base = 0 \/ vrow[base] = Nil
       THEN Become(h, [fh[h] EXCEPT !.pc = AfterLoad(h)])
       ELSE Become(h, [fh[h] EXCEPT !.pc = "base", !.size = vrow[base].size])
    /\ UNCHANGED <<tables, chunk, text, unchangedByHandle>>

(* loadSnapshot: the version_chunks rows.                                  *)
LoadRows(h) ==
    /\ fh[h].pc = "base"
    /\ Become(h, [fh[h] EXCEPT !.pc = AfterLoad(h), !.old = RowsOf(fh[h].base)])
    /\ UNCHANGED <<tables, chunk, text, unchangedByHandle>>

(* beginWrite: a version of its own ...                                    *)
NewVersion(h) ==
    /\ fh[h].pc = "snapshot" /\ nextVer <= MaxVersion
    /\ vrow' = [vrow EXCEPT ![nextVer] = [inode |-> fh[h].inode, size |-> fh[h].size]]
    /\ nextVer' = nextVer + 1
    /\ Become(h, [fh[h] EXCEPT !.pc = IF fh[h].old = NoRows THEN "ready" ELSE "born",
                               !.ver = nextVer])
    /\ UNCHANGED <<inode, vchunk, chunk, text, unchangedByHandle>>

(* ... that inherits the mapping of the version read at open.              *)
InheritRows(h) ==
    /\ fh[h].pc = "born"
    /\ vchunk' = [x \in Version \X Idx |-> IF x[1] = fh[h].ver THEN fh[h].old[x[2]]
                                           ELSE vchunk[x]]
    /\ Become(h, [fh[h] EXCEPT !.pc = "ready", !.new = fh[h].old])
    /\ UNCHANGED <<inode, vrow, nextVer, chunk, text, unchangedByHandle>>

(* A failing statement of Open: no handle; a version row that was already  *)
(* made stays.                                                             *)
FailOpen(h) ==
    /\ Faults /\ fh[h].pc \in {"stat", "base", "snapshot", "born"}
    /\ Become(h, Closed)
    /\ UNCHANGED <<tables, chunk, text, unchangedByHandle>>

-----------------------------------------------------------------------------
(* What a handle sees of a slice: the active buffer, else the slice it has *)
(* stored, else the one of its snapshot, else a hole.                      *)
Source(f, i) == IF f.new[i] # Nil THEN f.new[i] ELSE f.old[i]
Readable(f, i) == f.act # i /\ Source(f, i) # Nil => chunk[Source(f, i)] # Nil
Plain(f, i) == IF f.act = i THEN f.buf
               ELSE IF Source(f, i) = Nil THEN <<>> ELSE chunk[Source(f, i)]

MayFail(f, i) == ~Readable(f, i) \/ (Faults /\ f.act # i /\ Source(f, i) # Nil)

(* A slice the handle no longer has, but its snapshot does.                *)
Dropped(f, i) == f.writable /\ f.act # i /\ f.new[i] = Nil /\ f.old[i] # Nil

AllZero(s) == \A k \in DOMAIN s : s[k] = 0

(* A slice the handle drops as soon as it turns to another one.            *)
WillDrop(f, i) == f.act = i /\ AllZero(f.buf) /\ f.old[i] # Nil

(* Without the overlap "dropped" no call comes back to a dropped slice,    *)
(* nor drops the active slice when it begins and comes back to it.         *)
MayTouch(f, first, last) ==
    "dropped" \in Overlaps \/
        \A i \in first..last : ~Dropped(f, i) /\ (i # first => ~WillDrop(f, i))

(* A failing call returns its error to the caller; Close does not return   *)
(* to an open handle.                                                      *)
Fail(f) == IF f.op.kind = "close" THEN Closed
           ELSE [f EXCEPT !.pc = "ready", !.op = Nil, !.out = Nil, !.got = Nil, !.sure = FALSE]

(* A WriteAt that has reached its end records the new size.                *)
AfterPiece(f) ==
    IF f.op.rest # <<>> THEN [f EXCEPT !.pc = "write"]
    ELSE LET end == f.op.off + Len(f.op.data) IN
         [f EXCEPT !.pc = "ready", !.op = Nil, !.dirty = TRUE,
                   !.size = IF end > @ THEN end ELSE @,
                   !.view = Patch(@, f.op.off, f.op.data)]

AfterCut(f) == [f EXCEPT !.pc = "ready", !.op = Nil, !.dirty = TRUE, !.size = f.op.size,
                         !.view = Resize(@, f.op.size)]

ClosePc(f) == IF f.dirty THEN "commit" ELSE "discard"

(* putSlice has returned: on with the call that needed it.                 *)
AfterPut(f) ==
    LET g == [f EXCEPT !.out = Nil, !.got = Nil] IN
    CASE f.op.kind = "write" ->
            AfterPiece([g EXCEPT !.act = f.op.next.idx, !.buf = f.op.next.buf])
      [] f.op.kind = "cut"   -> AfterCut(g)
      [] f.op.kind = "sync"  -> [g EXCEPT !.pc = "ready", !.op = Nil]
      [] f.op.kind = "close" -> [g EXCEPT !.pc = ClosePc(f)]

(* WriteAt; the range is taken slice by slice.                             *)
WriteAt(h, off, p) ==
    /\ fh[h].pc = "ready" /\ fh[h].writable
    /\ off + Len(p) <= MaxSize /\ fh[h].calls < MaxCalls
    /\ MayTouch(fh[h], off \div SliceSize, (off + Len(p) - 1) \div SliceSize)
    /\ Become(h, [fh[h] EXCEPT !.pc = "write", !.calls = @ + 1,
                    !.op = [kind |-> "write", off |-> off, data |-> p, rest |-> p, next |-> Nil]])
    /\ UNCHANGED <<tables, chunk, text, unchangedByHandle>>

(* Mutant: a piece may run past the end of its slice.                      *)
PieceLength_Whole(left, intra) == left

(* How much of the rest of a write one slice takes.                        *)
PieceLength(left, intra) == IF left > SliceSize - intra THEN SliceSize - intra ELSE left

(* writeIntoSlice: the piece that falls into one slice.  A slice other     *)
(* than the active one is read first, then the active one is flushed.      *)
WriteSlice(h) ==
    LET f     == fh[h]
        done  == Len(f.op.data) - Len(f.op.rest)
        idx   == (f.op.off + done) \div SliceSize
        intra == (f.op.off + done) % SliceSize
        n     == PieceLength(Len(f.op.rest), intra)
        buf   == Patch(Plain(f, idx), intra, SubSeq(f.op.rest, 1, n))
        g     == [f EXCEPT !.op.rest = SubSeq(@, n + 1, Len(@))]
    IN  /\ f.pc = "write"
        /\ \/ /\ f.act = idx \/ (f.act = Nil /\ Readable(f, idx))
              /\ Become(h, AfterPiece([g EXCEPT !.act = idx, !.buf = buf]))
           \/ /\ f.act \notin {idx, Nil} /\ Readable(f, idx)
              /\ Become(h, [g EXCEPT !.pc = "flush", !.out = [idx |-> f.act, data |-> f.buf],
                                     !.act = Nil, !.buf = <<>>,
                                     !.op.next = [idx |-> idx, buf |-> buf]])
           \/ /\ MayFail(f, idx)
              /\ Become(h, Fail(f))
        /\ UNCHANGED <<tables, chunk, text, unchangedByHandle>>

(* putSlice, an all-zero slice: it becomes a hole (dropSlice).             *)
DropSlice(h) ==
    /\ fh[h].pc = "flush" /\ AllZero(fh[h].out.data)
    /\ LET g == [fh[h] EXCEPT !.new[fh[h].out.idx] = Nil] IN
       \/ /\ vchunk' = [vchunk EXCEPT ![<<g.ver, g.out.idx>>] = Nil]
          /\ Become(h, AfterPut(g))
       \/ Faults /\ Become(h, Fail(g)) /\ UNCHANGED vchunk
    /\ UNCHANGED <<inode, vrow, nextVer, chunk, text, unchangedByHandle>>

(* Mutant: a slice that has a chunk is stored in place.                    *)
StoreSlice_InPlace(h) ==
    /\ fh[h].pc = "flush" /\ ~AllZero(fh[h].out.data)
    /\ \E c \in Chunks :
        /\ c = Source(fh[h], fh[h].out.idx)
           \/ (Source(fh[h], fh[h].out.idx) = Nil /\ chunk[c] = Nil)
        /\ chunk' = [chunk EXCEPT ![c] = fh[h].out.data]
        /\ Become(h, [fh[h] EXCEPT !.pc = "store", !.got = c])
    /\ UNCHANGED <<tables, text, unchangedByHandle>>

(* putSlice, any other slice: AddChunks stores it ...                      *)
StoreSlice(h) ==
    /\ fh[h].pc = "flush" /\ ~AllZero(fh[h].out.data)
    /\ \/ \E c \in Chunks :
            /\ chunk[c] = Nil
            /\ chunk' = [chunk EXCEPT ![c] = fh[h].out.data]
            /\ Become(h, [fh[h] EXCEPT !.pc = "store", !.got = c])
       \/ Faults /\ Become(h, Fail(fh[h])) /\ UNCHANGED chunk
    /\ UNCHANGED <<tables, text, unchangedByHandle>>

(* ... and its row is upserted.                                            *)
PutRow(h) ==
    /\ fh[h].pc = "store"
    /\ \/ /\ vchunk' = [vchunk EXCEPT ![<<fh[h].ver, fh[h].out.idx>>] = fh[h].got]
          /\ Become(h, AfterPut([fh[h] EXCEPT !.new[fh[h].out.idx] = fh[h].got]))
       \/ Faults /\ Become(h, Fail(fh[h])) /\ UNCHANGED vchunk
    /\ UNCHANGED <<inode, vrow, nextVer, chunk, text, unchangedByHandle>>

(* truncateTo: the slices past the new end go, from memory and from the    *)
(* table; a slice it cuts through is trimmed next unless it is active.     *)
Truncate(h, n) ==
    LET f     == fh[h]
        kept  == (n + SliceSize - 1) \div SliceSize
        intra == n % SliceSize
        edge  == n \div SliceSize
        g     == [f EXCEPT !.op  = [kind |-> "cut", size |-> n], !.calls = @ + 1,
                           !.act = IF @ # Nil /\ @ >= kept THEN Nil ELSE @,
                           !.buf = IF f.act = Nil \/ f.act >= kept THEN <<>>
                                   ELSE IF intra # 0 /\ f.act = edge /\ intra < Len(@)
                                   THEN SubSeq(@, 1, intra) ELSE @,
                           !.new = [i \in Idx |-> IF i >= kept THEN Nil ELSE @[i]]]
    IN  /\ f.pc = "ready" /\ f.writable /\ n # f.size /\ f.calls < MaxCalls
        /\ n < f.size /\ intra # 0 => MayTouch(f, edge, edge)
        /\ \/ /\ n < f.size
              /\ vchunk' = [x \in Version \X Idx |->
                                IF x[1] = f.ver /\ x[2] >= kept THEN Nil ELSE vchunk[x]]
              /\ Become(h, IF intra # 0 /\ g.act # edge THEN [g EXCEPT !.pc = "cut"]
                           ELSE AfterCut(g))
           \/ /\ n < f.size /\ Faults
              /\ Become(h, Fail(g)) /\ UNCHANGED vchunk
           \/ /\ n > f.size
              /\ Become(h, AfterCut([f EXCEPT !.op = g.op, !.calls = g.calls])) /\ UNCHANGED vchunk
        /\ UNCHANGED <<inode, vrow, nextVer, chunk, text, unchangedByHandle>>

(* Mutant: the slice the new end falls into keeps its tail.                *)
TrimSlice_KeepTail(h) ==
    /\ fh[h].pc = "cut"
    /\ Become(h, AfterCut(fh[h]))
    /\ UNCHANGED <<tables, chunk, text, unchangedByHandle>>

(* trimSlice: the slice the new end falls into is read and stored again    *)
(* without its tail, unless it is shorter anyway.                          *)
TrimSlice(h) ==
    LET f     == fh[h]
        edge  == f.op.size \div SliceSize
        intra == f.op.size % SliceSize
    IN  /\ f.pc = "cut"
        /\ \/ /\ Readable(f, edge) /\ Len(Plain(f, edge)) <= intra
              /\ Become(h, AfterCut(f))
           \/ /\ Readable(f, edge) /\ Len(Plain(f, edge)) > intra
              /\ Become(h, [f EXCEPT !.pc = "flush",
                               !.out = [idx |-> edge, data |-> SubSeq(Plain(f, edge), 1, intra)]])
           \/ /\ MayFail(f, edge)
              /\ Become(h, Fail(f))
        /\ UNCHANGED <<tables, chunk, text, unchangedByHandle>>

(* Sync and Close flush the active slice first.                            *)
FlushActive(h, kind) ==
    LET f == fh[h]
        g == [f EXCEPT !.op = [kind |-> kind], !.calls = IF kind = "sync" THEN @ + 1 ELSE @]
    IN  /\ f.pc = "ready" /\ f.writable /\ (kind = "sync" => f.calls < MaxCalls)
        /\ IF f.act = Nil
           THEN kind = "close" /\ Become(h, [g EXCEPT !.pc = ClosePc(f)])
           ELSE Become(h, [g EXCEPT !.pc = "flush", !.out = [idx |-> f.act, data |-> f.buf],
                                    !.act = Nil, !.buf = <<>>])
        /\ UNCHANGED <<tables, chunk, text, unchangedByHandle>>

CloseReader(h) ==
    /\ fh[h].pc = "ready" /\ ~fh[h].writable
    /\ Become(h, Closed)
    /\ UNCHANGED <<tables, chunk, text, unchangedByHandle>>

(* What a commit owes to later readers: what the user wrote; after a       *)
(* failed call, what has been stored, whatever that is.                    *)
Promised(f) == [sure |-> f.sure,
                bytes |-> IF f.sure THEN f.view ELSE Flat(Contents(RowsOf(f.ver)), f.size)]

(* Close, one transaction: the size of the version and the switch of the   *)
(* inode.  An UPDATE of a row that is gone changes nothing.                *)
Commit(h) ==
    LET f == fh[h] IN
    /\ f.pc = "commit"
    /\ \/ /\ vrow' = [vrow EXCEPT ![f.ver] = IF @ = Nil THEN Nil ELSE [@ EXCEPT !.size = f.size]]
          /\ inode' = [inode EXCEPT ![f.inode].ver = IF inode[f.inode].state = "gone" THEN @
                                                     ELSE f.ver]
          /\ text' = [text EXCEPT ![f.ver] = Promised(f)]
       \/ Faults /\ UNCHANGED <<vrow, inode, text>>
    /\ Become(h, Closed)
    /\ UNCHANGED <<vchunk, nextVer, chunk, unchangedByHandle>>

(* discardNewVersion: nothing was written, the version row goes.           *)
Discard(h) ==
    /\ fh[h].pc = "discard"
    /\ vrow' = [vrow EXCEPT ![fh[h].ver] = Nil] \/ (Faults /\ UNCHANGED vrow)
    /\ Become(h, Closed)
    /\ UNCHANGED <<inode, vchunk, nextVer, chunk, text, unchangedByHandle>>

HandleStep(h) ==
    \/ LoadVersion(h) \/ LoadRows(h) \/ NewVersion(h) \/ InheritRows(h) \/ FailOpen(h)
    \/ WriteSlice(h) \/ DropSlice(h) \/ StoreSlice(h) \/ PutRow(h) \/ TrimSlice(h)
    \/ Commit(h) \/ Discard(h)

HandleCall(h) ==
    \/ \E i \in Inodes, write \in BOOLEAN : Open(h, i, write)
    \/ \E off \in 0..(MaxSize - 1), p \in Payloads : WriteAt(h, off, p)
    \/ \E n \in 0..MaxSize : Truncate(h, n)
    \/ \E kind \in {"sync", "close"} : FlushActive(h, kind)
    \/ CloseReader(h)
=============================================================================
