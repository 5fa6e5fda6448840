------------------------------ MODULE FileSafety -------------------------------
(***************************************************************************)
(* What the file layer promises, for every slice size, file size and       *)
(* number of handles: a committed version keeps its bytes, a handle reads  *)
(* what its user has written, and a file points at a version that exists.  *)
(***************************************************************************)
EXTENDS FileProofs

(* Which versions there are, and who may rely on them.                     *)
Held(v) == text[v] # Nil /\ vrow[v] # Nil
Unborn == \A v \in Version : v >= nextVer =>
              vrow[v] = Nil /\ text[v] = Nil /\ \A i \in Idx : vchunk[v, i] = Nil
Rowed == \A v \in Version : text[v] # Nil => vrow[v] # Nil
CurrentHeld == \A n \in Inodes : inode[n].state # "gone" /\ inode[n].ver # 0 =>
                   Held(inode[n].ver) /\ vrow[inode[n].ver].inode = n
RestoringHeld == \A r \in restoring : Held(r[1]) /\ vrow[r[1]].inode = r[2]
HandleHeld(h) == fh[h].pc # "closed" =>
    /\ inode[fh[h].inode].state # "gone"
    /\ fh[h].base # 0 => Held(fh[h].base) /\ vrow[fh[h].base].inode = fh[h].inode
    /\ fh[h].ver # 0 =>
        /\ text[fh[h].ver] = Nil /\ vrow[fh[h].ver] # Nil /\ vrow[fh[h].ver].inode = fh[h].inode
        /\ \A g \in Handles : g # h => fh[g].ver # fh[h].ver
VersionInv == Unborn /\ Rowed /\ CurrentHeld /\ RestoringHeld /\ \A h \in Handles : HandleHeld(h)

(* Whose chunks are whose.                                                 *)
Backed == \A v \in Version, i \in Idx : vchunk[v, i] # Nil => chunk[vchunk[v, i]] # Nil
Storing(h) == fh[h].pc = "store" =>
    /\ chunk[fh[h].got] = fh[h].out.data
    /\ \A v \in Version, i \in Idx : vchunk[v, i] # fh[h].got
    /\ \A g \in Handles : g # h => fh[g].got # fh[h].got
Snapshot(h) == fh[h].pc \in Loaded => fh[h].old = IF fh[h].base = 0 THEN NoRows ELSE RowsOf(fh[h].base)
Written(h) ==
    /\ \A i \in Idx : fh[h].new[i] # Nil => fh[h].ver # 0 /\ fh[h].new[i] = vchunk[fh[h].ver, i]
    /\ fh[h].sure /\ fh[h].ver # 0 => \A i \in Idx : fh[h].new[i] = vchunk[fh[h].ver, i]
ChunkInv == Backed /\ \A h \in Handles : Storing(h) /\ Snapshot(h) /\ Written(h)

(* What a slice is about to hold, and which byte of the file is due.       *)
Slice(c) == IF c = Nil THEN <<>> ELSE chunk[c]
Holding(f, i) ==
    IF f.pc \in Putting /\ f.out.idx = i THEN f.out.data
    ELSE IF f.pc \in Putting /\ f.op.kind = "write" /\ f.op.next.idx = i THEN f.op.next.buf
    ELSE IF f.act = i THEN f.buf ELSE Slice(f.new[i])
Due(f, k) ==
    IF f.pc \in {"write"} \cup Putting /\ f.op.kind = "write"
       /\ f.op.off <= k /\ k < f.op.off + Done(f) THEN f.op.data[k - f.op.off + 1]
    ELSE IF f.pc \in {"cut"} \cup Putting /\ f.op.kind = "cut" /\ k >= f.op.size THEN 0
    ELSE Byte(f.view, k)

(* A slice that the rest of a write will find as the user has left it.     *)
Kept(f, i) == f.old[i] = Nil \/
              IF f.pc \in Putting /\ f.out.idx = i THEN ~AllZero(f.out.data)
              ELSE f.act = i \/ f.new[i] # Nil
Ahead(f) ==
    /\ f.pc \in {"write"} \cup Putting /\ f.op.kind = "write" /\ f.op.rest # <<>> =>
        \A i \in First(f)..Last(f) :
            Kept(f, i) /\ (f.pc = "write" /\ i # First(f) => ~WillDrop(f, i))
    /\ f.pc = "cut" => Kept(f, Edge(f))

LoadReads(f) == f.pc \in {"stat", "base"} =>
    IF f.base = 0 THEN f.view = <<>> ELSE text[f.base].sure /\ f.view = text[f.base].bytes
SizeReads(f) == f.pc # "stat" => f.size = Len(f.view)
SnapReads(f) == f.pc \in {"snapshot", "born"} \/ (f.pc = "ready" /\ ~f.writable) =>
    \A i \in Idx, r \in Offsets : Byte(Slice(f.old[i]), r) = Byte(f.view, i * SliceSize + r)
OwnReads(f) == f.pc \in {"ready"} \cup Busy /\ f.writable =>
    \A i \in Idx, r \in Offsets :
        (f.pc = "cut" /\ i = Edge(f) /\ r >= f.op.size % SliceSize) \/
        Byte(Holding(f, i), r) = Due(f, i * SliceSize + r)
HandleReads(f) == LoadReads(f) /\ SizeReads(f) /\ SnapReads(f) /\ OwnReads(f) /\ Ahead(f)
ReadInv == \A h \in Handles : fh[h].pc # "closed" /\ fh[h].sure => HandleReads(fh[h])

(* What a committed version holds; past its end too, if all went well.     *)
TextHolds(v) == text[v] # Nil =>
    /\ vrow[v].size = Len(text[v].bytes)
    /\ \A i \in Idx, r \in Offsets :
        text[v].sure \/ i * SliceSize + r < vrow[v].size =>
            Byte(Slice(vchunk[v, i]), r) = Byte(text[v].bytes, i * SliceSize + r)
TextInv == \A v \in Version : TextHolds(v)
-----------------------------------------------------------------------------
(* The file a handle has open, and the version it writes.                  *)
SameUse(f, x) == x.inode = f.inode /\ x.base = f.base /\ x.ver = f.ver /\ x.writable = f.writable

LEMMA ClosedFields ==
    ASSUME NEW x, Fits(x), x.pc = "closed"
    PROVE  x.ver = 0 /\ x.base = 0 /\ x.new = NoRows /\ x.got = Nil
<1>1. x = Closed
  BY DEF Fits, HandleShape
<1> QED
  BY <1>1 DEF Closed

LEMMA StepUse ==
    ASSUME Typed, NEW h \in Handles, Quiet(h) \/ Mapping(h) \/ StoreSlice(h)
    PROVE  /\ fh[h].pc # "closed" /\ \A g \in Handles : g # h => fh'[g] = fh[g]
           /\ Fits(fh'[h]) /\ (fh'[h].pc # "closed" => SameUse(fh[h], fh'[h]))
<1> DEFINE G == /\ fh[h].pc # "closed" /\ \A g \in Handles : g # h => fh'[g] = fh[g]
                /\ Fits(fh'[h]) /\ (fh'[h].pc # "closed" => SameUse(fh[h], fh'[h]))
<1> USE DEF SameUse, SameFile
<1>0. Closed.pc = "closed"
  BY DEF Closed
<1>1. LoadVersion(h) => G
  BY LoadVersionMoves
<1>2. LoadRows(h) => G
  BY LoadRowsMoves
<1>3. InheritRows(h) => G
  BY InheritRowsMoves
<1>4. FailOpen(h) \/ CloseReader(h) => G
  BY <1>0, CloseMoves
<1>5. ASSUME NEW off \in 0..(MaxSize - 1), NEW p \in Payloads, WriteAt(h, off, p) PROVE G
  BY <1>5, WriteAtMoves
<1>6. WriteSlice(h) => G
  BY <1>0, WriteSliceMoves DEF Taken, Turned, Failed
<1>7. DropSlice(h) => G
  BY <1>0, DropSliceMoves DEF Put, DropFailed
<1>8. StoreSlice(h) => G
  BY <1>0, StoreSliceMoves DEF Stored, Failed
<1>9. PutRow(h) => G
  BY <1>0, PutRowMoves DEF Put, Failed
<1>10. ASSUME NEW n \in 0..MaxSize, Truncate(h, n) PROVE G
  BY <1>10, TruncateMoves DEF Cut, Plainly
<1>11. TrimSlice(h) => G
  BY <1>0, TrimSliceMoves DEF Plainly, Failed
<1>12. ASSUME NEW kind \in {"sync", "close"}, FlushActive(h, kind) PROVE G
  BY <1>12, FlushActiveMoves
<1> HIDE DEF G
<1>13. G
  BY <1>1, <1>2, <1>3, <1>4, <1>5, <1>6, <1>7, <1>8, <1>9, <1>10, <1>11, <1>12 DEF Quiet, Mapping
<1> QED
  BY <1>13 DEF G

(* A handle maps slices of the version it writes, of no other.             *)
LEMMA MappingRows ==
    ASSUME Typed, NEW h \in Handles, Mapping(h)
    PROVE  /\ fh[h].ver \in Version
           /\ \A v \in Version, i \in Idx : v # fh[h].ver => vchunk'[v, i] = vchunk[v, i]
<1> DEFINE w == fh[h].ver
           G == w \in Version /\ \A v \in Version, i \in Idx : v # w => vchunk'[v, i] = vchunk[v, i]
<1>1. vchunk \in [Version \X Idx -> Chunks \cup {Nil}] /\ fh[h] \in Handle /\ HandleShape(fh[h])
  BY HandleFits DEF Typed, Fits
<1>2. fh[h].ver # 0 => w \in Version
  <2>1. fh[h].ver \in 0..MaxVersion
    BY <1>1 DEF Handle
  <2> QED
    BY <2>1, SizeFacts DEF Version
<1>3. InheritRows(h) => G
  <2> SUFFICES ASSUME InheritRows(h) PROVE G
    OBVIOUS
  <2>1. w \in Version
    BY InheritRowsMoves
  <2>2. vchunk' = [x \in Version \X Idx |-> IF x[1] = w THEN fh[h].old[x[2]] ELSE vchunk[x]]
    BY DEF InheritRows
  <2> HIDE DEF w
  <2>3. \A v \in Version, i \in Idx : v # w => vchunk'[v, i] = vchunk[v, i]
    BY <2>2
  <2> QED
    BY <2>1, <2>3
<1>4. ASSUME NEW j \in Idx, NEW c, w \in Version, vchunk' = [vchunk EXCEPT ![<<w, j>>] = c]
      PROVE  \A v \in Version, i \in Idx : v # w => vchunk'[v, i] = vchunk[v, i]
  <2> HIDE DEF w
  <2> QED
    BY <1>1, <1>4
<1>5. DropSlice(h) => G
  <2> SUFFICES ASSUME DropSlice(h) PROVE G
    OBVIOUS
  <2>1. fh[h].ver # 0 /\ fh[h].out.idx \in Idx
    BY <1>1, DropSliceMoves, WorkingFacts DEF Fits, Working, Putting
  <2>2. vchunk' = [vchunk EXCEPT ![<<w, fh[h].out.idx>>] = Nil] \/ vchunk' = vchunk
    BY DropSliceMoves
  <2> QED
    BY <1>2, <1>4, <2>1, <2>2
<1>6. PutRow(h) => G
  <2> SUFFICES ASSUME PutRow(h) PROVE G
    OBVIOUS
  <2>1. fh[h].ver # 0 /\ fh[h].out.idx \in Idx
    BY <1>1, PutRowMoves, WorkingFacts DEF Fits, Working, Putting
  <2>2. vchunk' = [vchunk EXCEPT ![<<w, fh[h].out.idx>>] = fh[h].got] \/ vchunk' = vchunk
    BY PutRowMoves
  <2> QED
    BY <1>2, <1>4, <2>1, <2>2
<1>7. ASSUME NEW n \in 0..MaxSize, Truncate(h, n) PROVE G
  <2>1. fh[h].pc = "ready" /\ fh[h].writable
    BY <1>7, TruncateMoves
  <2>2. w \in Version
    BY <1>1, <1>2, <2>1 DEF HandleShape
  <2>3. \/ vchunk' = [x \in Version \X Idx |-> IF x[1] = w /\ x[2] >= Slices(n) THEN Nil ELSE vchunk[x]]
        \/ vchunk' = vchunk
    BY <1>7, TruncateMoves
  <2> HIDE DEF w
  <2>4. \A v \in Version, i \in Idx : v # w => vchunk'[v, i] = vchunk[v, i]
    BY <2>3
  <2> QED
    BY <2>2, <2>4
<1> HIDE DEF G
<1>8. G
  BY <1>3, <1>5, <1>6, <1>7 DEF Mapping
<1> QED
  BY <1>8 DEF G

(* The steps that leave the version rows as they are.                      *)
LEMMA VersionsStay ==
    ASSUME Typed, VersionInv, NEW h \in Handles, Quiet(h) \/ Mapping(h) \/ StoreSlice(h)
    PROVE  VersionInv'
<1>1. /\ inode' = inode /\ vrow' = vrow /\ nextVer' = nextVer /\ text' = text /\ restoring' = restoring
  BY QuietFrame, MappingFrame, OtherFrames DEF SameTables, SameRest
<1>2. /\ fh[h].pc # "closed" /\ \A g \in Handles : g # h => fh'[g] = fh[g]
      /\ Fits(fh'[h]) /\ (fh'[h].pc # "closed" => SameUse(fh[h], fh'[h]))
  BY StepUse
<1>3. HandleHeld(h)
  BY DEF VersionInv
<1>4. ~Mapping(h) => vchunk' = vchunk
  BY QuietFrame, OtherFrames DEF SameTables, SameRest
<1>5. Unborn'
  <2>1. SUFFICES ASSUME NEW v \in Version, v >= nextVer
                 PROVE  vrow[v] = Nil /\ text[v] = Nil /\ \A i \in Idx : vchunk'[v, i] = Nil
    BY <1>1 DEF Unborn
  <2>2. vrow[v] = Nil /\ text[v] = Nil /\ \A i \in Idx : vchunk[v, i] = Nil
    BY <2>1 DEF VersionInv, Unborn
  <2>0. 0 \notin Version
    BY DEF Version
  <2>3. Mapping(h) => fh[h].ver \in Version /\ fh[h].ver # 0
    BY <2>0, MappingRows
  <2>4. Mapping(h) => v # fh[h].ver
    BY <1>2, <1>3, <2>2, <2>3 DEF HandleHeld
  <2> QED
    BY <1>4, <2>2, <2>4, MappingRows
<1>6. Rowed' /\ CurrentHeld' /\ RestoringHeld'
  BY <1>1 DEF VersionInv, Rowed, CurrentHeld, RestoringHeld, Held
<1>7. ASSUME NEW k \in Handles PROVE HandleHeld(k)'
  <2>1. fh'[h].pc = "closed" => fh'[h].ver = 0
    BY <1>2, ClosedFields
  <2>2. HandleHeld(k)
    BY DEF VersionInv
  <2>3. k # h => HandleHeld(k)'
    BY <1>1, <1>2, <2>1, <2>2 DEF HandleHeld, SameUse, Held
  <2>4. k = h => HandleHeld(k)'
    BY <1>1, <1>2, <2>2 DEF HandleHeld, SameUse, Held
  <2> QED
    BY <2>3, <2>4
<1> QED
  BY <1>5, <1>6, <1>7 DEF VersionInv

LEMMA VersionsOpen ==
    ASSUME Typed, VersionInv, NEW h \in Handles, NEW i \in Inodes, NEW w \in BOOLEAN, Open(h, i, w)
    PROVE  VersionInv'
<1>1. vrow' = vrow /\ vchunk' = vchunk /\ nextVer' = nextVer /\ text' = text /\ restoring' = restoring
  BY OtherFrames DEF SameRest
<1>2. /\ inode[i].state \in {"live", "absent"} /\ \A g \in Handles : g # h => fh'[g] = fh[g]
      /\ \A j \in Inodes : inode'[j].state # "gone" <=> inode[j].state # "gone"
      /\ \A j \in Inodes : inode'[j].ver = inode[j].ver
      /\ fh'[h].pc = "stat" /\ fh'[h].inode = i /\ fh'[h].base = inode[i].ver /\ fh'[h].ver = 0
  BY OpenMoves
<1>3. Unborn' /\ Rowed' /\ RestoringHeld'
  BY <1>1 DEF VersionInv, Unborn, Rowed, RestoringHeld, Held
<1>4. CurrentHeld'
  BY <1>1, <1>2 DEF VersionInv, CurrentHeld, Held
<1>5. ASSUME NEW k \in Handles PROVE HandleHeld(k)'
  <2>1. HandleHeld(k) /\ CurrentHeld
    BY DEF VersionInv
  <2>2. k = h => HandleHeld(k)'
    BY <1>1, <1>2, <2>1 DEF HandleHeld, CurrentHeld, Held
  <2>3. fh[k].pc # "closed" => fh[k].inode \in Inodes
    BY HandleFits DEF Fits, HandleShape
  <2>4. k # h => HandleHeld(k)'
    BY <1>1, <1>2, <2>1, <2>3 DEF HandleHeld, Held
  <2> QED
    BY <2>2, <2>4
<1> QED
  BY <1>3, <1>4, <1>5 DEF VersionInv

LEMMA Numbers ==
    ASSUME Typed
    PROVE  /\ 0 \notin Version
           /\ \A n \in Inodes : inode[n].ver # 0 => inode[n].ver \in Version
           /\ \A h \in Handles : /\ fh[h].base # 0 => fh[h].base \in Version
                                 /\ fh[h].ver # 0 => fh[h].ver \in Version
                                 /\ fh[h].pc # "closed" => fh[h].inode \in Inodes
                                 /\ fh[h].pc = "closed" => fh[h].ver = 0 /\ fh[h].base = 0 /\ fh[h].got = Nil
<1>1. 0 \notin Version /\ \A v \in 0..MaxVersion : v # 0 => v \in Version
  BY SizeFacts DEF Version
<1>2. \A n \in Inodes : inode[n].ver \in 0..MaxVersion
  BY DEF Typed
<1>3. ASSUME NEW h \in Handles
      PROVE  /\ fh[h].base \in 0..MaxVersion /\ fh[h].ver \in 0..MaxVersion
             /\ fh[h].pc # "closed" => fh[h].inode \in Inodes
             /\ fh[h].pc = "closed" => fh[h].ver = 0 /\ fh[h].base = 0 /\ fh[h].got = Nil
  <2>1. Fits(fh[h])
    BY HandleFits
  <2> QED
    BY <2>1, ClosedFields DEF Fits, Handle, HandleShape
<1> QED
  BY <1>1, <1>2, <1>3

LEMMA VersionsNew ==
    ASSUME Typed, VersionInv, NEW h \in Handles, NewVersion(h)
    PROVE  VersionInv'
<1>1. inode' = inode /\ vchunk' = vchunk /\ text' = text /\ restoring' = restoring
  BY OtherFrames DEF SameRest
<1>2. /\ \A g \in Handles : g # h => fh'[g] = fh[g]
      /\ fh[h].pc = "snapshot" /\ fh[h].inode \in Inodes /\ nextVer \in Version /\ nextVer' = nextVer + 1
      /\ vrow' = [vrow EXCEPT ![nextVer] = [inode |-> fh[h].inode, size |-> fh[h].size]]
      /\ fh'[h].inode = fh[h].inode /\ fh'[h].base = fh[h].base /\ fh'[h].ver = nextVer
  BY NewVersionMoves
<1>3. fh[h].size \in Nat
  <2>1. fh[h].size \in 0..MaxSize
    BY HandleFits DEF Fits, Handle
  <2> QED
    BY <2>1, SizeFacts
<1> DEFINE row == [inode |-> fh[h].inode, size |-> fh[h].size]
<1>4. row # Nil /\ row.inode = fh[h].inode
  BY <1>2, <1>3, FileAssumption
<1>5. \A v \in Version : vrow'[v] = IF v = nextVer THEN row ELSE vrow[v]
  BY <1>2 DEF Typed
<1> HIDE DEF row
<1>6. vrow[nextVer] = Nil /\ text[nextVer] = Nil
  <2>1. nextVer >= nextVer
    BY <1>2 DEF Version
  <2> QED
    BY <1>2, <2>1 DEF VersionInv, Unborn
<1>7. Unborn'
  <2>1. ASSUME NEW v \in Version, v >= nextVer' PROVE v >= nextVer /\ v # nextVer
    BY <1>2, <2>1 DEF Version
  <2> QED
    BY <1>1, <1>5, <2>1 DEF VersionInv, Unborn
<1>8. Rowed'
  BY <1>1, <1>5, <1>6 DEF VersionInv, Rowed
<1>9. CurrentHeld'
  BY <1>1, <1>5, <1>6, Numbers DEF VersionInv, CurrentHeld, Held
<1>10. RestoringHeld'
  <2>1. \A r \in restoring : r[1] \in Version
    BY DEF Typed
  <2> QED
    BY <1>1, <1>5, <1>6, <2>1 DEF VersionInv, RestoringHeld, Held
<1>11. ASSUME NEW k \in Handles PROVE HandleHeld(k)'
  <2>0. /\ fh[k].base # 0 => fh[k].base \in Version
        /\ fh[k].ver # 0 => fh[k].ver \in Version
        /\ fh[h].base # 0 => fh[h].base \in Version
        /\ 0 # nextVer
    BY <1>2, Numbers
  <2>1. HandleHeld(k) /\ HandleHeld(h)
    BY DEF VersionInv
  <2>2. \A g \in Handles : fh[g].ver # nextVer
    <3>1. ASSUME NEW g \in Handles, fh[g].ver = nextVer PROVE FALSE
      <4>1. HandleHeld(g)
        BY DEF VersionInv
      <4> QED
        BY <2>0, <3>1, <4>1, <1>6, Numbers DEF HandleHeld
    <3> QED
      BY <3>1
  <2>3. k = h => HandleHeld(k)'
    BY <1>1, <1>2, <1>4, <1>5, <1>6, <2>0, <2>1, <2>2 DEF HandleHeld, Held
  <2>4. k # h => HandleHeld(k)'
    BY <1>1, <1>2, <1>5, <1>6, <2>0, <2>1, <2>2 DEF HandleHeld, Held
  <2> QED
    BY <2>3, <2>4
<1> QED
  BY <1>7, <1>8, <1>9, <1>10, <1>11 DEF VersionInv

LEMMA VersionsCommit ==
    ASSUME Typed, VersionInv, NEW h \in Handles, Commit(h)
    PROVE  VersionInv'
<1>1. vchunk' = vchunk /\ nextVer' = nextVer /\ restoring' = restoring
  BY OtherFrames DEF SameRest
<1> DEFINE w == fh[h].ver
           n == fh[h].inode
<1>2. /\ fh'[h] = Closed /\ \A g \in Handles : g # h => fh'[g] = fh[g]
      /\ w \in Version /\ n \in Inodes /\ fh[h].pc # "closed"
  BY CloseMoves DEF Commit
<1>3. HandleHeld(h) /\ 0 \notin Version
  BY Numbers DEF VersionInv
<1>4. text[w] = Nil /\ vrow[w] # Nil /\ vrow[w].inode = n /\ inode[n].state # "gone"
      /\ \A g \in Handles : g # h => fh[g].ver # w
  BY <1>2, <1>3 DEF HandleHeld
<1>5. CASE vrow' = vrow /\ inode' = inode /\ text' = text
  <2>1. Closed.ver = 0 /\ Closed.pc = "closed"
    BY DEF Closed
  <2>2. ASSUME NEW k \in Handles PROVE HandleHeld(k)'
    <3>1. HandleHeld(k)
      BY DEF VersionInv
    <3> QED
      BY <1>2, <1>5, <2>1, <3>1 DEF HandleHeld, Held
  <2> QED
    BY <1>1, <1>5, <2>2 DEF VersionInv, Unborn, Rowed, CurrentHeld, RestoringHeld, Held
<1>6. CASE /\ vrow' = [vrow EXCEPT ![fh[h].ver] = IF @ = Nil THEN Nil ELSE [@ EXCEPT !.size = fh[h].size]]
           /\ inode' = [inode EXCEPT ![fh[h].inode].ver = IF inode[fh[h].inode].state = "gone" THEN @
                                                          ELSE fh[h].ver]
           /\ text' = [text EXCEPT ![fh[h].ver] = Promised(fh[h])]
  <2> DEFINE q == Promised(fh[h])
  <2>1. \A v \in Version : text'[v] = IF v = w THEN q ELSE text[v]
    BY <1>2, <1>6 DEF Typed
  <2>2. q # Nil
    <3>1. fh[h].size \in 0..MaxSize /\ fh[h].view \in Seq(Nat) /\ fh[h].sure \in BOOLEAN
      BY HandleFits DEF Fits, Handle
    <3>2. Flat(Contents(RowsOf(w)), fh[h].size) \in Seq(Nat)
      BY <1>2, <3>1, ContentsTyped, FlatBytes
    <3>3. q \in [bytes : Seq(Nat), sure : BOOLEAN]
      BY <3>1, <3>2 DEF Promised
    <3> QED
      BY <3>3, FileAssumption
  <2> HIDE DEF q
  <2>3. \A v \in Version : /\ vrow'[v] = Nil <=> vrow[v] = Nil
                           /\ vrow[v] # Nil => vrow'[v].inode = vrow[v].inode
    <3>1. vrow \in [Version -> [inode : Inodes, size : 0..MaxSize] \cup {Nil}] /\ fh[h].size \in 0..MaxSize
      BY HandleFits DEF Typed, Fits, Handle
    <3>2. \A s \in 0..MaxSize, i \in Inodes : Nil # [inode |-> i, size |-> s]
      BY SizeFacts, FileAssumption
    <3> DEFINE r == [vrow[w] EXCEPT !.size = fh[h].size]
    <3>3. r = [inode |-> vrow[w].inode, size |-> fh[h].size] /\ vrow[w].inode \in Inodes
      BY <1>2, <1>4, <3>1
    <3>4. r # Nil /\ r.inode = vrow[w].inode
      BY <3>1, <3>2, <3>3
    <3>5. vrow' = [vrow EXCEPT ![w] = r]
      BY <1>2, <1>4, <1>6, <3>1
    <3> HIDE DEF r, w
    <3> QED
      BY <1>2, <1>4, <3>1, <3>4, <3>5
  <2>4. \A i \in Inodes : inode'[i].state = inode[i].state
                          /\ inode'[i].ver = IF i = n THEN w ELSE inode[i].ver
    BY <1>2, <1>4, <1>6 DEF Typed
  <2> HIDE DEF w, n
  <2>5. Unborn'
    BY <1>1, <1>4, <2>1, <2>3 DEF VersionInv, Unborn
  <2>6. Rowed'
    BY <1>4, <2>1, <2>3 DEF VersionInv, Rowed
  <2>7. CurrentHeld'
    BY <1>2, <1>4, <2>1, <2>2, <2>3, <2>4, Numbers DEF VersionInv, CurrentHeld, Held
  <2>8. RestoringHeld'
    <3>1. \A r \in restoring : r[1] \in Version
      BY DEF Typed
    <3> QED
      BY <1>1, <1>4, <2>1, <2>3, <3>1 DEF VersionInv, RestoringHeld, Held
  <2>9. ASSUME NEW k \in Handles PROVE HandleHeld(k)'
    <3>0. Closed.ver = 0 /\ Closed.pc = "closed"
      BY DEF Closed
    <3>1. HandleHeld(k)
      BY DEF VersionInv
    <3>2. /\ fh[k].base # 0 => fh[k].base \in Version
          /\ fh[k].ver # 0 => fh[k].ver \in Version
          /\ fh[k].pc # "closed" => fh[k].inode \in Inodes
      BY Numbers
    <3>3. k = h => HandleHeld(k)'
      BY <1>2, <3>0 DEF HandleHeld
    <3>4. k # h => HandleHeld(k)'
      BY <1>2, <1>4, <2>1, <2>2, <2>3, <2>4, <3>0, <3>1, <3>2 DEF HandleHeld, Held
    <3> QED
      BY <3>3, <3>4
  <2> QED
    BY <2>5, <2>6, <2>7, <2>8, <2>9 DEF VersionInv
<1> QED
  BY <1>5, <1>6 DEF Commit

LEMMA VersionsDiscard ==
    ASSUME Typed, VersionInv, NEW h \in Handles, Discard(h)
    PROVE  VersionInv'
<1>1. inode' = inode /\ vchunk' = vchunk /\ nextVer' = nextVer /\ text' = text /\ restoring' = restoring
  BY OtherFrames DEF SameRest
<1> DEFINE w == fh[h].ver
<1>2. /\ fh'[h] = Closed /\ \A g \in Handles : g # h => fh'[g] = fh[g]
      /\ w \in Version /\ fh[h].pc # "closed"
  BY CloseMoves DEF Discard
<1>3. HandleHeld(h) /\ 0 \notin Version
  BY Numbers DEF VersionInv
<1>4. text[w] = Nil /\ \A g \in Handles : g # h => fh[g].ver # w
  BY <1>2, <1>3 DEF HandleHeld
<1>5. \A v \in Version : vrow'[v] = vrow[v] \/ (v = w /\ vrow'[v] = Nil)
  BY <1>2 DEF Discard, Typed
<1> HIDE DEF w
<1>6. Unborn' /\ Rowed'
  BY <1>1, <1>4, <1>5 DEF VersionInv, Unborn, Rowed
<1>7. CurrentHeld'
  BY <1>1, <1>4, <1>5, Numbers DEF VersionInv, CurrentHeld, Held
<1>8. RestoringHeld'
  <2>1. \A r \in restoring : r[1] \in Version
    BY DEF Typed
  <2> QED
    BY <1>1, <1>4, <1>5, <2>1 DEF VersionInv, RestoringHeld, Held
<1>9. ASSUME NEW k \in Handles PROVE HandleHeld(k)'
  <2>0. Closed.ver = 0 /\ Closed.pc = "closed"
    BY DEF Closed
  <2>1. HandleHeld(k)
    BY DEF VersionInv
  <2>2. /\ fh[k].base # 0 => fh[k].base \in Version
        /\ fh[k].ver # 0 => fh[k].ver \in Version
    BY Numbers
  <2>3. k = h => HandleHeld(k)'
    BY <1>2, <2>0 DEF HandleHeld
  <2>4. k # h => HandleHeld(k)'
    BY <1>1, <1>2, <1>3, <1>4, <1>5, <2>0, <2>1, <2>2 DEF HandleHeld, Held
  <2> QED
    BY <2>3, <2>4
<1> QED
  BY <1>6, <1>7, <1>8, <1>9 DEF VersionInv

(* What goes with the versions D, and what stays.                          *)
LEMMA DropFacts ==
    ASSUME Typed, NEW D \in SUBSET Version, DropVersions(D)
    PROVE  /\ \A v \in Version : /\ vrow'[v] = IF v \in D THEN Nil ELSE vrow[v]
                                 /\ text'[v] = IF v \in D THEN Nil ELSE text[v]
           /\ \A v \in Version, i \in Idx : vchunk'[v, i] = IF v \in D THEN Nil ELSE vchunk[v, i]
           /\ \A c \in Chunks : \/ chunk'[c] = chunk[c]
                                \/ /\ chunk'[c] = Nil /\ \E v \in D, i \in Idx : vchunk[v, i] = c
                                   /\ \A v \in Version, i \in Idx : v \notin D => vchunk[v, i] # c
<1>1. \A v \in Version : /\ vrow'[v] = IF v \in D THEN Nil ELSE vrow[v]
                         /\ text'[v] = IF v \in D THEN Nil ELSE text[v]
  BY DEF DropVersions
<1>2. \A v \in Version, i \in Idx : vchunk'[v, i] = IF v \in D THEN Nil ELSE vchunk[v, i]
  <2>1. vchunk' = [y \in Version \X Idx |-> IF y[1] \in D THEN Nil ELSE vchunk[y]]
    BY DEF DropVersions
  <2> QED
    BY <2>1
<1>3. ASSUME NEW c \in Chunks
      PROVE  \/ chunk'[c] = chunk[c]
             \/ /\ chunk'[c] = Nil /\ \E v \in D, i \in Idx : vchunk[v, i] = c
                /\ \A v \in Version, i \in Idx : v \notin D => vchunk[v, i] # c
  <2> DEFINE S == {b \in Chunks : /\ \E v \in D, x \in Idx : vchunk[v, x] = b
                                  /\ \A v \in Version \ D, x \in Idx : vchunk[v, x] # b}
  <2>1. chunk' = [b \in Chunks |-> IF b \in S THEN Nil ELSE chunk[b]]
    BY DEF DropVersions
  <2>2. c \in S => /\ \E v \in D, i \in Idx : vchunk[v, i] = c
                   /\ \A v \in Version, i \in Idx : v \notin D => vchunk[v, i] # c
    OBVIOUS
  <2> HIDE DEF S
  <2> QED
    BY <2>1, <2>2
<1> QED
  BY <1>1, <1>2, <1>3

LEMMA VersionsDrop ==
    ASSUME Typed, VersionInv, NEW D \in SUBSET Version, DropVersions(D),
           nextVer' = nextVer, fh' = fh, restoring' = restoring,
           \A n \in Inodes : inode'[n].state # "gone" =>
                inode[n].state # "gone" /\ inode'[n].ver = inode[n].ver /\ inode[n].ver \notin D,
           \A k \in Handles : fh[k].pc # "closed" =>
                inode'[fh[k].inode].state # "gone" /\ fh[k].base \notin D /\ fh[k].ver \notin D,
           \A r \in restoring : r[1] \notin D
    PROVE  VersionInv'
<1>1. /\ \A v \in Version : /\ vrow'[v] = IF v \in D THEN Nil ELSE vrow[v]
                            /\ text'[v] = IF v \in D THEN Nil ELSE text[v]
      /\ \A v \in Version, i \in Idx : vchunk'[v, i] = IF v \in D THEN Nil ELSE vchunk[v, i]
  BY DropFacts
<1>2. Unborn'
  BY <1>1 DEF VersionInv, Unborn
<1>3. Rowed'
  BY <1>1 DEF VersionInv, Rowed
<1>4. CurrentHeld'
  <2> SUFFICES ASSUME NEW n \in Inodes, inode'[n].state # "gone", inode'[n].ver # 0
               PROVE  /\ text'[inode'[n].ver] # Nil /\ vrow'[inode'[n].ver] # Nil
                      /\ vrow'[inode'[n].ver].inode = n
    BY DEF CurrentHeld, Held
  <2>1. inode'[n].ver = inode[n].ver /\ inode[n].ver \notin D /\ inode[n].state # "gone"
    OBVIOUS
  <2>2. Held(inode[n].ver) /\ vrow[inode[n].ver].inode = n /\ inode[n].ver \in Version
    BY <2>1, Numbers DEF VersionInv, CurrentHeld
  <2> QED
    BY <1>1, <2>1, <2>2 DEF Held
<1>5. RestoringHeld'
  <2>1. \A r \in restoring : r[1] \in Version
    BY DEF Typed
  <2> QED
    BY <1>1, <2>1 DEF VersionInv, RestoringHeld, Held
<1>6. ASSUME NEW k \in Handles PROVE HandleHeld(k)'
  <2>1. HandleHeld(k)
    BY DEF VersionInv
  <2>2. /\ fh[k].base # 0 => fh[k].base \in Version
        /\ fh[k].ver # 0 => fh[k].ver \in Version
        /\ fh[k].pc # "closed" => fh[k].inode \in Inodes
    BY Numbers
  <2> QED
    BY <1>1, <2>1, <2>2 DEF HandleHeld, Held
<1> QED
  BY <1>2, <1>3, <1>4, <1>5, <1>6 DEF VersionInv

(* Without the overlap "release", what a purge or a trim drops is in       *)
(* nobody's use.                                                           *)
LEMMA PurgeDrops ==
    ASSUME Typed, VersionInv, "release" \notin Overlaps, NEW i \in Inodes, purgeInode(i)
    PROVE  /\ VersionsOf(i) \in SUBSET Version
           /\ DropVersions(VersionsOf(i)) /\ nextVer' = nextVer /\ fh' = fh /\ restoring' = restoring
           /\ \A n \in Inodes : inode'[n].state # "gone" =>
                inode[n].state # "gone" /\ inode'[n].ver = inode[n].ver /\ inode[n].ver \notin VersionsOf(i)
           /\ \A k \in Handles : fh[k].pc # "closed" =>
                inode'[fh[k].inode].state # "gone" /\ fh[k].base \notin VersionsOf(i)
                /\ fh[k].ver \notin VersionsOf(i)
           /\ \A r \in restoring : r[1] \notin VersionsOf(i)
<1>1. /\ DropVersions(VersionsOf(i)) /\ nextVer' = nextVer /\ fh' = fh /\ restoring' = restoring
      /\ inode' = [inode EXCEPT ![i].state = "gone"]
      /\ \A k \in Handles : ~(fh[k].pc # "closed" /\ fh[k].inode = i)
      /\ \A r \in restoring : r[2] # i
  BY DEF purgeInode, Uses
<1>2. \A n \in Inodes : /\ n # i => inode'[n] = inode[n]
                        /\ inode'[i].state = "gone"
  BY <1>1 DEF Typed
<1>3. \A v : v \in VersionsOf(i) => v \in Version /\ v # 0 /\ vrow[v].inode = i
  BY Numbers DEF VersionsOf
<1>4. \A n \in Inodes : inode'[n].state # "gone" =>
          inode[n].state # "gone" /\ inode'[n].ver = inode[n].ver /\ inode[n].ver \notin VersionsOf(i)
  BY <1>2, <1>3 DEF VersionInv, CurrentHeld
<1>5. ASSUME NEW k \in Handles, fh[k].pc # "closed"
      PROVE  inode'[fh[k].inode].state # "gone" /\ fh[k].base \notin VersionsOf(i)
             /\ fh[k].ver \notin VersionsOf(i)
  <2>1. HandleHeld(k) /\ fh[k].inode \in Inodes /\ fh[k].inode # i
    BY <1>1, <1>5, Numbers DEF VersionInv
  <2> QED
    BY <1>2, <1>3, <1>5, <2>1 DEF HandleHeld
<1>6. \A r \in restoring : r[1] \notin VersionsOf(i)
  BY <1>1, <1>3 DEF VersionInv, RestoringHeld
<1> QED
  BY <1>1, <1>3, <1>4, <1>5, <1>6

LEMMA TrimDrops ==
    ASSUME Typed, VersionInv, "release" \notin Overlaps, NEW i \in Inodes, trimVersions(i),
           NEW D, D = VersionsOf(i) \ KeepSet(i)
    PROVE  /\ D \in SUBSET Version /\ DropVersions(D) /\ nextVer' = nextVer /\ fh' = fh /\ restoring' = restoring
           /\ \A n \in Inodes : inode'[n].state # "gone" =>
                inode[n].state # "gone" /\ inode'[n].ver = inode[n].ver /\ inode[n].ver \notin D
           /\ \A k \in Handles : fh[k].pc # "closed" =>
                inode'[fh[k].inode].state # "gone" /\ fh[k].base \notin D /\ fh[k].ver \notin D
           /\ \A r \in restoring : r[1] \notin D
<1>1. /\ DropVersions(D) /\ nextVer' = nextVer /\ fh' = fh /\ restoring' = restoring /\ inode' = inode
      /\ \A v \in D : ~InUse(v)
  BY DEF trimVersions
<1>2. \A v \in D : v \in Version /\ v # 0 /\ vrow[v].inode = i /\ v # inode[i].ver
  <2>1. inode[i].ver # 0 => inode[i].ver \in KeepSet(i)
    BY DEF KeepSet
  <2> QED
    BY <2>1, Numbers DEF VersionsOf
<1>3. \A n \in Inodes : inode'[n].state # "gone" =>
                inode[n].state # "gone" /\ inode'[n].ver = inode[n].ver /\ inode[n].ver \notin D
  BY <1>1, <1>2 DEF VersionInv, CurrentHeld
<1>4. ASSUME NEW k \in Handles, fh[k].pc # "closed"
      PROVE  inode'[fh[k].inode].state # "gone" /\ fh[k].base \notin D /\ fh[k].ver \notin D
  <2>1. HandleHeld(k)
    BY DEF VersionInv
  <2>2. \A v \in D : v \notin {fh[k].base, fh[k].ver}
    BY <1>1, <1>4 DEF InUse
  <2> QED
    BY <1>1, <1>4, <2>1, <2>2 DEF HandleHeld
<1>5. \A r \in restoring : r[1] \notin D
  BY <1>1 DEF InUse
<1> QED
  BY <1>1, <1>2, <1>3, <1>4, <1>5

LEMMA VersionsRetention ==
    ASSUME Typed, VersionInv, Retention, "release" \notin Overlaps, "draft" \notin Overlaps
    PROVE  VersionInv'
<1> USE DEF tables
<1>1. ASSUME NEW i \in Inodes, markDeleted(i) \/ Restore(i) PROVE VersionInv'
  <2>1. /\ vrow' = vrow /\ vchunk' = vchunk /\ nextVer' = nextVer /\ fh' = fh
        /\ restoring' = restoring /\ text' = text
    BY <1>1 DEF markDeleted, Restore
  <2>2. \A n \in Inodes : inode'[n].ver = inode[n].ver
                          /\ (inode'[n].state = "gone" <=> inode[n].state = "gone")
    BY <1>1 DEF Typed, markDeleted, Restore
  <2>3. \A k \in Handles : fh[k].pc # "closed" => fh[k].inode \in Inodes
    BY Numbers
  <2>4. \A k \in Handles : HandleHeld(k)'
    BY <2>1, <2>2, <2>3 DEF VersionInv, HandleHeld, Held
  <2> QED
    BY <2>1, <2>2, <2>4 DEF VersionInv, Unborn, Rowed, CurrentHeld, RestoringHeld, Held
<1>2. ASSUME NEW i \in Inodes, deletedInode(i) PROVE VersionInv'
  <2>1. /\ inode' = inode /\ vrow' = vrow /\ vchunk' = vchunk /\ nextVer' = nextVer /\ fh' = fh
        /\ restoring' = restoring /\ text' = text
    BY <1>2 DEF deletedInode
  <2> QED
    BY <2>1 DEF VersionInv, Unborn, Rowed, CurrentHeld, RestoringHeld, HandleHeld, Held
<1>3. ASSUME NEW i \in Inodes, purgeInode(i) PROVE VersionInv'
  BY <1>3, PurgeDrops, VersionsDrop
<1>4. ASSUME NEW i \in Inodes, trimVersions(i) PROVE VersionInv'
  BY <1>4, TrimDrops, VersionsDrop
<1>5. ASSUME NEW v \in Version, FindVersion(v) PROVE VersionInv'
  <2>1. /\ inode' = inode /\ vrow' = vrow /\ vchunk' = vchunk /\ nextVer' = nextVer /\ fh' = fh
        /\ text' = text
    BY <1>5 DEF FindVersion
  <2>2. restoring' = {<<v, vrow[v].inode>>} /\ text[v] # Nil /\ vrow[v] # Nil
    BY <1>5 DEF FindVersion
  <2>3. RestoringHeld'
    BY <2>1, <2>2 DEF RestoringHeld, Held
  <2> QED
    BY <2>1, <2>3 DEF VersionInv, Unborn, Rowed, CurrentHeld, HandleHeld, Held
<1>6. ASSUME NEW r \in restoring, RestoreVersion(r[1], r[2]) PROVE VersionInv'
  <2>1. /\ vrow' = vrow /\ vchunk' = vchunk /\ nextVer' = nextVer /\ fh' = fh /\ text' = text
        /\ restoring' \subseteq restoring
    BY <1>6 DEF RestoreVersion
  <2>2. r[2] \in Inodes /\ Held(r[1]) /\ vrow[r[1]].inode = r[2]
    BY DEF VersionInv, RestoringHeld, Typed
  <2>3. \A n \in Inodes : /\ inode'[n].state = inode[n].state
                          /\ inode'[n].ver = inode[n].ver \/ (n = r[2] /\ inode'[n].ver = r[1])
    BY <1>6, <2>2 DEF RestoreVersion, Typed
  <2>4. CurrentHeld'
    BY <2>1, <2>2, <2>3 DEF VersionInv, CurrentHeld, Held
  <2>5. \A k \in Handles : fh[k].pc # "closed" => fh[k].inode \in Inodes
    BY Numbers
  <2>6. \A k \in Handles : HandleHeld(k)'
    BY <2>1, <2>3, <2>5 DEF VersionInv, HandleHeld, Held
  <2> QED
    BY <2>1, <2>4, <2>6 DEF VersionInv, Unborn, Rowed, RestoringHeld, Held
<1>7. ASSUME NEW c \in Chunks, GarbageCollect(c) PROVE VersionInv'
  <2>1. /\ inode' = inode /\ vrow' = vrow /\ vchunk' = vchunk /\ nextVer' = nextVer /\ fh' = fh
        /\ restoring' = restoring /\ text' = text
    BY <1>7 DEF GarbageCollect
  <2> QED
    BY <2>1 DEF VersionInv, Unborn, Rowed, CurrentHeld, RestoringHeld, HandleHeld, Held
<1> QED
  BY <1>1, <1>2, <1>3, <1>4, <1>5, <1>6, <1>7 DEF Retention

LEMMA VersionStep ==
    ASSUME Typed, VersionInv, [Next]_vars, "release" \notin Overlaps, "draft" \notin Overlaps
    PROVE  VersionInv'
<1>1. ASSUME NEW h \in Handles, HandleCall(h) \/ HandleStep(h) PROVE VersionInv'
  BY <1>1, HandleActions, VersionsStay, VersionsOpen, VersionsNew, VersionsCommit, VersionsDiscard
<1>2. CASE Crash
  <2>1. /\ inode' = inode /\ vrow' = vrow /\ vchunk' = vchunk /\ nextVer' = nextVer /\ text' = text
        /\ restoring' = {} /\ fh' = [h \in Handles |-> Closed]
    BY <1>2 DEF Crash, tables
  <2>2. \A h \in Handles : HandleHeld(h)'
    BY <2>1 DEF HandleHeld, Closed
  <2> QED
    BY <2>1, <2>2 DEF VersionInv, Unborn, Rowed, CurrentHeld, RestoringHeld, Held
<1>3. CASE UNCHANGED vars
  BY <1>3 DEF vars, tables, VersionInv, Unborn, Rowed, CurrentHeld, RestoringHeld, HandleHeld, Held
<1> QED
  BY <1>1, <1>2, <1>3, NextCases, VersionsRetention

(* The version a file points at exists, as long as no trim and no purge    *)
(* meets a handle or a restore, and no restore picks a version that is     *)
(* still being written.                                                    *)
THEOREM CurrentVersionKept ==
    ASSUME "release" \notin Overlaps, "draft" \notin Overlaps
    PROVE  Spec => []CurrentKept
<1>1. Init => Typed /\ VersionInv
  <2> SUFFICES ASSUME Init PROVE Typed /\ VersionInv
    OBVIOUS
  <2>1. Typed
    BY TypedInit
  <2>2. VersionInv
    BY DEF Init, VersionInv, Unborn, Rowed, CurrentHeld, RestoringHeld, HandleHeld, Closed
  <2> QED
    BY <2>1, <2>2
<1>2. Typed /\ VersionInv /\ [Next]_vars => Typed' /\ VersionInv'
  BY TypedStep, VersionStep
<1>3. Typed /\ VersionInv => CurrentKept
  BY DEF VersionInv, CurrentHeld, CurrentKept, Held
<1> QED
  BY <1>1, <1>2, <1>3, PTL DEF Spec
-----------------------------------------------------------------------------
(* Chunks: what a step of a handle may do to the rows and to the pool.     *)
LEMMA RowsFrom ==
    ASSUME Typed, ChunkInv, NEW h \in Handles, Mapping(h),
           NEW v \in Version, NEW i \in Idx
    PROVE  \/ vchunk'[v, i] = Nil
           \/ \E u \in Version : vchunk'[v, i] = vchunk[u, i]
           \/ fh[h].pc = "store" /\ vchunk'[v, i] = fh[h].got
<1> DEFINE w == fh[h].ver
           G == \/ vchunk'[v, i] = Nil
                \/ \E u \in Version : vchunk'[v, i] = vchunk[u, i]
                \/ fh[h].pc = "store" /\ vchunk'[v, i] = fh[h].got
<1>1. vchunk \in [Version \X Idx -> Chunks \cup {Nil}] /\ Fits(fh[h]) /\ w \in Version
  BY HandleFits, MappingRows DEF Typed
<1>2. vchunk'[v, i] = vchunk[v, i] => G
  OBVIOUS
<1>3. InheritRows(h) => G
  <2> SUFFICES ASSUME InheritRows(h) PROVE G
    OBVIOUS
  <2>1. vchunk' = [x \in Version \X Idx |-> IF x[1] = w THEN fh[h].old[x[2]] ELSE vchunk[x]]
        /\ fh[h].pc = "born"
    BY DEF InheritRows
  <2>2. fh[h].old = IF fh[h].base = 0 THEN NoRows ELSE RowsOf(fh[h].base)
    BY <2>1 DEF ChunkInv, Snapshot, Loaded, Pc
  <2>3. fh[h].old[i] = Nil \/ \E u \in Version : fh[h].old[i] = vchunk[u, i]
    BY <2>2, Numbers DEF NoRows, RowsOf
  <2> HIDE DEF w
  <2>4. vchunk'[v, i] = IF v = w THEN fh[h].old[i] ELSE vchunk[v, i]
    BY <2>1
  <2> QED
    BY <2>3, <2>4
<1>4. ASSUME NEW j \in Idx, NEW c, vchunk' = [vchunk EXCEPT ![<<w, j>>] = c]
      PROVE  vchunk'[v, i] = vchunk[v, i] \/ vchunk'[v, i] = c
  <2> HIDE DEF w
  <2> QED
    BY <1>1, <1>4
<1>5. DropSlice(h) => G
  <2> SUFFICES ASSUME DropSlice(h) PROVE G
    OBVIOUS
  <2>1. fh[h].out.idx \in Idx
    BY <1>1, DropSliceMoves, WorkingFacts DEF Working, Putting
  <2>2. vchunk' = [vchunk EXCEPT ![<<w, fh[h].out.idx>>] = Nil] \/ vchunk' = vchunk
    BY DropSliceMoves
  <2> QED
    BY <1>4, <2>1, <2>2
<1>6. PutRow(h) => G
  <2> SUFFICES ASSUME PutRow(h) PROVE G
    OBVIOUS
  <2>1. fh[h].out.idx \in Idx /\ fh[h].pc = "store"
    BY <1>1, PutRowMoves, WorkingFacts DEF Working, Putting
  <2>2. vchunk' = [vchunk EXCEPT ![<<w, fh[h].out.idx>>] = fh[h].got] \/ vchunk' = vchunk
    BY PutRowMoves
  <2> QED
    BY <1>4, <2>1, <2>2
<1>7. ASSUME NEW n \in 0..MaxSize, Truncate(h, n) PROVE G
  <2>1. \/ vchunk' = [x \in Version \X Idx |-> IF x[1] = w /\ x[2] >= Slices(n) THEN Nil ELSE vchunk[x]]
        \/ vchunk' = vchunk
    BY <1>7, TruncateMoves
  <2> HIDE DEF w
  <2>2. vchunk'[v, i] = vchunk[v, i] \/ vchunk'[v, i] = Nil
    BY <2>1
  <2> QED
    BY <2>2
<1> HIDE DEF G
<1>8. G
  BY <1>3, <1>5, <1>6, <1>7 DEF Mapping
<1> QED
  BY <1>8 DEF G

LEMMA StoredChunk ==
    ASSUME Typed, ChunkInv, NEW h \in Handles, fh[h].pc = "store"
    PROVE  /\ fh[h].got \in Chunks /\ chunk[fh[h].got] = fh[h].out.data /\ fh[h].out.data # Nil
           /\ fh[h].got # Nil
<1>1. fh[h].got \in Chunks /\ fh[h].out.data \in Seq(Nat)
  BY HandleFits, WorkingFacts DEF Working, Putting
<1>2. chunk[fh[h].got] = fh[h].out.data
  BY DEF ChunkInv, Storing
<1> QED
  BY <1>1, <1>2, FileAssumption

LEMMA OnlyStores ==
    ASSUME Typed, NEW h \in Handles, HandleCall(h) \/ HandleStep(h), fh'[h].got # Nil
    PROVE  /\ fh[h].pc = "flush" /\ ~AllZero(fh[h].out.data)
           /\ \E c \in Chunks : /\ chunk[c] = Nil /\ chunk' = [chunk EXCEPT ![c] = fh[h].out.data]
                                /\ Stored(fh[h], fh'[h], c)
<1>1. Fits(fh'[h])
  BY HandleStepFits
<1>2. fh'[h].pc = "store"
  BY <1>1 DEF Fits, HandleShape
<1>0. Closed.got = Nil
  BY DEF Closed
<1> USE DEF SameFile
<1>3. ASSUME NEW i \in Inodes, NEW w \in BOOLEAN, Open(h, i, w) PROVE FALSE
  BY <1>2, <1>3, OpenMoves
<1>4. ~LoadVersion(h) /\ ~LoadRows(h) /\ ~NewVersion(h) /\ ~InheritRows(h)
  <2>1. ~LoadVersion(h)
    BY <1>2, LoadVersionMoves
  <2>2. ~LoadRows(h)
    BY <1>2, LoadRowsMoves
  <2>3. ~NewVersion(h)
    BY <1>2, NewVersionMoves
  <2>4. ~InheritRows(h)
    BY <1>2, InheritRowsMoves
  <2> QED
    BY <2>1, <2>2, <2>3, <2>4
<1>5. ~FailOpen(h) /\ ~CloseReader(h) /\ ~Commit(h) /\ ~Discard(h)
  BY <1>0, CloseMoves
<1>6. ASSUME NEW off \in 0..(MaxSize - 1), NEW p \in Payloads, WriteAt(h, off, p) PROVE FALSE
  BY <1>2, <1>6, WriteAtMoves
<1>7. ~WriteSlice(h)
  BY <1>0, WriteSliceMoves DEF Taken, Turned, Failed
<1>8. ~DropSlice(h)
  BY <1>0, DropSliceMoves DEF Put, DropFailed
<1>9. ~PutRow(h)
  BY <1>0, PutRowMoves DEF Put, Failed
<1>10. ASSUME NEW n \in 0..MaxSize, Truncate(h, n) PROVE FALSE
  BY <1>10, TruncateMoves DEF Cut, Plainly
<1>11. ~TrimSlice(h)
  BY <1>0, TrimSliceMoves DEF Plainly, Failed
<1>12. ASSUME NEW kind \in {"sync", "close"}, FlushActive(h, kind) PROVE FALSE
  BY <1>12, FlushActiveMoves
<1>13. StoreSlice(h)
  BY <1>3, <1>4, <1>5, <1>6, <1>7, <1>8, <1>9, <1>10, <1>11, <1>12 DEF HandleCall, HandleStep
<1>14. ~Failed(fh[h], fh'[h])
  BY <1>0 DEF Failed
<1> QED
  BY <1>13, <1>14, StoreSliceMoves

(* The frame of every step of a handle.                                    *)
LEMMA ChunkFrame ==
    ASSUME Typed, VersionInv, ChunkInv, NEW h \in Handles, HandleCall(h) \/ HandleStep(h)
    PROVE  /\ \A c \in Chunks : chunk[c] # Nil => chunk'[c] = chunk[c]
           /\ \A v \in Version, i \in Idx :
                /\ v # fh[h].ver => vchunk'[v, i] = vchunk[v, i]
                /\ \/ vchunk'[v, i] = Nil
                   \/ \E u \in Version : vchunk'[v, i] = vchunk[u, i]
                   \/ fh[h].pc = "store" /\ vchunk'[v, i] = fh[h].got
           /\ ~Mapping(h) => vchunk' = vchunk
           /\ \A g \in Handles : g # h => fh'[g] = fh[g]
           /\ fh'[h].got # Nil => chunk[fh'[h].got] = Nil
<1>1. ASSUME NEW c \in Chunks, chunk[c] # Nil PROVE chunk'[c] = chunk[c]
  <2>1. StoreSlice(h) => chunk'[c] = chunk[c]
    BY <1>1, StoreSliceMoves DEF Typed
  <2>2. ~StoreSlice(h) => chunk' = chunk
    BY HandleActions, QuietFrame, MappingFrame, OtherFrames DEF SameTables
  <2> QED
    BY <2>1, <2>2
<1>2. ~Mapping(h) => vchunk' = vchunk
  BY HandleActions, QuietFrame, OtherFrames DEF SameTables
<1>3. \A v \in Version, i \in Idx :
                /\ v # fh[h].ver => vchunk'[v, i] = vchunk[v, i]
                /\ \/ vchunk'[v, i] = Nil
                   \/ \E u \in Version : vchunk'[v, i] = vchunk[u, i]
                   \/ fh[h].pc = "store" /\ vchunk'[v, i] = fh[h].got
  BY <1>2, MappingRows, RowsFrom
<1>4. \A g \in Handles : g # h => fh'[g] = fh[g]
  BY HandleStepFits
<1>5. fh'[h].got # Nil => chunk[fh'[h].got] = Nil
  BY OnlyStores DEF Stored
<1> QED
  BY <1>1, <1>2, <1>3, <1>4, <1>5

(* So much for the others.                                                 *)
LEMMA ChunksOfOthers ==
    ASSUME Typed, VersionInv, ChunkInv, NEW h \in Handles, HandleCall(h) \/ HandleStep(h)
    PROVE  /\ Backed'
           /\ \A k \in Handles : k # h => Storing(k)' /\ Snapshot(k)' /\ Written(k)'
<1>0. /\ \A c \in Chunks : chunk[c] # Nil => chunk'[c] = chunk[c]
      /\ \A v \in Version, i \in Idx :
            /\ v # fh[h].ver => vchunk'[v, i] = vchunk[v, i]
            /\ \/ vchunk'[v, i] = Nil
               \/ \E u \in Version : vchunk'[v, i] = vchunk[u, i]
               \/ fh[h].pc = "store" /\ vchunk'[v, i] = fh[h].got
      /\ ~Mapping(h) => vchunk' = vchunk
      /\ \A g \in Handles : g # h => fh'[g] = fh[g]
      /\ fh'[h].got # Nil => chunk[fh'[h].got] = Nil
  BY ChunkFrame
<1>1. \A v \in Version, i \in Idx : vchunk[v, i] # Nil =>
            vchunk[v, i] \in Chunks /\ chunk[vchunk[v, i]] # Nil
  <2> SUFFICES ASSUME NEW v \in Version, NEW i \in Idx, vchunk[v, i] # Nil
               PROVE  vchunk[v, i] \in Chunks /\ chunk[vchunk[v, i]] # Nil
    OBVIOUS
  <2>1. RowsOf(v)[i] \in Chunks \cup {Nil} /\ RowsOf(v)[i] = vchunk[v, i]
    BY RowsTyped DEF Rows
  <2> QED
    BY <2>1 DEF ChunkInv, Backed
<1>2. Backed'
  <2> SUFFICES ASSUME NEW v \in Version, NEW i \in Idx, vchunk'[v, i] # Nil
               PROVE  chunk'[vchunk'[v, i]] # Nil
    BY DEF Backed
  <2>1. CASE \E u \in Version : vchunk'[v, i] = vchunk[u, i]
    <3>1. PICK u \in Version : vchunk'[v, i] = vchunk[u, i]
      BY <2>1
    <3>2. vchunk[u, i] \in Chunks /\ chunk[vchunk[u, i]] # Nil
      BY <1>1, <3>1
    <3> QED
      BY <1>0, <3>1, <3>2
  <2>2. CASE fh[h].pc = "store" /\ vchunk'[v, i] = fh[h].got
    BY <1>0, <2>2, StoredChunk
  <2> QED
    BY <1>0, <2>1, <2>2
<1>3. ASSUME NEW k \in Handles, k # h PROVE Storing(k)' /\ Snapshot(k)' /\ Written(k)'
  <2>1. Storing(k) /\ Snapshot(k) /\ Written(k) /\ fh'[k] = fh[k]
    BY <1>0, <1>3 DEF ChunkInv
  <2>2. Storing(k)'
    <3> SUFFICES ASSUME fh[k].pc = "store"
                 PROVE  /\ chunk'[fh[k].got] = fh[k].out.data
                        /\ \A v \in Version, i \in Idx : vchunk'[v, i] # fh[k].got
                        /\ \A g \in Handles : g # k => fh'[g].got # fh[k].got
      BY <2>1 DEF Storing
    <3>1. /\ fh[k].got \in Chunks /\ chunk[fh[k].got] = fh[k].out.data /\ fh[k].out.data # Nil
          /\ fh[k].got # Nil
      BY StoredChunk
    <3>2. /\ \A v \in Version, i \in Idx : vchunk[v, i] # fh[k].got
          /\ \A g \in Handles : g # k => fh[g].got # fh[k].got
      BY <2>1 DEF Storing
    <3>3. chunk'[fh[k].got] = fh[k].out.data
      BY <1>0, <3>1
    <3>4. ASSUME NEW v \in Version, NEW i \in Idx PROVE vchunk'[v, i] # fh[k].got
      <4>1. CASE \E u \in Version : vchunk'[v, i] = vchunk[u, i]
        BY <3>2, <4>1
      <4>2. CASE fh[h].pc = "store" /\ vchunk'[v, i] = fh[h].got
        BY <1>3, <3>2, <4>2
      <4>3. CASE vchunk'[v, i] = Nil
        BY <3>1, <4>3
      <4> QED
        BY <1>0, <4>1, <4>2, <4>3
    <3>5. ASSUME NEW g \in Handles, g # k PROVE fh'[g].got # fh[k].got
      BY <1>0, <3>1, <3>2, <3>5
    <3> QED
      BY <3>3, <3>4, <3>5
  <2>3. HandleHeld(h) /\ HandleHeld(k)
    BY DEF VersionInv
  <2>4. Snapshot(k)'
    <3> SUFFICES ASSUME fh[k].pc \in Loaded
                 PROVE  fh[k].old = IF fh[k].base = 0 THEN NoRows ELSE RowsOf(fh[k].base)'
      BY <2>1 DEF Snapshot
    <3>1. fh[k].base # 0 => RowsOf(fh[k].base)' = RowsOf(fh[k].base)
      <4> SUFFICES ASSUME fh[k].base # 0 PROVE RowsOf(fh[k].base)' = RowsOf(fh[k].base)
        OBVIOUS
      <4>1. fh[k].base \in Version /\ text[fh[k].base] # Nil
        BY <2>3, Numbers DEF HandleHeld, Held, Loaded
      <4>2. Mapping(h) => fh[k].base # fh[h].ver
        <5>1. Mapping(h) => fh[h].ver \in Version /\ fh[h].pc # "closed"
          BY MappingRows, StepUse
        <5> QED
          BY <2>3, <4>1, <5>1, Numbers DEF HandleHeld
      <4> QED
        BY <1>0, <2>1, <4>1, <4>2 DEF RowsOf
    <3> QED
      BY <2>1, <3>1 DEF Snapshot
  <2>5. Written(k)'
    <3>1. fh[k].ver # 0 => fh[k].ver \in Version /\ fh[k].pc # "closed"
      BY Numbers
    <3>2. fh[k].ver # 0 => fh[k].ver # fh[h].ver
      BY <1>3, <2>3, <3>1 DEF HandleHeld
    <3>3. fh[k].ver # 0 => \A i \in Idx : vchunk'[fh[k].ver, i] = vchunk[fh[k].ver, i]
      BY <1>0, <3>1, <3>2
    <3> QED
      BY <2>1, <3>3 DEF Written
  <2> QED
    BY <2>2, <2>4, <2>5
<1> QED
  BY <1>2, <1>3

(* A handle without an active store, whose rows are as they were.          *)
LEMMA ChunksOfQuiet ==
    ASSUME Typed, VersionInv, ChunkInv, NEW h \in Handles, Quiet(h) \/ StoreSlice(h)
    PROVE  Snapshot(h)' /\ Written(h)'
<1> DEFINE f == fh[h]
           x == fh'[h]
           Same == /\ SameUse(f, x) /\ x.new = f.new /\ x.sure => f.sure
                   /\ x.pc \in Loaded => f.pc \in Loaded /\ x.old = f.old
           G == Snapshot(h)' /\ Written(h)'
<1>1. vchunk' = vchunk
  BY QuietFrame, OtherFrames DEF SameTables
<1>2. Snapshot(h) /\ Written(h) /\ HandleHeld(h)
  BY DEF ChunkInv, VersionInv
<1>3. ASSUME SameUse(f, x), x.new = f.new, x.sure => f.sure,
             x.pc \in Loaded => f.pc \in Loaded /\ x.old = f.old
      PROVE  G
  BY <1>1, <1>2, <1>3 DEF Snapshot, Written, SameUse, RowsOf
<1>4. ASSUME x = Closed PROVE G
  <2>1. x.pc = "closed" /\ x.ver = 0 /\ x.new = NoRows
    BY <1>4 DEF Closed
  <2> QED
    BY <2>1 DEF Snapshot, Written, Loaded, NoRows
<1>5. ASSUME x.sure = FALSE, SameUse(f, x), x.new = f.new, f.pc \in Loaded, x.old = f.old PROVE G
  BY <1>3, <1>5
<1> HIDE DEF G
<1>6. LoadVersion(h) => G
  <2> SUFFICES ASSUME LoadVersion(h) PROVE G
    OBVIOUS
  <2>1. /\ f.pc = "stat" /\ SameFile(f, x) /\ x.old = NoRows /\ x.sure = f.sure /\ x.new = f.new
        /\ f.base = 0 \/ vrow[f.base] = Nil \/ x.pc = "base"
    BY LoadVersionMoves
  <2>2. f.base # 0 => vrow[f.base] # Nil
    BY <1>2, <2>1 DEF HandleHeld, Held
  <2>3. x.base = f.base /\ x.ver = f.ver
    BY <2>1 DEF SameFile
  <2>4. Snapshot(h)'
    BY <2>1, <2>2, <2>3 DEF Snapshot, Loaded
  <2>5. Written(h)'
    BY <1>1, <1>2, <2>1, <2>3 DEF Written
  <2> QED
    BY <2>4, <2>5 DEF G
<1>7. LoadRows(h) => G
  <2> SUFFICES ASSUME LoadRows(h) PROVE G
    OBVIOUS
  <2>1. /\ f.base \in Version /\ x.old = RowsOf(f.base) /\ x.base = f.base /\ x.ver = f.ver
        /\ x.sure = f.sure /\ x.new = f.new
    BY LoadRowsMoves
  <2>2. x.base # 0
    BY <2>1, Numbers
  <2>3. Snapshot(h)'
    BY <1>1, <2>1, <2>2 DEF Snapshot, RowsOf
  <2>4. Written(h)'
    BY <1>1, <1>2, <2>1 DEF Written
  <2> QED
    BY <2>3, <2>4 DEF G
<1>8. FailOpen(h) \/ CloseReader(h) => G
  BY <1>4, CloseMoves
<1> USE DEF SameFile, SameUse
<1>9. "ready" \in Loaded /\ "write" \in Loaded /\ "cut" \in Loaded /\ "flush" \in Loaded
  BY DEF Loaded, Pc
<1>10. ASSUME NEW off \in 0..(MaxSize - 1), NEW p \in Payloads, WriteAt(h, off, p) PROVE G
  BY <1>3, <1>9, <1>10, WriteAtMoves
<1>11. WriteSlice(h) => G
  <2> SUFFICES ASSUME WriteSlice(h) PROVE G
    OBVIOUS
  <2>1. f.pc = "write" /\ (Taken(f, x) \/ Turned(f, x) \/ Failed(f, x))
    BY WriteSliceMoves
  <2>2. Taken(f, x) \/ Turned(f, x) => G
    BY <1>3, <1>9, <2>1 DEF Taken, Turned
  <2> QED
    BY <1>4, <1>5, <1>9, <2>1, <2>2 DEF Failed
<1>12. TrimSlice(h) => G
  <2> SUFFICES ASSUME TrimSlice(h) PROVE G
    OBVIOUS
  <2>1. f.pc = "cut" /\ (Failed(f, x) \/ (SameFile(f, x) /\ x.new = f.new /\ x.sure = f.sure))
    BY TrimSliceMoves DEF Plainly
  <2>2. SameFile(f, x) /\ x.new = f.new /\ x.sure = f.sure => G
    BY <1>3, <1>9, <2>1
  <2> QED
    BY <1>4, <1>5, <1>9, <2>1, <2>2 DEF Failed
<1>13. ASSUME NEW kind \in {"sync", "close"}, FlushActive(h, kind) PROVE G
  BY <1>3, <1>9, <1>13, FlushActiveMoves
<1>14. StoreSlice(h) => G
  <2> SUFFICES ASSUME StoreSlice(h) PROVE G
    OBVIOUS
  <2>1. f.pc = "flush" /\ (Failed(f, x) \/ \E c \in Chunks : Stored(f, x, c))
    BY StoreSliceMoves
  <2>2. (\E c \in Chunks : Stored(f, x, c)) => G
    BY <1>3, <1>9, <2>1 DEF Stored
  <2> QED
    BY <1>4, <1>5, <1>9, <2>1, <2>2 DEF Failed
<1> HIDE DEF f, x
<1>15. G
  BY <1>6, <1>7, <1>8, <1>10, <1>11, <1>12, <1>13, <1>14 DEF Quiet
<1> QED
  BY <1>15 DEF G

LEMMA RowPut ==
    ASSUME Typed, NEW w \in Version, NEW j \in Idx, NEW c, vchunk' = [vchunk EXCEPT ![<<w, j>>] = c]
    PROVE  \A i \in Idx : vchunk'[w, i] = IF i = j THEN c ELSE vchunk[w, i]
  BY DEF Typed

LEMMA ChunksOfMapping ==
    ASSUME Typed, VersionInv, ChunkInv, NEW h \in Handles, Mapping(h)
    PROVE  Snapshot(h)' /\ Written(h)'
<1> DEFINE f == fh[h]
           x == fh'[h]
           w == fh[h].ver
           G == Snapshot(h)' /\ Written(h)'
<1>1. Snapshot(h) /\ Written(h) /\ HandleHeld(h) /\ Fits(f)
  BY HandleFits DEF ChunkInv, VersionInv
<1>2. w \in Version /\ w # 0 /\ f.pc # "closed"
      /\ \A v \in Version, i \in Idx : v # w => vchunk'[v, i] = vchunk[v, i]
  BY MappingRows, Numbers, StepUse
<1>3. f.base # 0 => \A i \in Idx : vchunk'[f.base, i] = vchunk[f.base, i]
  <2> SUFFICES ASSUME f.base # 0 PROVE \A i \in Idx : vchunk'[f.base, i] = vchunk[f.base, i]
    OBVIOUS
  <2>1. f.base \in Version /\ f.base # w
    BY <1>1, <1>2, Numbers DEF HandleHeld, Held
  <2> QED
    BY <1>2, <2>1
<1>4. ASSUME x = Closed PROVE G
  <2>1. x.pc = "closed" /\ x.ver = 0 /\ x.new = NoRows
    BY <1>4 DEF Closed
  <2> QED
    BY <2>1 DEF Snapshot, Written, Loaded, NoRows
<1>5. f.pc \in Loaded
  <2>1. InheritRows(h) => f.pc = "born"
    BY DEF InheritRows
  <2>2. DropSlice(h) => f.pc = "flush"
    BY DEF DropSlice
  <2>3. PutRow(h) => f.pc = "store"
    BY DEF PutRow
  <2>4. ASSUME NEW n, Truncate(h, n) PROVE f.pc = "ready"
    BY <2>4 DEF Truncate
  <2>5. \A p \in {"born", "flush", "store", "ready"} : p \in Loaded
    BY DEF Loaded, Pc
  <2> QED
    BY <2>1, <2>2, <2>3, <2>4, <2>5 DEF Mapping
<1>6. ASSUME SameFile(f, x),
             \/ \A i \in Idx : x.new[i] = vchunk'[w, i]
             \/ x.sure = FALSE /\ \A i \in Idx : x.new[i] = Nil \/ x.new[i] = vchunk'[w, i]
      PROVE  G
  <2>1. x.base = f.base /\ x.old = f.old /\ x.ver = w
    BY <1>6 DEF SameFile
  <2>2. Snapshot(h)'
    BY <1>1, <1>3, <1>5, <2>1 DEF Snapshot, RowsOf
  <2>3. Written(h)'
    BY <1>2, <1>6, <2>1 DEF Written
  <2> QED
    BY <2>2, <2>3
<1>7. ASSUME vchunk' = vchunk, x.sure = FALSE, SameFile(f, x),
             \A i \in Idx : x.new[i] = f.new[i] \/ x.new[i] = Nil
      PROVE  G
  <2>1. \A i \in Idx : x.new[i] = Nil \/ x.new[i] = vchunk'[w, i]
    BY <1>1, <1>7 DEF Written
  <2> QED
    BY <1>6, <1>7, <2>1
<1> HIDE DEF G
<1>8. f.new \in Rows
  BY <1>1 DEF Fits, Handle
<1>9. InheritRows(h) => G
  <2> SUFFICES ASSUME InheritRows(h) PROVE G
    OBVIOUS
  <2>1. SameFile(f, x) /\ x.new = f.old
    BY InheritRowsMoves
  <2>2. vchunk' = [y \in Version \X Idx |-> IF y[1] = w THEN f.old[y[2]] ELSE vchunk[y]]
    BY DEF InheritRows
  <2> HIDE DEF w, x, f
  <2>3. \A i \in Idx : vchunk'[w, i] = f.old[i]
    BY <1>2, <2>2
  <2> QED
    BY <1>6, <2>1, <2>3
<1>10. ASSUME NEW j \in Idx, NEW c, vchunk' = [vchunk EXCEPT ![<<w, j>>] = c],
              SameFile(f, x), x.sure = f.sure, x.new = [f.new EXCEPT ![j] = c]
       PROVE  G
  <2>3. \A i \in Idx : f.new[i] = Nil \/ f.new[i] = vchunk[w, i]
    BY <1>1 DEF Written
  <2>4. f.sure => \A i \in Idx : f.new[i] = vchunk[w, i]
    BY <1>1, <1>2 DEF Written
  <2> HIDE DEF w, x, f
  <2>0. w \in Version
    BY <1>2
  <2>1. \A i \in Idx : vchunk'[w, i] = IF i = j THEN c ELSE vchunk[w, i]
    BY <1>10, <2>0 DEF Typed
  <2>2. \A i \in Idx : x.new[i] = IF i = j THEN c ELSE f.new[i]
    BY <1>8, <1>10 DEF Rows
  <2>5. x.sure \in BOOLEAN
    BY StepUse DEF Fits, Handle, x
  <2>6. \/ \A i \in Idx : x.new[i] = vchunk'[w, i]
        \/ x.sure = FALSE /\ \A i \in Idx : x.new[i] = Nil \/ x.new[i] = vchunk'[w, i]
    <3>1. CASE x.sure = FALSE
      BY <2>1, <2>2, <2>3, <3>1
    <3>2. CASE x.sure = TRUE
      <4>1. f.sure
        BY <1>10, <3>2
      <4>2. \A i \in Idx : f.new[i] = vchunk[w, i]
        BY <2>4, <4>1
      <4> QED
        BY <2>1, <2>2, <4>2
    <3> QED
      BY <2>5, <3>1, <3>2
  <2> QED
    BY <1>6, <1>10, <2>6
<1>11. DropSlice(h) => G
  <2> SUFFICES ASSUME DropSlice(h) PROVE G
    OBVIOUS
  <2>1. \/ /\ vchunk' = [vchunk EXCEPT ![<<w, f.out.idx>>] = Nil]
           /\ Put(f, x) /\ x.new = [f.new EXCEPT ![f.out.idx] = Nil]
        \/ vchunk' = vchunk /\ DropFailed(f, x, f.out.idx)
    BY DropSliceMoves
  <2>2. f.out.idx \in Idx
    BY <1>1, DropSliceMoves, WorkingFacts DEF Working, Putting
  <2>3. CASE vchunk' = [vchunk EXCEPT ![<<w, f.out.idx>>] = Nil]
             /\ Put(f, x) /\ x.new = [f.new EXCEPT ![f.out.idx] = Nil]
    BY <1>10, <2>2, <2>3 DEF Put
  <2>4. CASE vchunk' = vchunk /\ DropFailed(f, x, f.out.idx)
    <3>1. x # Closed => x.sure = FALSE /\ SameFile(f, x) /\ x.new = [f.new EXCEPT ![f.out.idx] = Nil]
      BY <2>4 DEF DropFailed
    <3>2. x # Closed => \A i \in Idx : x.new[i] = f.new[i] \/ x.new[i] = Nil
      BY <1>8, <2>2, <3>1 DEF Rows
    <3> QED
      BY <1>4, <1>7, <2>4, <3>1, <3>2
  <2> QED
    BY <2>1, <2>3, <2>4
<1>12. PutRow(h) => G
  <2> SUFFICES ASSUME PutRow(h) PROVE G
    OBVIOUS
  <2>1. \/ /\ vchunk' = [vchunk EXCEPT ![<<w, f.out.idx>>] = f.got]
           /\ Put(f, x) /\ x.new = [f.new EXCEPT ![f.out.idx] = f.got]
        \/ vchunk' = vchunk /\ Failed(f, x)
    BY PutRowMoves
  <2>2. f.out.idx \in Idx
    BY <1>1, PutRowMoves, WorkingFacts DEF Working, Putting
  <2>3. CASE vchunk' = [vchunk EXCEPT ![<<w, f.out.idx>>] = f.got]
             /\ Put(f, x) /\ x.new = [f.new EXCEPT ![f.out.idx] = f.got]
    BY <1>10, <2>2, <2>3 DEF Put
  <2>4. CASE vchunk' = vchunk /\ Failed(f, x)
    <3>1. x # Closed => x.sure = FALSE /\ SameFile(f, x) /\ x.new = f.new
      BY <2>4 DEF Failed
    <3> QED
      BY <1>4, <1>7, <2>4, <3>1
  <2> QED
    BY <2>1, <2>3, <2>4
<1>13. ASSUME NEW n \in 0..MaxSize, Truncate(h, n) PROVE G
  <2>1. \/ /\ Cut(f, x, n) /\ x.sure = f.sure
           /\ vchunk' = [y \in Version \X Idx |-> IF y[1] = w /\ y[2] >= Slices(n) THEN Nil ELSE vchunk[y]]
        \/ vchunk' = vchunk /\ Cut(f, x, n) /\ x.sure = FALSE
        \/ vchunk' = vchunk /\ Plainly(f, x) /\ x.sure = f.sure
    BY <1>13, TruncateMoves
  <2>2. Cut(f, x, n) => SameFile(f, x) /\ \A i \in Idx : x.new[i] = IF i >= Slices(n) THEN Nil ELSE f.new[i]
    BY DEF Cut, CutNew
  <2>3. \A i \in Idx : f.new[i] = Nil \/ f.new[i] = vchunk[w, i]
    BY <1>1 DEF Written
  <2>4. f.sure => \A i \in Idx : f.new[i] = vchunk[w, i]
    BY <1>1, <1>2 DEF Written
  <2>5. x.sure \in BOOLEAN
    BY StepUse DEF Fits, Handle
  <2>6. CASE /\ Cut(f, x, n) /\ x.sure = f.sure
             /\ vchunk' = [y \in Version \X Idx |-> IF y[1] = w /\ y[2] >= Slices(n) THEN Nil ELSE vchunk[y]]
    <3>1. \A i \in Idx : vchunk'[w, i] = IF i >= Slices(n) THEN Nil ELSE vchunk[w, i]
      <4> HIDE DEF w
      <4> QED
        BY <1>2, <2>6
    <3>2. \/ \A i \in Idx : x.new[i] = vchunk'[w, i]
          \/ x.sure = FALSE /\ \A i \in Idx : x.new[i] = Nil \/ x.new[i] = vchunk'[w, i]
      BY <2>2, <2>3, <2>4, <2>5, <2>6, <3>1
    <3> QED
      BY <1>6, <2>2, <2>6, <3>2
  <2>7. CASE vchunk' = vchunk /\ Cut(f, x, n) /\ x.sure = FALSE
    BY <1>7, <2>2, <2>7
  <2>8. CASE vchunk' = vchunk /\ Plainly(f, x) /\ x.sure = f.sure
    <3>1. SameFile(f, x) /\ x.new = f.new
      BY <2>8 DEF Plainly
    <3>2. \/ \A i \in Idx : x.new[i] = vchunk'[w, i]
          \/ x.sure = FALSE /\ \A i \in Idx : x.new[i] = Nil \/ x.new[i] = vchunk'[w, i]
      BY <2>3, <2>4, <2>5, <2>8, <3>1
    <3> QED
      BY <1>6, <3>1, <3>2
  <2> QED
    BY <2>1, <2>6, <2>7, <2>8
<1> HIDE DEF f, x, w
<1>14. G
  BY <1>9, <1>11, <1>12, <1>13 DEF Mapping
<1> QED
  BY <1>14 DEF G

LEMMA ChunksOfHandle ==
    ASSUME Typed, VersionInv, ChunkInv, NEW h \in Handles, HandleCall(h) \/ HandleStep(h)
    PROVE  ChunkInv'
<1>1. Backed' /\ \A k \in Handles : k # h => Storing(k)' /\ Snapshot(k)' /\ Written(k)'
  BY ChunksOfOthers
<1>2. Storing(h)'
  <2> SUFFICES ASSUME fh'[h].pc = "store"
               PROVE  /\ chunk'[fh'[h].got] = fh'[h].out.data
                      /\ \A v \in Version, i \in Idx : vchunk'[v, i] # fh'[h].got
                      /\ \A g \in Handles : g # h => fh'[g].got # fh'[h].got
    BY DEF Storing
  <2>1. fh'[h].got # Nil
    BY HandleStepFits DEF Fits, HandleShape
  <2>2. PICK c \in Chunks : /\ chunk[c] = Nil /\ chunk' = [chunk EXCEPT ![c] = fh[h].out.data]
                            /\ Stored(fh[h], fh'[h], c)
    BY <2>1, OnlyStores
  <2>3. fh'[h].got = c /\ fh'[h].out = fh[h].out /\ chunk'[c] = fh[h].out.data
    BY <2>2 DEF Stored, Typed
  <2>4. /\ \A g \in Handles : g # h => fh'[g] = fh[g]
        /\ ~Mapping(h) => vchunk' = vchunk
    BY ChunkFrame
  <2>5. ~Mapping(h)
    <3>1. Mapping(h) => chunk' = chunk
      BY MappingFrame
    <3>2. fh[h].out.data # Nil
      <4>1. fh[h].pc = "flush" /\ Fits(fh[h])
        BY <2>1, OnlyStores, HandleFits
      <4>2. fh[h].out.data \in Seq(Nat)
        BY <4>1, WorkingFacts DEF Working, Putting
      <4> QED
        BY <4>2, FileAssumption
    <3> QED
      BY <2>2, <2>3, <3>1, <3>2
  <2>6. ASSUME NEW v \in Version, NEW i \in Idx PROVE vchunk'[v, i] # c
    <3>1. vchunk'[v, i] = vchunk[v, i]
      BY <2>4, <2>5
    <3>2. vchunk[v, i] # Nil => chunk[vchunk[v, i]] # Nil
      BY DEF ChunkInv, Backed
    <3> QED
      BY <2>2, <3>1, <3>2, FileAssumption
  <2>7. ASSUME NEW g \in Handles, g # h PROVE fh'[g].got # c
    <3>1. fh[g].pc # "store" => fh[g].got = Nil
      BY HandleFits DEF Fits, HandleShape
    <3>2. fh[g].pc = "store" => chunk[fh[g].got] # Nil
      BY StoredChunk
    <3> QED
      BY <2>2, <2>4, <2>7, <3>1, <3>2, FileAssumption
  <2> QED
    BY <2>3, <2>6, <2>7
<1>3. Snapshot(h)' /\ Written(h)'
  <2>1. ASSUME NEW i \in Inodes, NEW b \in BOOLEAN, Open(h, i, b) PROVE Snapshot(h)' /\ Written(h)'
    <3>1. fh'[h].pc = "stat" /\ fh'[h].ver = 0 /\ fh'[h].new = NoRows
      BY <2>1, OpenMoves
    <3> QED
      BY <3>1 DEF Snapshot, Written, Loaded, NoRows
  <2>2. ASSUME Commit(h) \/ Discard(h) PROVE Snapshot(h)' /\ Written(h)'
    <3>1. fh'[h].pc = "closed" /\ fh'[h].ver = 0 /\ fh'[h].new = NoRows
      BY <2>2, CloseMoves DEF Closed
    <3> QED
      BY <3>1 DEF Snapshot, Written, Loaded, NoRows
  <2>3. ASSUME NewVersion(h) PROVE Snapshot(h)' /\ Written(h)'
    <3>1. vchunk' = vchunk
      BY <2>3, OtherFrames
    <3>2. /\ fh[h].pc = "snapshot" /\ nextVer \in Version /\ fh'[h].base = fh[h].base
          /\ fh'[h].ver = nextVer /\ fh'[h].old = fh[h].old /\ fh'[h].new = NoRows
      BY <2>3, NewVersionMoves
    <3>3. Snapshot(h)'
      BY <3>1, <3>2 DEF ChunkInv, Snapshot, Loaded, Pc, RowsOf
    <3>4. nextVer >= nextVer
      BY <3>2 DEF Version
    <3>5. \A i \in Idx : vchunk[nextVer, i] = Nil
      BY <3>2, <3>4 DEF VersionInv, Unborn
    <3>6. Written(h)'
      BY <3>1, <3>2, <3>5 DEF Written, NoRows
    <3> QED
      BY <3>3, <3>6
  <2> QED
    BY <2>1, <2>2, <2>3, HandleActions, ChunksOfQuiet, ChunksOfMapping
<1> QED
  BY <1>1, <1>2, <1>3 DEF ChunkInv

LEMMA ChunksDrop ==
    ASSUME Typed, ChunkInv, NEW D \in SUBSET Version, DropVersions(D), fh' = fh,
           \A k \in Handles : fh[k].pc # "closed" => fh[k].base \notin D /\ fh[k].ver \notin D
    PROVE  ChunkInv'
<1>1. /\ \A v \in Version, i \in Idx : vchunk'[v, i] = IF v \in D THEN Nil ELSE vchunk[v, i]
      /\ \A c \in Chunks : \/ chunk'[c] = chunk[c]
                           \/ /\ chunk'[c] = Nil /\ \E v \in D, i \in Idx : vchunk[v, i] = c
                              /\ \A v \in Version, i \in Idx : v \notin D => vchunk[v, i] # c
  BY DropFacts
<1>2. ASSUME NEW v \in Version, NEW i \in Idx, vchunk'[v, i] # Nil
      PROVE  chunk'[vchunk'[v, i]] # Nil
  <2>1. v \notin D /\ vchunk'[v, i] = vchunk[v, i]
    BY <1>1, <1>2
  <2>2. vchunk[v, i] \in Chunks /\ chunk[vchunk[v, i]] # Nil
    <3>1. RowsOf(v)[i] \in Chunks \cup {Nil} /\ RowsOf(v)[i] = vchunk[v, i]
      BY RowsTyped DEF Rows
    <3> QED
      BY <1>2, <2>1, <3>1 DEF ChunkInv, Backed
  <2>3. chunk'[vchunk[v, i]] = chunk[vchunk[v, i]]
    BY <1>1, <2>1, <2>2
  <2> QED
    BY <2>1, <2>2, <2>3
<1>3. ASSUME NEW k \in Handles PROVE Storing(k)' /\ Snapshot(k)' /\ Written(k)'
  <2>0. /\ Storing(k) /\ Snapshot(k) /\ Written(k)
        /\ fh[k].base # 0 => fh[k].base \in Version
        /\ fh[k].ver # 0 => fh[k].ver \in Version /\ fh[k].pc # "closed"
    BY Numbers DEF ChunkInv
  <2>1. Storing(k)'
    <3> SUFFICES ASSUME fh[k].pc = "store"
                 PROVE  /\ chunk'[fh[k].got] = fh[k].out.data
                        /\ \A v \in Version, i \in Idx : vchunk'[v, i] # fh[k].got
                        /\ \A g \in Handles : g # k => fh[g].got # fh[k].got
      BY DEF Storing
    <3>1. fh[k].got \in Chunks /\ chunk[fh[k].got] = fh[k].out.data /\ fh[k].got # Nil
      BY StoredChunk
    <3>2. /\ \A v \in Version, i \in Idx : vchunk[v, i] # fh[k].got
          /\ \A g \in Handles : g # k => fh[g].got # fh[k].got
      BY <2>0 DEF Storing
    <3>3. \A v \in D, i \in Idx : vchunk[v, i] # fh[k].got
      BY <3>2
    <3>4. chunk'[fh[k].got] = chunk[fh[k].got]
      <4> SUFFICES ASSUME chunk'[fh[k].got] # chunk[fh[k].got] PROVE FALSE
        OBVIOUS
      <4>1. \E v \in D, i \in Idx : vchunk[v, i] = fh[k].got
        BY <1>1, <3>1
      <4> QED
        BY <3>3, <4>1
    <3>5. ASSUME NEW v \in Version, NEW i \in Idx PROVE vchunk'[v, i] # fh[k].got
      <4>1. vchunk'[v, i] = Nil \/ vchunk'[v, i] = vchunk[v, i]
        BY <1>1
      <4> QED
        BY <3>1, <3>2, <4>1
    <3> QED
      BY <3>1, <3>2, <3>4, <3>5
  <2>2. Snapshot(k)'
    <3> SUFFICES ASSUME fh[k].pc \in Loaded, fh[k].base # 0
                 PROVE  RowsOf(fh[k].base)' = RowsOf(fh[k].base)
      BY <2>0 DEF Snapshot
    <3>1. fh[k].base \in Version /\ fh[k].base \notin D
      BY <2>0 DEF Loaded
    <3> QED
      BY <1>1, <3>1 DEF RowsOf
  <2>3. Written(k)'
    <3>1. fh[k].ver # 0 => \A i \in Idx : vchunk'[fh[k].ver, i] = vchunk[fh[k].ver, i]
      <4> SUFFICES ASSUME fh[k].ver # 0
                   PROVE  \A i \in Idx : vchunk'[fh[k].ver, i] = vchunk[fh[k].ver, i]
        OBVIOUS
      <4>1. fh[k].ver \in Version /\ fh[k].ver \notin D
        BY <2>0
      <4> QED
        BY <1>1, <4>1
    <3> QED
      BY <2>0, <3>1 DEF Written
  <2> QED
    BY <2>1, <2>2, <2>3
<1> QED
  BY <1>2, <1>3 DEF ChunkInv, Backed

LEMMA ChunksRest ==
    ASSUME Typed, ChunkInv, vchunk' = vchunk, chunk' = chunk, fh' = fh
    PROVE  ChunkInv'
<1>1. Backed'
  BY DEF ChunkInv, Backed
<1>2. ASSUME NEW k \in Handles PROVE Storing(k)' /\ Snapshot(k)' /\ Written(k)'
  <2>1. Storing(k) /\ Snapshot(k) /\ Written(k)
    BY DEF ChunkInv
  <2> QED
    BY <2>1 DEF Storing, Snapshot, Written, RowsOf
<1> QED
  BY <1>1, <1>2 DEF ChunkInv

LEMMA ChunksCollect ==
    ASSUME Typed, ChunkInv, NEW c \in Chunks, GarbageCollect(c)
    PROVE  ChunkInv'
<1>1. vchunk' = vchunk /\ fh' = fh
  BY DEF GarbageCollect, tables
<1>2. /\ \A v \in Version, i \in Idx : vchunk[v, i] # c
      /\ \A h \in Handles : fh[h].got # c
      /\ chunk' = [chunk EXCEPT ![c] = Nil]
  BY DEF GarbageCollect
<1>3. \A b \in Chunks : b # c => chunk'[b] = chunk[b]
  BY <1>2 DEF Typed
<1>4. ASSUME NEW v \in Version, NEW i \in Idx, vchunk[v, i] # Nil PROVE chunk'[vchunk[v, i]] # Nil
  <2>1. RowsOf(v)[i] \in Chunks \cup {Nil} /\ RowsOf(v)[i] = vchunk[v, i]
    BY RowsTyped DEF Rows
  <2>2. vchunk[v, i] \in Chunks /\ chunk[vchunk[v, i]] # Nil
    BY <1>4, <2>1 DEF ChunkInv, Backed
  <2> QED
    BY <1>2, <1>3, <2>2
<1>5. ASSUME NEW k \in Handles PROVE Storing(k)' /\ Snapshot(k)' /\ Written(k)'
  <2>1. Storing(k) /\ Snapshot(k) /\ Written(k)
    BY DEF ChunkInv
  <2>2. fh[k].pc = "store" => chunk'[fh[k].got] = chunk[fh[k].got]
    BY <1>2, <1>3, StoredChunk
  <2> QED
    BY <1>1, <2>1, <2>2 DEF Storing, Snapshot, Written, RowsOf
<1> QED
  BY <1>1, <1>4, <1>5 DEF ChunkInv, Backed

LEMMA RetentionQuiet ==
    ASSUME Retention,
           \A i \in Inodes : ~purgeInode(i) /\ ~trimVersions(i), \A c \in Chunks : ~GarbageCollect(c)
    PROVE  vrow' = vrow /\ vchunk' = vchunk /\ nextVer' = nextVer /\ chunk' = chunk /\ fh' = fh /\ text' = text
<1> USE DEF tables
<1>1. ASSUME NEW i \in Inodes, markDeleted(i) \/ Restore(i) \/ deletedInode(i)
      PROVE  vrow' = vrow /\ vchunk' = vchunk /\ nextVer' = nextVer /\ chunk' = chunk /\ fh' = fh /\ text' = text
  BY <1>1 DEF markDeleted, Restore, deletedInode
<1>2. ASSUME NEW v, FindVersion(v)
      PROVE  vrow' = vrow /\ vchunk' = vchunk /\ nextVer' = nextVer /\ chunk' = chunk /\ fh' = fh /\ text' = text
  BY <1>2 DEF FindVersion
<1>3. ASSUME NEW v, NEW i, RestoreVersion(v, i)
      PROVE  vrow' = vrow /\ vchunk' = vchunk /\ nextVer' = nextVer /\ chunk' = chunk /\ fh' = fh /\ text' = text
  BY <1>3 DEF RestoreVersion
<1> QED
  BY <1>1, <1>2, <1>3 DEF Retention

LEMMA ChunkStep ==
    ASSUME Typed, VersionInv, ChunkInv, [Next]_vars, "release" \notin Overlaps
    PROVE  ChunkInv'
<1>1. ASSUME NEW i \in Inodes, purgeInode(i) PROVE ChunkInv'
  BY <1>1, PurgeDrops, ChunksDrop
<1>2. ASSUME NEW i \in Inodes, trimVersions(i) PROVE ChunkInv'
  BY <1>2, TrimDrops, ChunksDrop
<1>3. CASE Retention
  BY <1>1, <1>2, <1>3, RetentionQuiet, ChunksRest, ChunksCollect
<1>4. CASE Crash
  <2>1. vchunk' = vchunk /\ chunk' = chunk
    BY <1>4 DEF Crash, tables
  <2>2. fh' = [h \in Handles |-> Closed]
    BY <1>4 DEF Crash
  <2>3. Closed.pc = "closed" /\ Closed.ver = 0 /\ Closed.new = NoRows
    BY DEF Closed
  <2>4. \A h \in Handles : Storing(h)' /\ Snapshot(h)' /\ Written(h)'
    BY <2>2, <2>3 DEF Storing, Snapshot, Written, Loaded, NoRows
  <2> QED
    BY <2>1, <2>4 DEF ChunkInv, Backed
<1>5. CASE UNCHANGED vars
  BY <1>5, ChunksRest DEF vars, tables
<1> QED
  BY <1>3, <1>4, <1>5, NextCases, ChunksOfHandle
-----------------------------------------------------------------------------
(* Rows in use have their chunks.                                          *)
LEMMA RowsBacked ==
    ASSUME Typed, ChunkInv
    PROVE  /\ \A v \in Version, i \in Idx : vchunk[v, i] # Nil =>
                vchunk[v, i] \in Chunks /\ chunk[vchunk[v, i]] # Nil
           /\ \A h \in Handles : fh[h].pc # "closed" => \A i \in Idx :
                /\ fh[h].old[i] # Nil => fh[h].old[i] \in Chunks /\ chunk[fh[h].old[i]] # Nil
                /\ fh[h].new[i] # Nil => fh[h].new[i] \in Chunks /\ chunk[fh[h].new[i]] # Nil
<1>1. ASSUME NEW v \in Version, NEW i \in Idx, vchunk[v, i] # Nil
      PROVE  vchunk[v, i] \in Chunks /\ chunk[vchunk[v, i]] # Nil
  <2>1. RowsOf(v)[i] \in Chunks \cup {Nil} /\ RowsOf(v)[i] = vchunk[v, i]
    BY RowsTyped DEF Rows
  <2> QED
    BY <1>1, <2>1 DEF ChunkInv, Backed
<1>2. ASSUME NEW h \in Handles, fh[h].pc # "closed", NEW i \in Idx, fh[h].old[i] # Nil
      PROVE  fh[h].old[i] \in Chunks /\ chunk[fh[h].old[i]] # Nil
  <2>0. NoRows[i] = Nil
    BY DEF NoRows
  <2>1. fh[h].pc \in Loaded
    <3>1. fh[h].pc \in Pc /\ (fh[h].pc \in {"stat", "base"} => fh[h].old = NoRows)
      BY HandleFits DEF Fits, Handle, HandleShape
    <3> QED
      BY <1>2, <2>0, <3>1 DEF Loaded
  <2>2. fh[h].old = IF fh[h].base = 0 THEN NoRows ELSE RowsOf(fh[h].base)
    BY <2>1 DEF ChunkInv, Snapshot
  <2>3. fh[h].base # 0 /\ fh[h].base \in Version
    BY <1>2, <2>0, <2>2, Numbers
  <2>4. fh[h].old[i] = vchunk[fh[h].base, i]
    BY <2>2, <2>3 DEF RowsOf
  <2> QED
    BY <1>1, <1>2, <2>3, <2>4
<1>3. ASSUME NEW h \in Handles, NEW i \in Idx, fh[h].new[i] # Nil
      PROVE  fh[h].new[i] \in Chunks /\ chunk[fh[h].new[i]] # Nil
  <2>1. fh[h].ver # 0 /\ fh[h].new[i] = vchunk[fh[h].ver, i]
    BY <1>3 DEF ChunkInv, Written
  <2>2. fh[h].ver \in Version
    BY <2>1, Numbers
  <2> QED
    BY <1>1, <1>3, <2>1, <2>2
<1> QED
  BY <1>1, <1>2, <1>3

(* What a handle reads does not change while its chunks stay.              *)
LEMMA ReadsFrame ==
    ASSUME NEW k \in Handles, NEW x, fh'[k] = x, HandleReads(x),
           \A i \in Idx : x.old[i] # Nil => chunk'[x.old[i]] = chunk[x.old[i]],
           \A i \in Idx : x.new[i] # Nil => chunk'[x.new[i]] = chunk[x.new[i]],
           x.pc \in {"stat", "base"} /\ x.base # 0 => text'[x.base] = text[x.base]
    PROVE  HandleReads(fh[k])'
<1>1. LoadReads(fh[k])' /\ SizeReads(fh[k])'
  BY DEF HandleReads, LoadReads, SizeReads
<1>2. \A i \in Idx : Slice(x.old[i])' = Slice(x.old[i])
  BY DEF Slice
<1>3. \A i \in Idx : Holding(fh[k], i)' = Holding(x, i)
  BY DEF Holding, Slice
<1>4. \A n : Due(fh[k], n)' = Due(x, n)
  BY Zenon DEF Due, Done
<1>5. Ahead(fh[k])' = Ahead(x)
  BY Zenon DEF Ahead, Kept, First, Last, Done, Edge, WillDrop
<1>6. SnapReads(fh[k])'
  BY <1>2 DEF HandleReads, SnapReads, Slice
<1>7. OwnReads(fh[k])'
  BY <1>3, <1>4, Zenon DEF HandleReads, OwnReads, Edge
<1> QED
  BY <1>1, <1>5, <1>6, <1>7 DEF HandleReads

LEMMA Position ==
    ASSUME NEW i \in Idx, NEW r \in Offsets
    PROVE  /\ i \in Nat /\ r \in Nat /\ r < SliceSize /\ SliceSize \in Nat
           /\ i * SliceSize \in Nat /\ i * SliceSize + r \in Nat
<1>1. i \in Nat /\ SliceSize \in Nat
  BY IdxNat, SizeFacts
<1>2. r \in Nat /\ r < SliceSize
  BY <1>1 DEF Offsets
<1>3. i * SliceSize \in Nat
  BY <1>1
<1> QED
  BY <1>1, <1>2, <1>3

LEMMA Before ==
    ASSUME NEW i \in Nat, NEW j \in Nat, i < j, NEW r \in Offsets
    PROVE  i * SliceSize + r < j * SliceSize
<1>1. i * SliceSize + SliceSize <= j * SliceSize
  BY SizeFacts, NextSlice
<1>2. r \in Nat /\ r < SliceSize /\ SliceSize \in Nat
  BY SizeFacts DEF Offsets
<1>3. i * SliceSize \in Nat /\ j * SliceSize \in Nat
  BY <1>2
<1> QED
  BY <1>1, <1>2, <1>3

(* What is due while m bytes of a write have been taken.                   *)
DueAt(f, m, k) ==
    IF f.op.off <= k /\ k < f.op.off + m THEN f.op.data[k - f.op.off + 1] ELSE Byte(f.view, k)

LEMMA DueWrite ==
    ASSUME NEW f, f.op.kind = "write", f.pc \in {"write"} \cup Putting
    PROVE  \A k : Due(f, k) = DueAt(f, Done(f), k)
  BY DEF Due, DueAt

LEMMA DuePlain ==
    ASSUME NEW f, f.pc \notin {"write", "cut"} \cup Putting
    PROVE  \A k : Due(f, k) = Byte(f.view, k)
  BY DEF Due

LEMMA DuePiece ==
    ASSUME NEW f, WriteShape(f), Unfinished(f), NEW i \in Idx, NEW r \in Offsets
    PROVE  DueAt(f, Done(f) + Piece(f), i * SliceSize + r) =
                IF i = First(f) /\ Intra(f) <= r /\ r < Intra(f) + Piece(f)
                THEN f.op.data[Done(f) + (r - Intra(f) + 1)]
                ELSE DueAt(f, Done(f), i * SliceSize + r)
<1>1. /\ First(f) \in Idx /\ Intra(f) \in Offsets /\ Done(f) \in Nat
      /\ f.op.off + Done(f) = First(f) * SliceSize + Intra(f)
      /\ Piece(f) \in 1..Len(f.op.rest) /\ Intra(f) + Piece(f) <= SliceSize
  BY PieceFacts
<1>2. f.op.off \in Nat /\ Len(f.op.rest) \in Nat
  BY WriteFacts
<1>3. /\ i \in Nat /\ r \in Nat /\ r < SliceSize /\ SliceSize \in Nat
      /\ i * SliceSize \in Nat /\ i * SliceSize + r \in Nat
  BY Position
<1>4. First(f) \in Nat /\ Intra(f) \in Nat /\ First(f) * SliceSize \in Nat
  BY <1>1, Position
<1> DEFINE k == i * SliceSize + r
           fs == First(f) * SliceSize
           F == First(f)
           I == Intra(f)
           n == Piece(f)
           D == Done(f)
           o == f.op.off
<1>5. i < F => k < fs
  BY <1>3, <1>4, Before
<1>6. i > F => fs + SliceSize <= k
  <2>1. i > F => F * SliceSize + SliceSize <= i * SliceSize
    BY <1>3, <1>4, NextSlice
  <2> QED
    BY <1>3, <1>4, <2>1
<1>7. i = F => k = fs + r
  OBVIOUS
<1>8. /\ k \in Nat /\ fs \in Nat /\ F \in Nat /\ I \in Nat /\ n \in Nat /\ D \in Nat /\ o \in Nat
      /\ o + D = fs + I /\ I + n <= SliceSize /\ SliceSize \in Nat /\ r \in Nat /\ i \in Nat
  BY <1>1, <1>2, <1>3, <1>4
<1> HIDE DEF k, fs, F, I, n, D, o
<1>9. (o <= k /\ k < o + (D + n)) <=> (o <= k /\ k < o + D) \/ (i = F /\ I <= r /\ r < I + n)
  BY ONLY <1>5, <1>6, <1>7, <1>8
<1>10. i = F /\ I <= r /\ r < I + n => ~(k < o + D) /\ k - o + 1 = D + (r - I + 1)
  BY ONLY <1>7, <1>8
<1>11. DueAt(f, D + n, k) =
        IF i = F /\ I <= r /\ r < I + n THEN f.op.data[D + (r - I + 1)] ELSE DueAt(f, D, k)
  BY <1>9, <1>10 DEF DueAt, o
<1> QED
  BY <1>11 DEF k, fs, F, I, n, D

(* What a write or a truncation makes of the view of its user.             *)
LEMMA DuePatched ==
    ASSUME NEW f, WriteShape(f), f.view \in Seq(Nat), NEW v, v = Patch(f.view, f.op.off, f.op.data)
    PROVE  /\ \A k \in Nat : Byte(v, k) = DueAt(f, Len(f.op.data), k)
           /\ Len(v) = IF f.op.off + Len(f.op.data) > Len(f.view) THEN f.op.off + Len(f.op.data)
                       ELSE Len(f.view)
<1>1. f.op.off \in Nat /\ f.op.data \in Seq(Nat) /\ f.op.data # <<>>
  BY WriteFacts DEF WriteShape
<1> QED
  BY <1>1, PatchBytes DEF DueAt

(* The slices of a handle that is not storing any.                         *)
LEMMA HoldingIdle ==
    ASSUME NEW f, f.pc \notin Putting, NEW i
    PROVE  Holding(f, i) = IF f.act = i THEN f.buf ELSE Slice(f.new[i])
  BY DEF Holding

(* A kept slice is read as it is.                                          *)
LEMMA PlainHolds ==
    ASSUME NEW f, f.pc \notin Putting, NEW i, Kept(f, i)
    PROVE  Plain(f, i) = Holding(f, i)
<1>1. f.old[i] = Nil \/ f.act = i \/ f.new[i] # Nil
  BY DEF Kept
<1> QED
  BY <1>1, HoldingIdle DEF Plain, Source, Slice

LEMMA IdxNil == Nil \notin Idx /\ Nil \notin Nat
  BY IdxNat, FileAssumption

LEMMA FirstLast ==
    ASSUME NEW f, WriteShape(f), Unfinished(f)
    PROVE  First(f) \in Nat /\ Last(f) \in Nat /\ First(f) <= Last(f)
<1>1. /\ f.op.off \in Nat /\ Len(f.op.data) \in Nat /\ Len(f.op.data) > 0 /\ Len(f.op.rest) > 0
      /\ Done(f) \in Nat /\ Done(f) + Len(f.op.rest) = Len(f.op.data)
  BY WriteFacts DEF Unfinished
<1> DEFINE a == f.op.off + Done(f)
           b == f.op.off + Len(f.op.data) - 1
<1>2. a \in Nat /\ b \in Nat /\ a <= b
  <2> DEFINE e == Len(f.op.data)
             m == Len(f.op.rest)
             d == Done(f)
             o == f.op.off
  <2>1. o \in Nat /\ e \in Nat /\ e > 0 /\ m > 0 /\ d \in Nat /\ d + m = e /\ m \in Nat
    BY <1>1, WriteFacts
  <2> HIDE DEF e, m, d, o
  <2>2. o + d \in Nat /\ o + e - 1 \in Nat /\ o + d <= o + e - 1
    BY ONLY <2>1
  <2> QED
    BY <2>2 DEF e, d, o
<1>3. First(f) = a \div SliceSize /\ Last(f) = b \div SliceSize
  BY DEF First, Last
<1> HIDE DEF a, b
<1>4. PICK q \in Nat : q = b \div SliceSize
  BY <1>2, SizeFacts, DivMod
<1>5. PICK p \in Nat : p = a \div SliceSize
  BY <1>2, SizeFacts, DivMod
<1>6. a \div SliceSize <= b \div SliceSize
  BY <1>2, SizeFacts, DivMono
<1> QED
  BY <1>3, <1>4, <1>5, <1>6

(* What the steps of a write rely on.                                      *)
Writing(f) ==
    /\ Fits(f) /\ f.pc = "write" /\ WriteShape(f) /\ Unfinished(f) /\ Readable(f, First(f))
    /\ HandleReads(f)

LEMMA KeptAhead ==
    ASSUME NEW f, Writing(f), NEW i \in First(f)..Last(f)
    PROVE  Kept(f, i) /\ (i # First(f) => ~WillDrop(f, i))
<1>1. f.op.kind = "write" /\ f.op.rest # <<>>
  BY DEF Writing, WriteShape, WriteOp, Unfinished
<1> QED
  BY <1>1 DEF Writing, HandleReads, Ahead

LEMMA FilledHolds ==
    ASSUME Typed, NEW f, Writing(f), NEW i \in Idx, NEW r \in Offsets
    PROVE  /\ Filled(f) \in Seq(Nat)
           /\ DueAt(f, Done(f) + Piece(f), i * SliceSize + r) =
                IF i = First(f) THEN Byte(Filled(f), r) ELSE Byte(Holding(f, i), r)
<1>1. /\ Fits(f) /\ f.pc = "write" /\ WriteShape(f) /\ Unfinished(f) /\ Readable(f, First(f))
      /\ HandleReads(f)
  BY DEF Writing
<1>2. First(f) \in Idx /\ First(f) \in Nat /\ First(f) <= Last(f) /\ Last(f) \in Nat
  BY <1>1, FirstLast, PieceFacts
<1>3. Plain(f, First(f)) = Holding(f, First(f))
  <2>1. First(f) \in First(f)..Last(f)
    BY <1>2
  <2>2. Kept(f, First(f))
    BY <2>1, KeptAhead
  <2> QED
    BY <1>1, <2>2, PlainHolds DEF Putting
<1>4. /\ f \in Handle /\ f.writable /\ (f.act # Nil => Len(f.buf) \in 1..SliceSize)
      /\ f.op.kind = "write"
  BY <1>1, WorkingFacts DEF Fits, Working, WriteShape, WriteOp
<1>5. Plain(f, First(f)) \in Seq(Nat) /\ Len(Plain(f, First(f))) \in 0..SliceSize
  BY <1>1, <1>2, <1>4, PlainTyped
<1>6. /\ Filled(f) \in Seq(Nat)
      /\ \A q \in Nat : Byte(Filled(f), q) =
            IF Intra(f) <= q /\ q < Intra(f) + Piece(f) THEN f.op.data[Done(f) + (q - Intra(f) + 1)]
            ELSE Byte(Plain(f, First(f)), q)
  BY <1>1, <1>5, FilledFacts
<1>7. Byte(Holding(f, i), r) = DueAt(f, Done(f), i * SliceSize + r)
  <2>1. Byte(Holding(f, i), r) = Due(f, i * SliceSize + r)
    BY <1>1, <1>4 DEF HandleReads, OwnReads, Busy
  <2> QED
    BY <1>1, <1>4, <2>1, DueWrite
<1>8. r \in Nat
  BY Position
<1> QED
  BY <1>1, <1>3, <1>6, <1>7, <1>8, DuePiece

LEMMA NextPiece ==
    ASSUME NEW f, Writing(f), NEW x, Fits(x), x.pc \in {"write"} \cup Putting, x.op.kind = "write",
           x.op.off = f.op.off, x.op.data = f.op.data, x.op.rest = Left(f), x.view = f.view
    PROVE  /\ \A k : Due(x, k) = DueAt(f, Done(f) + Piece(f), k)
           /\ Last(x) = Last(f) /\ Last(f) \in Nat /\ First(f) \in Nat
           /\ x.op.rest # <<>> => First(x) = First(f) + 1
<1>1. f \in Handle /\ WriteShape(f) /\ Unfinished(f)
  BY DEF Writing, Fits
<1>2. x.op \in WriteOp
  BY WorkingFacts DEF Working, Putting
<1>3. Done(x) = Done(f) + Piece(f) /\ (x.op.rest # <<>> => First(x) = First(f) + 1)
  BY <1>1, <1>2, RestShape
<1>4. \A k : Due(x, k) = DueAt(x, Done(x), k)
  BY DueWrite
<1>5. \A k : DueAt(x, Done(x), k) = DueAt(f, Done(f) + Piece(f), k)
  BY <1>3 DEF DueAt
<1>6. Last(x) = Last(f)
  BY DEF Last
<1> QED
  BY <1>1, <1>3, <1>4, <1>5, <1>6, FirstLast

LEMMA TakenReads ==
    ASSUME Typed, NEW f, Writing(f), f.act \in {First(f), Nil}, NEW x, Fits(x), Taken(f, x)
    PROVE  HandleReads(x)
<1>1. /\ SameFile(f, x) /\ x.new = f.new /\ x.act = First(f) /\ x.buf = Filled(f)
      /\ x.pc \in {"write", "ready"}
  BY DEF Taken
<1>2. f \in Handle /\ f.writable /\ f.view \in Seq(Nat) /\ WriteShape(f) /\ Unfinished(f)
  BY WorkingFacts DEF Writing, Fits, Handle, Working
<1>3. First(f) \in Idx /\ f.pc = "write"
  BY <1>2, PieceFacts DEF Writing
<1>4. \A k \in Nat : Due(x, k) = DueAt(f, Done(f) + Piece(f), k)
  <2>1. CASE Left(f) # <<>>
    BY <2>1, NextPiece DEF Taken
  <2>2. CASE Left(f) = <<>>
    <3>1. x.pc = "ready" /\ x.view = Patch(f.view, f.op.off, f.op.data)
      BY <2>2 DEF Taken
    <3>2. Done(f) + Piece(f) = Len(f.op.data)
      <4> DEFINE m == Len(f.op.rest)
                 e == Len(f.op.data)
                 d == Done(f)
                 n == Piece(f)
      <4>1. m \in Nat /\ e \in Nat /\ d \in Nat /\ d + m = e /\ n \in 1..m
        BY <1>2, WriteFacts, PieceFacts
      <4>2. m - n = 0
        BY <1>2, <2>2, PieceFacts, EmptySeq
      <4> HIDE DEF m, e, d, n
      <4>3. d + n = e
        BY ONLY <4>1, <4>2
      <4> QED
        BY <4>3 DEF d, n, e
    <3>3. \A k \in Nat : Byte(x.view, k) = DueAt(f, Len(f.op.data), k)
      BY <1>2, <3>1, DuePatched
    <3> QED
      BY <3>1, <3>2, <3>3, DuePlain DEF Putting
  <2> QED
    BY <2>1, <2>2
<1>5. LoadReads(x) /\ SnapReads(x)
  BY <1>1, <1>2 DEF LoadReads, SnapReads, SameFile
<1>6. SizeReads(x)
  <2>1. f.size = Len(f.view)
    BY <1>3 DEF Writing, HandleReads, SizeReads
  <2>2. Left(f) = <<>> => x.size = Len(x.view)
    BY <1>2, <2>1, DuePatched DEF Taken
  <2>3. Left(f) # <<>> => x.size = Len(x.view)
    BY <2>1 DEF Taken
  <2> QED
    BY <2>2, <2>3 DEF SizeReads
<1>7. OwnReads(x)
  <2> SUFFICES ASSUME NEW i \in Idx, NEW r \in Offsets
               PROVE  Byte(Holding(x, i), r) = Due(x, i * SliceSize + r)
    BY DEF OwnReads
  <2>1. DueAt(f, Done(f) + Piece(f), i * SliceSize + r) =
            IF i = First(f) THEN Byte(Filled(f), r) ELSE Byte(Holding(f, i), r)
    BY FilledHolds
  <2>2. Holding(x, i) = IF i = First(f) THEN Filled(f) ELSE Slice(f.new[i])
    BY <1>1, HoldingIdle DEF Putting
  <2>3. i # First(f) => Holding(f, i) = Slice(f.new[i])
    BY <1>3, HoldingIdle, IdxNil DEF Putting
  <2>4. i * SliceSize + r \in Nat
    BY Position
  <2> QED
    BY <1>4, <2>1, <2>2, <2>3, <2>4
<1>8. Ahead(x)
  <2> SUFFICES ASSUME x.pc = "write", x.op.rest # <<>>, NEW i \in First(x)..Last(x)
               PROVE  Kept(x, i) /\ (i # First(x) => ~WillDrop(x, i))
    BY <1>1 DEF Ahead, Putting
  <2>1. Left(f) # <<>>
    BY DEF Taken
  <2>2. First(x) = First(f) + 1 /\ Last(x) = Last(f) /\ First(f) \in Nat /\ Last(f) \in Nat
    BY <2>1, NextPiece DEF Taken
  <2>3. i \in First(f)..Last(f) /\ i # First(f) /\ i # Nil
    BY <2>2, IdxNil
  <2>4. Kept(f, i)
    BY <2>3, KeptAhead
  <2>5. f.old[i] = Nil \/ f.new[i] # Nil
    BY <1>3, <2>3, <2>4 DEF Kept, Putting
  <2>6. x.act # i
    BY <1>1, <2>3
  <2> QED
    BY <1>1, <2>5, <2>6 DEF Kept, WillDrop, SameFile, Putting
<1> QED
  BY <1>5, <1>6, <1>7, <1>8 DEF HandleReads

LEMMA TurnedReads ==
    ASSUME Typed, NEW f, Writing(f), f.act \notin {First(f), Nil}, NEW x, Fits(x), Turned(f, x)
    PROVE  HandleReads(x)
<1>1. /\ SameFile(f, x) /\ x.new = f.new /\ x.act = Nil /\ x.pc = "flush" /\ x.size = f.size
      /\ x.view = f.view /\ x.out.idx = f.act /\ x.out.data = f.buf /\ x.op.kind = "write"
      /\ x.op.next.idx = First(f) /\ x.op.next.buf = Filled(f)
  BY DEF Turned
<1>2. f \in Handle /\ f.writable /\ WriteShape(f) /\ Unfinished(f)
  BY WorkingFacts DEF Writing, Fits, Handle, Working
<1>3. First(f) \in Idx /\ f.pc = "write"
  BY <1>2, PieceFacts DEF Writing
<1>4. \A k : Due(x, k) = DueAt(f, Done(f) + Piece(f), k)
  BY NextPiece DEF Turned, Putting
<1>5. LoadReads(x) /\ SnapReads(x) /\ SizeReads(x)
  BY <1>1, <1>3 DEF LoadReads, SnapReads, SizeReads, Writing, HandleReads
<1>7. OwnReads(x)
  <2> SUFFICES ASSUME NEW i \in Idx, NEW r \in Offsets
               PROVE  Byte(Holding(x, i), r) = Due(x, i * SliceSize + r)
    BY DEF OwnReads
  <2>1. DueAt(f, Done(f) + Piece(f), i * SliceSize + r) =
            IF i = First(f) THEN Byte(Filled(f), r) ELSE Byte(Holding(f, i), r)
    BY FilledHolds
  <2>2. Holding(x, i) = IF i = f.act THEN f.buf ELSE IF i = First(f) THEN Filled(f) ELSE Slice(f.new[i])
    BY <1>1, IdxNil DEF Holding, Putting
  <2>3. Holding(f, i) = IF i = f.act THEN f.buf ELSE Slice(f.new[i])
    BY <1>3, HoldingIdle DEF Putting
  <2> QED
    BY <1>4, <2>1, <2>2, <2>3
<1>8. Ahead(x)
  <2> SUFFICES ASSUME x.op.rest # <<>>, NEW i \in First(x)..Last(x)
               PROVE  Kept(x, i)
    BY <1>1 DEF Ahead, Putting
  <2>1. Left(f) # <<>>
    BY DEF Turned
  <2>2. First(x) = First(f) + 1 /\ Last(x) = Last(f) /\ First(f) \in Nat /\ Last(f) \in Nat
    BY <2>1, NextPiece DEF Turned, Putting
  <2>3. i \in First(f)..Last(f) /\ i # First(f) /\ i # Nil
    BY <2>2, IdxNil
  <2>4. Kept(f, i) /\ ~WillDrop(f, i)
    BY <2>3, KeptAhead
  <2>5. i = f.act => f.old[i] = Nil \/ ~AllZero(f.buf)
    BY <2>4 DEF WillDrop
  <2>6. i # f.act => f.old[i] = Nil \/ f.new[i] # Nil
    BY <1>3, <2>4 DEF Kept, Putting
  <2> QED
    BY <1>1, <2>5, <2>6 DEF Kept, SameFile, Putting
<1> QED
  BY <1>5, <1>7, <1>8 DEF HandleReads

(* A slice that has been stored, or has become a hole, holds what it held. *)
LEMMA PutReads ==
    ASSUME Typed, NEW f, Fits(f), f.pc \in Putting, HandleReads(f), NEW x, Fits(x), Put(f, x),
           NEW c \in Chunks \cup {Nil}, x.new = [f.new EXCEPT ![f.out.idx] = c],
           \A r \in Offsets : Byte(Slice(c), r) = Byte(f.out.data, r), c = Nil => AllZero(f.out.data)
    PROVE  HandleReads(x)
<1>1. /\ f \in Handle /\ f.writable /\ f.view \in Seq(Nat) /\ f.new \in Rows /\ f.out.idx \in Idx
      /\ f.out.idx # f.act /\ (f.op.kind # "cut" => f.act = Nil)
      /\ f.pc \notin {"stat", "write", "cut"} /\ f.size = Len(f.view)
  BY WorkingFacts DEF Fits, Handle, Working, Putting, HandleReads, SizeReads
<1>2. \/ f.op.kind = "write" /\ f.op \in WriteOp /\ WriteShape(f)
      \/ f.op.kind = "cut" /\ f.op \in CutOp /\ CutShape(f)
      \/ f.op.kind \in {"sync", "close"}
  BY WorkingFacts DEF Working, Putting
<1>3. \A i \in Idx : x.new[i] = IF i = f.out.idx THEN c ELSE f.new[i]
  BY <1>1 DEF Rows
<1>4. SameFile(f, x) /\ x.pc \in {"write", "ready", "commit", "discard"}
  BY <1>2 DEF Put
<1>5. LoadReads(x) /\ SnapReads(x)
  BY <1>1, <1>4 DEF LoadReads, SnapReads, SameFile
<1>6. ASSUME NEW i \in Idx, NEW r \in Offsets PROVE Byte(Holding(x, i), r) = Byte(Holding(f, i), r)
  <2>1. Holding(x, i) = IF x.act = i THEN x.buf ELSE Slice(x.new[i])
    BY <1>4, HoldingIdle DEF Putting
  <2>2. CASE f.op.kind = "write"
    <3>1. x.act = f.op.next.idx /\ x.buf = f.op.next.buf /\ f.op.next.idx # f.out.idx /\ f.act # i
      BY <1>1, <1>2, <2>2, IdxNil DEF Put, WriteShape
    <3>2. Holding(f, i) = IF f.out.idx = i THEN f.out.data
                          ELSE IF f.op.next.idx = i THEN f.op.next.buf ELSE Slice(f.new[i])
      BY <2>2, <3>1 DEF Holding
    <3> QED
      BY <1>3, <2>1, <3>1, <3>2
  <2>3. CASE f.op.kind # "write"
    <3>1. x.act = f.act /\ x.buf = f.buf
      BY <2>3 DEF Put
    <3>2. Holding(f, i) = IF f.out.idx = i THEN f.out.data ELSE IF f.act = i THEN f.buf ELSE Slice(f.new[i])
      BY <2>3 DEF Holding
    <3> QED
      BY <1>1, <1>3, <2>1, <3>1, <3>2
  <2> QED
    BY <2>2, <2>3
<1>7. SizeReads(x) /\ \A k \in Nat : Due(x, k) = Due(f, k)
  <2>1. CASE f.op.kind = "write" /\ f.op.rest # <<>>
    <3>1. x.pc = "write" /\ x.op = f.op /\ x.size = f.size /\ x.view = f.view
      BY <2>1 DEF Put
    <3>2. \A k : Due(f, k) = DueAt(f, Done(f), k) /\ Due(x, k) = DueAt(x, Done(x), k)
      BY <2>1, <3>1, DueWrite
    <3>3. Done(x) = Done(f) /\ \A k, m : DueAt(x, m, k) = DueAt(f, m, k)
      BY <3>1 DEF Done, DueAt
    <3> QED
      BY <1>1, <3>1, <3>2, <3>3 DEF SizeReads
  <2>2. CASE f.op.kind = "write" /\ f.op.rest = <<>>
    <3>1. /\ x.pc = "ready" /\ x.view = Patch(f.view, f.op.off, f.op.data)
          /\ x.size = IF f.op.off + Len(f.op.data) > f.size THEN f.op.off + Len(f.op.data) ELSE f.size
      BY <2>2 DEF Put
    <3>2. WriteShape(f)
      BY <1>2, <2>2
    <3>3. Done(f) = Len(f.op.data)
      <4>1. Len(f.op.rest) = 0 /\ Len(f.op.data) \in Nat
        BY <2>2, <3>2, WriteFacts, EmptySeq
      <4> QED
        BY ONLY <4>1 DEF Done
    <3>4. \A k : Due(f, k) = DueAt(f, Len(f.op.data), k)
      BY <2>2, <3>3, DueWrite
    <3>5. \A k \in Nat : Due(x, k) = Byte(x.view, k)
      BY <3>1, DuePlain DEF Putting
    <3>6. x.size = Len(x.view) /\ \A k \in Nat : Byte(x.view, k) = DueAt(f, Len(f.op.data), k)
      BY <1>1, <3>1, <3>2, DuePatched
    <3> QED
      BY <3>4, <3>5, <3>6 DEF SizeReads
  <2>3. CASE f.op.kind = "cut"
    <3>1. x.pc = "ready" /\ x.size = f.op.size /\ x.view = Resize(f.view, f.op.size)
      BY <2>3 DEF Put
    <3>2. f.op.size \in Nat
      BY <1>2, <2>3, SizeFacts DEF CutOp
    <3>3. \A k \in Nat : Due(x, k) = Byte(x.view, k)
      BY <3>1, DuePlain DEF Putting
    <3>4. /\ Len(x.view) = f.op.size
          /\ \A k \in Nat : Byte(x.view, k) = IF k < f.op.size THEN Byte(f.view, k) ELSE 0
      <4>1. f.view \in Seq(Nat) /\ f.op.size \in Nat /\ x.view = Resize(f.view, f.op.size)
        BY <1>1, <3>1, <3>2
      <4>2. /\ Len(Resize(f.view, f.op.size)) = f.op.size
            /\ \A k \in Nat : Byte(Resize(f.view, f.op.size), k) =
                                IF k < f.op.size THEN Byte(f.view, k) ELSE 0
        BY ONLY <4>1, ResizeBytes, Zenon
      <4> QED
        BY <4>1, <4>2
    <3>5. \A k \in Nat : Due(f, k) = IF k >= f.op.size THEN 0 ELSE Byte(f.view, k)
      BY <2>3 DEF Due
    <3>6. \A k \in Nat : k >= f.op.size <=> ~(k < f.op.size)
      BY <3>2
    <3> QED
      BY <3>1, <3>3, <3>4, <3>5, <3>6 DEF SizeReads
  <2>4. CASE f.op.kind \in {"sync", "close"}
    <3>1. x.size = f.size /\ x.view = f.view /\ x.pc \in {"ready", "commit", "discard"}
      BY <2>4 DEF Put
    <3>2. \A k : Due(f, k) = Byte(f.view, k)
      BY <2>4 DEF Due
    <3>3. \A k : Due(x, k) = Byte(x.view, k)
      BY <3>1, DuePlain DEF Putting
    <3> QED
      BY <1>1, <3>1, <3>2, <3>3 DEF SizeReads
  <2> QED
    BY <1>2, <2>1, <2>2, <2>3, <2>4
<1>8. OwnReads(x)
  <2> SUFFICES ASSUME NEW i \in Idx, NEW r \in Offsets
               PROVE  Byte(Holding(x, i), r) = Due(x, i * SliceSize + r)
    BY DEF OwnReads
  <2>1. Byte(Holding(f, i), r) = Due(f, i * SliceSize + r)
    BY <1>1 DEF HandleReads, OwnReads, Busy, Putting
  <2>2. i * SliceSize + r \in Nat
    BY Position
  <2> QED
    BY <1>6, <1>7, <2>1, <2>2
<1>9. Ahead(x)
  <2> SUFFICES ASSUME x.pc = "write", x.op.kind = "write", x.op.rest # <<>>, NEW i \in First(x)..Last(x)
               PROVE  Kept(x, i) /\ ~WillDrop(x, i)
    BY <1>4 DEF Ahead, Putting
  <2>1. f.op.kind = "write" /\ f.op.rest # <<>> /\ x.op = f.op /\ x.act = f.op.next.idx
    <3>1. f.op.kind = "write"
      BY <1>2 DEF Put
    <3> QED
      BY <3>1 DEF Put
  <2>2. WriteShape(f) /\ First(x) = First(f) /\ Last(x) = Last(f)
    BY <1>2, <2>1 DEF First, Last, Done
  <2>3. First(f) \in Nat /\ Last(f) \in Nat /\ First(f) = f.op.next.idx + 1 /\ f.op.next.idx \in Idx
    BY <2>1, <2>2, FirstLast DEF WriteShape, Unfinished
  <2>4. i \in First(f)..Last(f) /\ i # Nil /\ i # x.act
    BY <2>1, <2>2, <2>3, IdxNat, IdxNil
  <2>5. Kept(f, i)
    BY <2>1, <2>4 DEF HandleReads, Ahead
  <2>6. i \in Idx
    <3>1. f.op.off \in Nat /\ f.op.off + Len(f.op.data) <= MaxSize /\ Len(f.op.data) \in Nat /\ Len(f.op.data) > 0
      BY <2>2, WriteFacts DEF WriteShape
    <3>2. Last(f) <= (MaxSize - 1) \div SliceSize /\ (MaxSize - 1) \div SliceSize \in Nat
      <4> DEFINE e == f.op.off + Len(f.op.data) - 1
      <4>1. e \in Nat /\ MaxSize - 1 \in Nat /\ e <= MaxSize - 1
        BY <3>1, SizeFacts
      <4>2. Last(f) = e \div SliceSize
        BY DEF Last
      <4> HIDE DEF e
      <4>3. PICK q \in Nat : q = (MaxSize - 1) \div SliceSize
        BY <4>1, SizeFacts, DivMod
      <4> QED
        BY <4>1, <4>2, <4>3, SizeFacts, DivMono
    <3> QED
      BY <2>3, <2>4, <3>2 DEF Idx
  <2>7. i # f.out.idx => x.new[i] = f.new[i]
    BY <1>3, <2>6
  <2>8. i = f.out.idx => x.new[i] = c
    BY <1>3, <2>6
  <2>9. f.act # i
    BY <1>1, <2>1, <2>4
  <2>10. x.old = f.old
    BY <1>4 DEF SameFile
  <2> QED
    BY <2>4, <2>5, <2>7, <2>8, <2>9, <2>10 DEF Kept, WillDrop, Putting
<1> QED
  BY <1>5, <1>7, <1>8, <1>9 DEF HandleReads

LEMMA StoredReads ==
    ASSUME NEW f, f.pc = "flush", f.writable, HandleReads(f), NEW x, NEW c, Stored(f, x, c)
    PROVE  HandleReads(x)
<1>1. /\ SameFile(f, x) /\ x.pc = "store" /\ x.new = f.new /\ x.size = f.size /\ x.view = f.view
      /\ x.act = f.act /\ x.buf = f.buf /\ x.out = f.out /\ x.op = f.op
  BY DEF Stored
<1>2. Done(x) = Done(f) /\ First(x) = First(f) /\ Last(x) = Last(f)
  BY <1>1 DEF Done, First, Last
<1>3. LoadReads(x) /\ SizeReads(x) /\ SnapReads(x)
  BY <1>1 DEF HandleReads, LoadReads, SizeReads, SnapReads
<1>4. ASSUME NEW i \in Idx, NEW r \in Offsets PROVE Byte(Holding(x, i), r) = Due(x, i * SliceSize + r)
  <2>1. Holding(x, i) = Holding(f, i)
    BY <1>1 DEF Holding, Putting
  <2>2. \A k : Due(x, k) = Due(f, k)
    BY <1>1, <1>2 DEF Due, Putting
  <2>3. Byte(Holding(f, i), r) = Due(f, i * SliceSize + r)
    BY <1>1 DEF HandleReads, OwnReads, Busy, SameFile
  <2> QED
    BY <2>1, <2>2, <2>3
<1>5. Ahead(x)
  <2>1. \A i : Kept(x, i) <=> Kept(f, i)
    BY <1>1 DEF Kept, SameFile, Putting
  <2> QED
    BY <1>1, <1>2, <2>1 DEF HandleReads, Ahead, Putting
<1>6. OwnReads(x)
  BY <1>1, <1>4 DEF OwnReads
<1> QED
  BY <1>3, <1>5, <1>6 DEF HandleReads

(* A sync or a close, and the begin of a write.                            *)
LEMMA FlushReads ==
    ASSUME NEW f, f.pc = "ready", f.writable, HandleReads(f), NEW x, SameFile(f, x),
           x.new = f.new, x.size = f.size, x.view = f.view, x.act = Nil,
           \/ f.act = Nil /\ x.pc \in {"commit", "discard"}
           \/ /\ f.act # Nil /\ x.pc = "flush" /\ x.op.kind \in {"sync", "close"}
              /\ x.out.idx = f.act /\ x.out.data = f.buf
    PROVE  HandleReads(x)
<1>1. LoadReads(x) /\ SizeReads(x) /\ SnapReads(x) /\ Ahead(x)
  BY DEF HandleReads, LoadReads, SizeReads, SnapReads, Ahead, Putting
<1>2. ASSUME NEW i \in Idx, NEW r \in Offsets PROVE Byte(Holding(x, i), r) = Due(x, i * SliceSize + r)
  <2>1. Holding(x, i) = Holding(f, i)
    BY IdxNil DEF Holding, Putting
  <2>2. \A k : Due(x, k) = Due(f, k)
    BY DEF Due, Putting
  <2>3. Byte(Holding(f, i), r) = Due(f, i * SliceSize + r)
    BY DEF HandleReads, OwnReads
  <2> QED
    BY <2>1, <2>2, <2>3
<1> QED
  BY <1>1, <1>2 DEF HandleReads, OwnReads

LEMMA WriteAtReads ==
    ASSUME NEW f, f.pc = "ready", f.writable, HandleReads(f), NEW x, SameFile(f, x), Fits(x),
           NEW off \in Nat, NEW p \in Seq(Nat), "dropped" \notin Overlaps,
           MayTouch(f, off \div SliceSize, (off + Len(p) - 1) \div SliceSize),
           x.op = [kind |-> "write", off |-> off, data |-> p, rest |-> p, next |-> Nil],
           x.new = f.new, x.size = f.size, x.view = f.view, x.act = f.act, x.buf = f.buf, x.pc = "write"
    PROVE  HandleReads(x)
<1>1. LoadReads(x) /\ SizeReads(x) /\ SnapReads(x)
  BY DEF HandleReads, LoadReads, SizeReads, SnapReads
<1>2. x.op.off = off /\ x.op.data = p /\ x.op.rest = p /\ x.op.kind = "write" /\ Len(p) \in Nat
  BY LenProperties
<1>3. Done(x) = 0
  BY <1>2 DEF Done
<1>4. First(x) = off \div SliceSize /\ Last(x) = (off + Len(p) - 1) \div SliceSize
  BY <1>2, <1>3 DEF First, Last
<1>5. Ahead(x)
  <2> SUFFICES ASSUME NEW i \in First(x)..Last(x) PROVE Kept(x, i) /\ (i # First(x) => ~WillDrop(x, i))
    BY DEF Ahead, Putting
  <2>1. ~Dropped(f, i) /\ (i # First(x) => ~WillDrop(f, i))
    BY <1>4 DEF MayTouch
  <2>2. Kept(x, i)
    BY <2>1 DEF Dropped, Kept, SameFile, Putting
  <2>3. WillDrop(x, i) <=> WillDrop(f, i)
    BY DEF WillDrop, SameFile
  <2> QED
    BY <2>1, <2>2, <2>3
<1>6. ASSUME NEW i \in Idx, NEW r \in Offsets PROVE Byte(Holding(x, i), r) = Due(x, i * SliceSize + r)
  <2>1. Holding(x, i) = Holding(f, i)
    BY DEF Holding, Putting
  <2>2. i * SliceSize + r \in Nat
    BY Position
  <2>3. \A k \in Nat : Due(x, k) = Byte(x.view, k)
    <3>1. \A k \in Nat : ~(off <= k /\ k < off + 0)
      OBVIOUS
    <3> QED
      BY <1>2, <1>3, <3>1 DEF Due
  <2>4. \A k : Due(f, k) = Byte(f.view, k)
    BY DuePlain DEF Putting
  <2>5. Byte(Holding(f, i), r) = Due(f, i * SliceSize + r)
    BY DEF HandleReads, OwnReads
  <2> QED
    BY <2>1, <2>2, <2>3, <2>4, <2>5
<1>7. OwnReads(x)
  BY <1>6 DEF OwnReads
<1> QED
  BY <1>1, <1>5, <1>7 DEF HandleReads

(* The opening of a file.                                                  *)
LEMMA InheritReads ==
    ASSUME NEW f, f.pc = "born", HandleReads(f), NEW x, x.pc = "ready", x.writable, x.new = f.old,
           x.act = Nil, x.size = f.size, x.view = f.view
    PROVE  HandleReads(x)
<1>1. LoadReads(x) /\ SizeReads(x) /\ SnapReads(x) /\ Ahead(x)
  BY DEF HandleReads, LoadReads, SizeReads, SnapReads, Ahead, Putting
<1>2. ASSUME NEW i \in Idx, NEW r \in Offsets PROVE Byte(Holding(x, i), r) = Due(x, i * SliceSize + r)
  <2>1. Holding(x, i) = Slice(f.old[i])
    BY IdxNil DEF Holding, Putting
  <2>2. \A k : Due(x, k) = Byte(f.view, k)
    BY DEF Due, Putting
  <2>3. Byte(Slice(f.old[i]), r) = Byte(f.view, i * SliceSize + r)
    BY DEF HandleReads, SnapReads
  <2> QED
    BY <2>1, <2>2, <2>3
<1> QED
  BY <1>1, <1>2 DEF HandleReads, OwnReads

LEMMA NewVersionReads ==
    ASSUME NEW f, f.pc = "snapshot", HandleReads(f), NEW x, x.writable, x.new = NoRows, x.old = f.old,
           x.pc = IF f.old = NoRows THEN "ready" ELSE "born",
           x.act = Nil, x.size = f.size, x.view = f.view
    PROVE  HandleReads(x)
<1>1. LoadReads(x) /\ SizeReads(x) /\ SnapReads(x) /\ Ahead(x)
  BY DEF HandleReads, LoadReads, SizeReads, SnapReads, Ahead, Putting
<1>2. ASSUME NEW i \in Idx, NEW r \in Offsets, x.pc = "ready"
      PROVE  Byte(Holding(x, i), r) = Due(x, i * SliceSize + r)
  <2>1. Holding(x, i) = Slice(f.old[i])
    BY <1>2, IdxNil DEF Holding, Putting
  <2>2. \A k : Due(x, k) = Byte(f.view, k)
    BY <1>2 DEF Due, Putting
  <2>3. Byte(Slice(f.old[i]), r) = Byte(f.view, i * SliceSize + r)
    BY DEF HandleReads, SnapReads
  <2> QED
    BY <2>1, <2>2, <2>3
<1>3. OwnReads(x)
  <2>1. x.pc = "ready" \/ x.pc = "born"
    OBVIOUS
  <2> QED
    BY <1>2, <2>1 DEF OwnReads, Busy
<1> QED
  BY <1>1, <1>3 DEF HandleReads

(* The slices of a truncated file: shorter by what lies past the new end,  *)
(* but for the one that is still to be trimmed.                            *)
LEMMA CutHolds ==
    ASSUME NEW f, Fits(f), f.pc = "ready", f.writable, NEW n \in Nat, n < f.size,
           NEW x, Cut(f, x, n), x.pc \in {"ready", "cut"}, NEW i \in Idx, NEW r \in Offsets
    PROVE  \/ i = n \div SliceSize /\ r >= n % SliceSize /\ n % SliceSize # 0 /\ x.act # i
           \/ Byte(Holding(x, i), r) = IF i * SliceSize + r < n THEN Byte(Holding(f, i), r) ELSE 0
<1>1. PICK q \in Nat, m \in Offsets :
        /\ q = n \div SliceSize /\ m = n % SliceSize /\ n = q * SliceSize + m
        /\ Slices(n) = (IF m = 0 THEN q ELSE q + 1) /\ Slices(n) \in Nat
  BY CutFacts
<1>2. /\ i \in Nat /\ r \in Nat /\ r < SliceSize /\ SliceSize \in Nat
      /\ i * SliceSize \in Nat /\ i * SliceSize + r \in Nat
  BY Position
<1>3. m \in Nat /\ m < SliceSize /\ q * SliceSize \in Nat
  BY <1>1, SizeFacts DEF Offsets
<1>4. /\ f.act \in Idx \cup {Nil} /\ f.buf \in Seq(Nat) /\ (f.act = Nil => f.buf = <<>>)
      /\ f.new \in Rows
  BY DEF Fits, Handle, HandleShape
<1>5. /\ x.act = CutAct(f, n) /\ x.buf = CutBuf(f, n) /\ x.new = CutNew(f, n)
  BY DEF Cut
<1>6. /\ Holding(x, i) = IF x.act = i THEN x.buf ELSE Slice(x.new[i])
      /\ Holding(f, i) = IF f.act = i THEN f.buf ELSE Slice(f.new[i])
  BY HoldingIdle DEF Putting
<1>7. i # Nil
  BY IdxNil
<1> DEFINE k == i * SliceSize + r
<1>8. CASE i >= Slices(n)
  <2>1. x.act # i /\ x.new[i] = Nil
    BY <1>4, <1>5, <1>7, <1>8 DEF CutAct, CutNew
  <2>2. Byte(Holding(x, i), r) = 0
    BY <1>2, <1>6, <2>1, ByteEmpty DEF Slice
  <2>3. ~(k < n)
    <3>1. CASE i = q
      <4>1. m = 0
        BY <1>1, <1>2, <1>8, <3>1
      <4>2. i * SliceSize = q * SliceSize
        BY <3>1
      <4>3. i * SliceSize \in Nat /\ r \in Nat /\ n = q * SliceSize + m
        BY <1>1, <1>2
      <4> HIDE DEF k
      <4>4. k = i * SliceSize + r
        BY DEF k
      <4> QED
        BY ONLY <1>3, <4>1, <4>2, <4>3, <4>4, n \in Nat
    <3>2. CASE i # q
      <4>1. q < i
        BY <1>1, <1>2, <1>8, <3>2
      <4>2. q * SliceSize + m < i * SliceSize
        BY <1>1, <1>2, <4>1, Before
      <4>3. i * SliceSize \in Nat /\ r \in Nat /\ n = q * SliceSize + m
        BY <1>1, <1>2
      <4>4. k = i * SliceSize + r
        OBVIOUS
      <4> HIDE DEF k
      <4> QED
        BY ONLY <1>3, <4>2, <4>3, <4>4, n \in Nat
    <3> QED
      BY <3>1, <3>2
  <2> QED
    BY <2>2, <2>3
<1>9. CASE ~(i >= Slices(n)) /\ i # q
  <2>1. i < q
    BY <1>1, <1>2, <1>9
  <2>2. k < n
    <3>1. i * SliceSize + r < q * SliceSize
      BY <1>1, <1>2, <2>1, Before
    <3>2. i * SliceSize \in Nat /\ r \in Nat /\ n = q * SliceSize + m
      BY <1>1, <1>2
    <3>3. k = i * SliceSize + r
      OBVIOUS
    <3> HIDE DEF k
    <3> QED
      BY ONLY <1>3, <3>1, <3>2, <3>3, n \in Nat
  <2>3. x.new[i] = f.new[i] /\ (x.act = i <=> f.act = i)
    BY <1>5, <1>7, <1>9 DEF CutAct, CutNew
  <2>4. f.act = i => x.buf = f.buf
    BY <1>1, <1>5, <1>7, <1>9 DEF CutBuf
  <2>5. Holding(x, i) = Holding(f, i)
    BY <1>6, <2>3, <2>4
  <2> QED
    BY <2>2, <2>5
<1>10. CASE ~(i >= Slices(n)) /\ i = q
  <2>1. m # 0
    BY <1>1, <1>2, <1>10
  <2>2. x.new[i] = f.new[i] /\ (x.act = i <=> f.act = i)
    BY <1>5, <1>7, <1>10 DEF CutAct, CutNew
  <2>3. k < n <=> r < m
    <3>1. i * SliceSize = q * SliceSize
      BY <1>10
    <3>2. i * SliceSize \in Nat /\ r \in Nat /\ n = q * SliceSize + m /\ k = i * SliceSize + r
      BY <1>1, <1>2
    <3> HIDE DEF k
    <3> QED
      BY ONLY <1>3, <3>1, <3>2
  <2>4. CASE x.act # i
    <3>1. Holding(x, i) = Holding(f, i)
      BY <1>6, <2>2, <2>4
    <3>2. CASE r >= m
      BY <1>1, <1>10, <2>1, <2>4, <3>2
    <3>3. CASE ~(r >= m)
      <4>1. r < m
        BY <1>2, <1>3, <3>3
      <4> QED
        BY <2>3, <3>1, <4>1
    <3> QED
      BY <3>2, <3>3
  <2>5. CASE x.act = i
    <3>1. f.act = i /\ Holding(x, i) = x.buf /\ Holding(f, i) = f.buf
      BY <1>6, <2>2, <2>5
    <3>2. x.buf = IF m < Len(f.buf) THEN SubSeq(f.buf, 1, m) ELSE f.buf
      BY <1>1, <1>5, <1>7, <1>10, <2>1, <3>1 DEF CutBuf
    <3>3. Byte(x.buf, r) = IF r < m THEN Byte(f.buf, r) ELSE 0
      <4>0. Len(f.buf) \in Nat
        BY <1>4, LenProperties
      <4>1. CASE m < Len(f.buf)
        <5>1. 1 \in Nat \ {0} /\ m <= Len(f.buf) /\ 1 <= m + 1
          BY <1>3, <4>0, <4>1
        <5>2. Len(SubSeq(f.buf, 1, m)) = m - 1 + 1 /\ \A j \in 1..(m - 1 + 1) : SubSeq(f.buf, 1, m)[j] = f.buf[1 + j - 1]
          BY <1>3, <1>4, <5>1, SubSeqBytes
        <5> DEFINE b == SubSeq(f.buf, 1, m)
        <5>3. Len(b) = m /\ \A j \in 1..m : b[j] = f.buf[j]
          BY <1>3, <5>2
        <5>4. x.buf = b
          BY <3>2, <4>1
        <5> HIDE DEF b
        <5>5. r < m => b[r + 1] = f.buf[r + 1] /\ r < Len(f.buf)
          BY <1>2, <1>3, <4>0, <4>1, <5>3
        <5> QED
          BY <1>2, <1>3, <5>3, <5>4, <5>5 DEF Byte
      <4>2. CASE ~(m < Len(f.buf))
        <5>1. x.buf = f.buf
          BY <3>2, <4>2
        <5>2. r < m \/ ~(r < Len(f.buf))
          BY <1>2, <1>3, <4>0, <4>2
        <5> QED
          BY <5>1, <5>2 DEF Byte
      <4> QED
        BY <4>1, <4>2
    <3> QED
      BY <2>3, <3>1, <3>3
  <2> QED
    BY <2>4, <2>5
<1> QED
  BY <1>8, <1>9, <1>10

(* A truncation, whether or not a slice is still to be trimmed.            *)
LEMMA CutReads ==
    ASSUME NEW f, Fits(f), f.pc = "ready", f.writable, HandleReads(f), NEW n \in Nat, n < f.size,
           n % SliceSize # 0 => Kept(f, n \div SliceSize),
           NEW x, Cut(f, x, n),
           \/ /\ n % SliceSize # 0 /\ x.act # n \div SliceSize
              /\ x.pc = "cut" /\ x.op = [kind |-> "cut", size |-> n]
              /\ x.size = f.size /\ x.view = f.view
           \/ /\ n % SliceSize = 0 \/ x.act = n \div SliceSize
              /\ x.pc = "ready" /\ x.size = n /\ x.view = Resize(f.view, n)
    PROVE  HandleReads(x)
<1>1. /\ SameFile(f, x) /\ x.act = CutAct(f, n) /\ x.new = CutNew(f, n) /\ x.pc \in {"ready", "cut"}
  BY DEF Cut
<1>2. f.view \in Seq(Nat) /\ f.size = Len(f.view)
  BY DEF Fits, Handle, HandleReads, SizeReads
<1>3. \A k : Due(f, k) = Byte(f.view, k)
  BY DuePlain DEF Putting
<1>4. /\ Len(Resize(f.view, n)) = n
      /\ \A k \in Nat : Byte(Resize(f.view, n), k) = IF k < n THEN Byte(f.view, k) ELSE 0
  BY ONLY <1>2, n \in Nat, ResizeBytes, Zenon
<1>5. LoadReads(x) /\ SnapReads(x)
  BY <1>1 DEF LoadReads, SnapReads, SameFile
<1>6. SizeReads(x)
  BY <1>2, <1>4 DEF SizeReads
<1>7. \A k \in Nat : Due(x, k) = IF k < n THEN Byte(f.view, k) ELSE 0
  <2>1. CASE x.pc = "ready"
    <3>1. \A k \in Nat : Due(x, k) = Byte(x.view, k)
      BY <2>1, DuePlain DEF Putting
    <3>2. x.view = Resize(f.view, n)
      BY <2>1
    <3> QED
      BY <1>4, <3>1, <3>2
  <2>2. CASE x.pc = "cut"
    <3>1. x.op.kind = "cut" /\ x.op.size = n /\ x.view = f.view
      BY <2>2
    <3>2. \A k \in Nat : Due(x, k) = IF k >= n THEN 0 ELSE Byte(f.view, k)
      BY <2>2, <3>1 DEF Due, Putting
    <3> QED
      BY <3>2
  <2> QED
    BY <1>1, <2>1, <2>2
<1>8. ASSUME NEW i \in Idx, NEW r \in Offsets
      PROVE  \/ x.pc = "cut" /\ i = Edge(x) /\ r >= x.op.size % SliceSize
             \/ Byte(Holding(x, i), r) = Due(x, i * SliceSize + r)
  <2>1. \/ i = n \div SliceSize /\ r >= n % SliceSize /\ n % SliceSize # 0 /\ x.act # i
        \/ Byte(Holding(x, i), r) = IF i * SliceSize + r < n THEN Byte(Holding(f, i), r) ELSE 0
    BY <1>1, CutHolds
  <2>2. CASE i = n \div SliceSize /\ r >= n % SliceSize /\ n % SliceSize # 0 /\ x.act # i
    <3>1. x.pc = "cut" /\ x.op.size = n
      BY <2>2
    <3> QED
      BY <2>2, <3>1 DEF Edge
  <2>3. CASE Byte(Holding(x, i), r) = IF i * SliceSize + r < n THEN Byte(Holding(f, i), r) ELSE 0
    <3>1. Byte(Holding(f, i), r) = Due(f, i * SliceSize + r)
      BY DEF HandleReads, OwnReads
    <3>2. i * SliceSize + r \in Nat
      BY Position
    <3> QED
      BY <1>3, <1>7, <2>3, <3>1, <3>2
  <2> QED
    BY <2>1, <2>2, <2>3
<1>9. OwnReads(x)
  BY <1>8 DEF OwnReads
<1>10. Ahead(x)
  <2> SUFFICES ASSUME x.pc = "cut" PROVE Kept(x, Edge(x))
    BY <1>1 DEF Ahead, Putting
  <2>1. n % SliceSize # 0 /\ x.act # n \div SliceSize /\ x.op.size = n
    OBVIOUS
  <2>2. PICK q \in Nat, m \in Offsets :
        /\ q = n \div SliceSize /\ m = n % SliceSize /\ n = q * SliceSize + m
        /\ Slices(n) = (IF m = 0 THEN q ELSE q + 1) /\ Slices(n) \in Nat
    BY CutFacts
  <2>3. Slices(n) = q + 1 /\ ~(q >= Slices(n))
    BY <2>1, <2>2
  <2>4. Kept(f, q)
    BY <2>1, <2>2
  <2>5. f.act # q
    <3>1. f.act = q => x.act = q
      BY <1>1, <2>2, <2>3, IdxNil DEF CutAct
    <3> QED
      BY <2>1, <2>2, <3>1
  <2>6. q \in Idx
    BY <2>2, CutTyped
  <2>7. x.new[q] = f.new[q] /\ x.old = f.old
    BY <1>1, <2>3, <2>6 DEF CutNew, SameFile
  <2>8. Edge(x) = q
    BY <2>1, <2>2 DEF Edge
  <2> QED
    BY <2>4, <2>5, <2>7, <2>8 DEF Kept, Putting
<1> QED
  BY <1>5, <1>6, <1>9, <1>10 DEF HandleReads

LEMMA GrownReads ==
    ASSUME NEW f, Fits(f), f.pc = "ready", f.writable, HandleReads(f), NEW n \in Nat, n > f.size,
           NEW x, Plainly(f, x), x.pc = "ready", x.size = n, x.view = Resize(f.view, n)
    PROVE  HandleReads(x)
<1>1. SameFile(f, x) /\ x.act = f.act /\ x.buf = f.buf /\ x.new = f.new
  BY DEF Plainly
<1>2. f.view \in Seq(Nat) /\ f.size = Len(f.view) /\ Len(f.view) \in Nat
  BY LenProperties DEF Fits, Handle, HandleReads, SizeReads
<1>3. \A k : Due(f, k) = Byte(f.view, k) /\ Due(x, k) = Byte(x.view, k)
  BY DuePlain DEF Putting
<1>4. /\ Len(Resize(f.view, n)) = n
      /\ \A k \in Nat : Byte(Resize(f.view, n), k) = IF k < n THEN Byte(f.view, k) ELSE 0
  BY ONLY <1>2, n \in Nat, ResizeBytes, Zenon
<1>5. \A k \in Nat : Byte(x.view, k) = Byte(f.view, k)
  <2> SUFFICES ASSUME NEW k \in Nat PROVE Byte(x.view, k) = Byte(f.view, k)
    OBVIOUS
  <2>1. ~(k < n) => Byte(f.view, k) = 0
    <3>1. ~(k < n) => ~(k < Len(f.view))
      BY <1>2
    <3> QED
      BY <3>1 DEF Byte
  <2> QED
    BY <1>4, <2>1
<1>6. LoadReads(x) /\ SnapReads(x) /\ Ahead(x)
  BY <1>1 DEF LoadReads, SnapReads, SameFile, Ahead, Putting
<1>7. SizeReads(x)
  BY <1>4 DEF SizeReads
<1>8. ASSUME NEW i \in Idx, NEW r \in Offsets PROVE Byte(Holding(x, i), r) = Due(x, i * SliceSize + r)
  <2>1. Holding(x, i) = Holding(f, i)
    BY <1>1 DEF Holding, Putting
  <2>2. Byte(Holding(f, i), r) = Due(f, i * SliceSize + r)
    BY DEF HandleReads, OwnReads
  <2>3. i * SliceSize + r \in Nat
    BY Position
  <2> QED
    BY <1>3, <1>5, <2>1, <2>2, <2>3
<1>9. OwnReads(x)
  BY <1>8 DEF OwnReads
<1> QED
  BY <1>6, <1>7, <1>9 DEF HandleReads

(* The slice the new end falls into, read to be trimmed.                   *)
LEMMA EdgeHolds ==
    ASSUME NEW f, Fits(f), f.pc = "cut", HandleReads(f)
    PROVE  /\ f.op.size \in Nat /\ f.writable /\ f.view \in Seq(Nat) /\ f.size = Len(f.view)
           /\ f.op.size % SliceSize \in Nat /\ f.op.kind = "cut" /\ f.act # Edge(f)
           /\ Plain(f, Edge(f)) = Holding(f, Edge(f)) /\ CutShape(f)
           /\ \A r \in Offsets : r >= f.op.size % SliceSize => Edge(f) * SliceSize + r >= f.op.size
<1>1. f.op.kind = "cut" /\ f.op \in CutOp /\ CutShape(f) /\ f.writable
  BY WorkingFacts DEF Working, WriteOp, FlushOp
<1>2. f.op.size \in Nat
  BY <1>1, SizeFacts DEF CutOp
<1>3. f.view \in Seq(Nat) /\ f.size = Len(f.view)
  BY DEF Fits, Handle, HandleReads, SizeReads
<1>4. Kept(f, Edge(f))
  BY DEF HandleReads, Ahead
<1>5. Plain(f, Edge(f)) = Holding(f, Edge(f))
  BY <1>4, PlainHolds DEF Putting
<1>6. PICK q \in Nat, m \in Offsets :
        q = f.op.size \div SliceSize /\ m = f.op.size % SliceSize /\ f.op.size = q * SliceSize + m
  BY <1>2, CutFacts
<1>7. m \in Nat /\ q * SliceSize \in Nat
  BY SizeFacts DEF Offsets
<1>8. ASSUME NEW r \in Offsets, r >= f.op.size % SliceSize PROVE Edge(f) * SliceSize + r >= f.op.size
  <2>1. r \in Nat
    BY SizeFacts DEF Offsets
  <2>2. q * SliceSize + r >= q * SliceSize + m
    BY <1>6, <1>7, <1>8, <2>1
  <2>3. Edge(f) = q
    BY <1>6 DEF Edge
  <2> QED
    BY <1>6, <2>2, <2>3
<1> QED
  BY <1>1, <1>2, <1>3, <1>5, <1>6, <1>7, <1>8 DEF CutShape

LEMMA ShortEdgeReads ==
    ASSUME NEW f, Fits(f), f.pc = "cut", HandleReads(f), NEW x, Plainly(f, x), x.pc = "ready",
           Len(Plain(f, Edge(f))) \in Nat, Len(Plain(f, Edge(f))) <= f.op.size % SliceSize,
           x.size = f.op.size, x.view = Resize(f.view, f.op.size)
    PROVE  HandleReads(x)
<1> DEFINE n == f.op.size
           e == Edge(f)
           s == Plain(f, e)
<1>1. SameFile(f, x) /\ x.act = f.act /\ x.buf = f.buf /\ x.new = f.new
  BY DEF Plainly
<1>2. /\ n \in Nat /\ f.writable /\ f.view \in Seq(Nat) /\ n % SliceSize \in Nat
      /\ f.op.kind = "cut" /\ s = Holding(f, e)
      /\ \A r \in Offsets : r >= n % SliceSize => e * SliceSize + r >= n
  BY EdgeHolds
<1>3. /\ Len(Resize(f.view, n)) = n
      /\ \A k \in Nat : Byte(Resize(f.view, n), k) = IF k < n THEN Byte(f.view, k) ELSE 0
  BY ONLY <1>2, ResizeBytes, Zenon
<1>4. \A k \in Nat : Due(f, k) = IF k >= n THEN 0 ELSE Byte(f.view, k)
  BY <1>2 DEF Due
<1>5. \A k : Due(x, k) = Byte(x.view, k)
  BY DuePlain DEF Putting
<1>6. \A k \in Nat : k >= n <=> ~(k < n)
  BY <1>2
<1>7. \A k \in Nat : Due(x, k) = Due(f, k)
  BY <1>3, <1>4, <1>5, <1>6
<1>8. LoadReads(x) /\ SnapReads(x) /\ Ahead(x)
  BY <1>1, <1>2 DEF LoadReads, SnapReads, SameFile, Ahead, Putting
<1>9. SizeReads(x)
  BY <1>3 DEF SizeReads
<1>10. ASSUME NEW i \in Idx, NEW r \in Offsets PROVE Byte(Holding(x, i), r) = Due(x, i * SliceSize + r)
  <2>1. Holding(x, i) = Holding(f, i)
    BY <1>1 DEF Holding, Putting
  <2>2. i * SliceSize + r \in Nat /\ r \in Nat
    BY Position
  <2>3. CASE i = e /\ r >= n % SliceSize
    <3>1. Due(f, i * SliceSize + r) = 0
      BY <1>2, <1>4, <2>2, <2>3
    <3>2. ~(r < Len(s))
      <4> DEFINE l == Len(s)
                 m == n % SliceSize
      <4>1. l \in Nat /\ m \in Nat /\ l <= m /\ r >= m
        BY <1>2, <2>3
      <4> HIDE DEF l, m
      <4>2. ~(r < l)
        BY ONLY <2>2, <4>1
      <4> QED
        BY <4>2 DEF l
    <3>3. Byte(Holding(f, i), r) = 0
      BY <1>2, <2>3, <3>2 DEF Byte
    <3> QED
      BY <1>7, <2>1, <2>2, <3>1, <3>3
  <2>4. CASE ~(i = e /\ r >= n % SliceSize)
    <3>1. Byte(Holding(f, i), r) = Due(f, i * SliceSize + r)
      BY <1>2, <2>4 DEF HandleReads, OwnReads, Busy
    <3> QED
      BY <1>7, <2>1, <2>2, <3>1
  <2> QED
    BY <2>3, <2>4
<1>11. OwnReads(x)
  BY <1>10 DEF OwnReads
<1> QED
  BY <1>8, <1>9, <1>11 DEF HandleReads

LEMMA TrimmedReads ==
    ASSUME Typed, NEW f, Fits(f), f.pc = "cut", HandleReads(f), Readable(f, Edge(f)), Edge(f) \in Idx,
           Len(Plain(f, Edge(f))) > f.op.size % SliceSize, NEW x, SameFile(f, x), x.pc = "flush",
           x.new = f.new, x.act = f.act, x.buf = f.buf, x.op = f.op, x.size = f.size,
           x.view = f.view, x.out.idx = Edge(f),
           x.out.data = SubSeq(Plain(f, Edge(f)), 1, f.op.size % SliceSize)
    PROVE  HandleReads(x)
<1> DEFINE n == f.op.size
           e == Edge(f)
           s == Plain(f, e)
           m == f.op.size % SliceSize
<1>2. /\ n \in Nat /\ f.writable /\ f.view \in Seq(Nat) /\ m \in Nat /\ f.size = Len(f.view)
      /\ f.op.kind = "cut" /\ s = Holding(f, e)
      /\ \A r \in Offsets : r >= m => e * SliceSize + r >= n
  BY EdgeHolds
<1>3. f.act # e
  BY EdgeHolds
<1>4. \A k \in Nat : Due(x, k) = Due(f, k) /\ Due(f, k) = IF k >= n THEN 0 ELSE Byte(f.view, k)
  BY <1>2 DEF Due, Putting
<1>5. LoadReads(x) /\ SnapReads(x) /\ SizeReads(x) /\ Ahead(x)
  BY <1>2 DEF LoadReads, SnapReads, SizeReads, SameFile, Ahead, Putting
<1>6. s \in Seq(Nat) /\ Len(s) \in Nat
  <2>1. f \in Handle /\ (f.act # Nil => Len(f.buf) \in 1..SliceSize)
    BY WorkingFacts DEF Fits, Working
  <2>2. s \in Seq(Nat)
    BY <2>1, PlainTyped
  <2> QED
    BY <2>2, LenProperties
<1>7. \A r \in Nat : Byte(x.out.data, r) = IF r < m THEN Byte(s, r) ELSE 0
  <2> DEFINE b == SubSeq(s, 1, m)
             l == Len(s)
  <2>0. l \in Nat /\ m \in Nat /\ l > m
    BY <1>2, <1>6
  <2>1. x.out.data = b
    OBVIOUS
  <2>2. 1 \in Nat \ {0} /\ m <= Len(s) /\ 1 <= m + 1
    <3> HIDE DEF m, s
    <3> QED
      BY <2>0
  <2>3. Len(b) = m - 1 + 1 /\ \A j \in 1..(m - 1 + 1) : b[j] = s[1 + j - 1]
    <3> HIDE DEF m, s
    <3> QED
      BY <1>6, <2>0, <2>2, SubSeqBytes
  <2> HIDE DEF b, m, s
  <2>4. Len(b) = m /\ \A j \in 1..m : b[j] = s[j]
    BY <2>0, <2>3
  <2>5. ASSUME NEW r \in Nat PROVE Byte(b, r) = IF r < m THEN Byte(s, r) ELSE 0
    <3>1. r < m => r + 1 \in 1..m /\ r < Len(s)
      BY <2>0
    <3> QED
      BY <2>4, <3>1 DEF Byte
  <2> QED
    BY <2>1, <2>5
<1>8. ASSUME NEW i \in Idx, NEW r \in Offsets PROVE Byte(Holding(x, i), r) = Due(x, i * SliceSize + r)
  <2>1. i * SliceSize + r \in Nat /\ r \in Nat
    BY Position
  <2>2. Holding(x, i) = IF i = e THEN x.out.data ELSE Holding(f, i)
    BY <1>2 DEF Holding, Putting
  <2>3. CASE i = e /\ r >= m
    <3>1. Due(f, i * SliceSize + r) = 0
      BY <1>2, <1>4, <2>1, <2>3
    <3>2. ~(r < m)
      <4> HIDE DEF m
      <4> QED
        BY <1>2, <2>1, <2>3
    <3> QED
      BY <1>4, <1>7, <2>1, <2>2, <2>3, <3>1, <3>2
  <2>4. CASE ~(i = e /\ r >= m)
    <3>1. Byte(Holding(f, i), r) = Due(f, i * SliceSize + r)
      BY <1>2, <2>4 DEF HandleReads, OwnReads, Busy
    <3>2. i = e => r < m
      <4> HIDE DEF m
      <4> QED
        BY <1>2, <2>1, <2>4
    <3> QED
      BY <1>2, <1>4, <1>7, <2>1, <2>2, <3>1, <3>2
  <2> QED
    BY <2>3, <2>4
<1>9. OwnReads(x)
  BY <1>8 DEF OwnReads
<1> QED
  BY <1>5, <1>9 DEF HandleReads

(* What the snapshot of a version says of its bytes.                       *)
LEMMA LoadedReads ==
    ASSUME Typed, TextInv, NEW f, Fits(f), f.pc = "stat", HandleReads(f),
           f.base # 0 => f.base \in Version /\ text[f.base] # Nil /\ vrow[f.base] # Nil,
           NEW x, SameFile(f, x), x.view = f.view, x.old = NoRows, x.new = NoRows,
           \/ /\ f.base = 0 \/ vrow[f.base] = Nil
              /\ x.pc = IF f.writable THEN "snapshot" ELSE "ready"
              /\ x.size = 0
           \/ f.base # 0 /\ vrow[f.base] # Nil /\ x.pc = "base" /\ x.size = vrow[f.base].size
    PROVE  HandleReads(x)
<1>1. x.base = f.base /\ x.writable = f.writable
  BY DEF SameFile
<1>2. CASE f.base = 0
  <2>1. f.view = <<>> /\ x.size = 0 /\ x.pc \in {"snapshot", "ready"} /\ (x.pc = "ready" => ~x.writable)
    BY <1>1, <1>2 DEF HandleReads, LoadReads
  <2>2. LoadReads(x) /\ OwnReads(x) /\ Ahead(x)
    BY <2>1 DEF LoadReads, OwnReads, Ahead, Busy, Putting
  <2>3. SizeReads(x)
    BY <2>1, EmptySeq DEF SizeReads
  <2>4. SnapReads(x)
    <3> SUFFICES ASSUME NEW i \in Idx, NEW r \in Offsets
                 PROVE  Byte(Slice(x.old[i]), r) = Byte(x.view, i * SliceSize + r)
      BY DEF SnapReads
    <3>1. Slice(x.old[i]) = <<>> /\ x.view = <<>>
      BY <2>1 DEF Slice, NoRows
    <3> QED
      BY <3>1, Position, ByteEmpty
  <2> QED
    BY <2>2, <2>3, <2>4 DEF HandleReads
<1>3. CASE f.base # 0
  <2>1. x.pc = "base" /\ x.size = vrow[f.base].size /\ text[f.base].sure /\ f.view = text[f.base].bytes
    BY <1>3 DEF HandleReads, LoadReads
  <2>2. x.size = Len(x.view)
    BY <1>3, <2>1 DEF TextInv, TextHolds
  <2> QED
    BY <1>1, <1>3, <2>1, <2>2 DEF HandleReads, LoadReads, SizeReads, SnapReads, OwnReads, Ahead, Busy, Putting
<1> QED
  BY <1>2, <1>3

LEMMA SnapshotReads ==
    ASSUME Typed, TextInv, NEW f, Fits(f), f.pc = "base", HandleReads(f), f.base \in Version,
           text[f.base] # Nil, NEW x, x.view = f.view, x.size = f.size, x.writable = f.writable,
           x.old = RowsOf(f.base), x.pc = IF f.writable THEN "snapshot" ELSE "ready"
    PROVE  HandleReads(x)
<1>1. f.base # 0
  BY DEF Fits, HandleShape
<1>2. text[f.base].sure /\ f.view = text[f.base].bytes /\ f.size = Len(f.view)
  BY <1>1 DEF HandleReads, LoadReads, SizeReads
<1>3. SnapReads(x)
  <2> SUFFICES ASSUME NEW i \in Idx, NEW r \in Offsets
               PROVE  Byte(Slice(x.old[i]), r) = Byte(x.view, i * SliceSize + r)
    BY DEF SnapReads
  <2>1. x.old[i] = vchunk[f.base, i]
    BY DEF RowsOf
  <2>2. Byte(Slice(vchunk[f.base, i]), r) = Byte(text[f.base].bytes, i * SliceSize + r)
    BY <1>2 DEF TextInv, TextHolds
  <2> QED
    BY <1>2, <2>1, <2>2
<1>4. x.pc \in {"snapshot", "ready"} /\ (x.pc = "ready" => ~x.writable)
  OBVIOUS
<1> QED
  BY <1>2, <1>3, <1>4 DEF HandleReads, LoadReads, SizeReads, OwnReads, Ahead, Busy, Putting
-----------------------------------------------------------------------------
(* The chunks a handle reads stay as they are while it takes a step.       *)
LEMMA SlicesStay ==
    ASSUME Typed, VersionInv, ChunkInv, NEW h \in Handles, HandleCall(h) \/ HandleStep(h),
           NEW i \in Idx
    PROVE  /\ fh'[h].old[i] # Nil => chunk'[fh'[h].old[i]] = chunk[fh'[h].old[i]]
           /\ fh'[h].new[i] # Nil => chunk'[fh'[h].new[i]] = chunk[fh'[h].new[i]]
<1>1. CASE StoreSlice(h)
  <2>1. fh[h].pc = "flush"
    BY <1>1, StoreSliceMoves
  <2>2. fh'[h] = Closed \/ (fh'[h].old = fh[h].old /\ fh'[h].new = fh[h].new)
    BY <1>1, StoreSliceMoves DEF Stored, Failed, SameFile
  <2>3. Closed.old[i] = Nil /\ Closed.new[i] = Nil
    BY DEF Closed, NoRows
  <2>4. /\ fh[h].old[i] # Nil => fh[h].old[i] \in Chunks /\ chunk[fh[h].old[i]] # Nil
        /\ fh[h].new[i] # Nil => fh[h].new[i] \in Chunks /\ chunk[fh[h].new[i]] # Nil
    BY <2>1, RowsBacked
  <2>5. \A c \in Chunks : chunk[c] # Nil => chunk'[c] = chunk[c]
    BY ChunkFrame
  <2>6. CASE fh'[h] = Closed
    BY <2>3, <2>6
  <2>7. CASE fh'[h].old = fh[h].old /\ fh'[h].new = fh[h].new
    BY <2>4, <2>5, <2>7
  <2> QED
    BY <2>2, <2>6, <2>7
<1>2. CASE ~StoreSlice(h)
  <2>1. chunk' = chunk
    BY <1>2, HandleActions, QuietFrame, MappingFrame, OtherFrames DEF SameTables
  <2> QED
    BY <2>1
<1> QED
  BY <1>1, <1>2

(* A quiet step, by what it makes of the handle.                           *)
LEMMA ReadsOfQuiet ==
    ASSUME Typed, VersionInv, TextInv, NEW h \in Handles, Quiet(h), "dropped" \notin Overlaps,
           fh[h].sure => HandleReads(fh[h]), fh'[h].sure = TRUE, fh'[h].pc # "closed"
    PROVE  HandleReads(fh'[h])
<1> DEFINE f == fh[h]
           x == fh'[h]
           G == HandleReads(x)
<1>0. Fits(f) /\ Closed.pc = "closed" /\ HandleHeld(h)
  BY HandleFits DEF Closed, VersionInv
<1>1. x.sure = f.sure => HandleReads(f)
  OBVIOUS
<1>2. f.base # 0 => f.base \in Version /\ text[f.base] # Nil /\ vrow[f.base] # Nil
  <2>1. f.pc # "closed"
    BY StepUse
  <2> QED
    BY <1>0, <2>1, Numbers DEF HandleHeld, Held
<1>3. LoadVersion(h) => G
  <2> SUFFICES ASSUME LoadVersion(h) PROVE G
    OBVIOUS
  <2>1. /\ f.pc = "stat" /\ SameFile(f, x) /\ x.old = NoRows
        /\ x.sure = f.sure /\ x.view = f.view /\ x.new = f.new
        /\ \/ /\ f.base = 0 \/ vrow[f.base] = Nil
              /\ x.pc = IF f.writable THEN "snapshot" ELSE "ready"
              /\ x.size = 0
           \/ f.base # 0 /\ vrow[f.base] # Nil /\ x.pc = "base" /\ x.size = vrow[f.base].size
    BY LoadVersionMoves
  <2>2. f.new = NoRows
    BY <1>0, <2>1 DEF Fits, HandleShape, Opening
  <2>3. HandleReads(f)
    BY <1>1, <2>1
  <2> HIDE DEF f, x
  <2> QED
    BY <1>0, <1>2, <2>1, <2>2, <2>3, LoadedReads
<1>4. LoadRows(h) => G
  <2> SUFFICES ASSUME LoadRows(h) PROVE G
    OBVIOUS
  <2>1. /\ f.pc = "base" /\ f.base \in Version
        /\ x.pc = IF f.writable THEN "snapshot" ELSE "ready"
        /\ x.old = RowsOf(f.base) /\ x.writable = f.writable
        /\ x.sure = f.sure /\ x.view = f.view /\ x.size = f.size
    BY LoadRowsMoves
  <2>2. HandleReads(f)
    BY <1>1, <2>1
  <2>3. text[f.base] # Nil
    <3>1. f.base # 0
      BY <2>1, Numbers
    <3> QED
      BY <1>2, <3>1
  <2> HIDE DEF f, x
  <2> QED
    BY <1>0, <2>1, <2>2, <2>3, SnapshotReads
<1>5. ~FailOpen(h) /\ ~CloseReader(h)
  BY <1>0, CloseMoves
<1>6. ASSUME NEW off \in 0..(MaxSize - 1), NEW p \in Payloads, WriteAt(h, off, p) PROVE G
  <2>1. /\ Fits(x) /\ f.pc = "ready" /\ SameFile(f, x) /\ x.pc = "write" /\ f.writable
        /\ MayTouch(f, off \div SliceSize, (off + Len(p) - 1) \div SliceSize)
        /\ x.op = [kind |-> "write", off |-> off, data |-> p, rest |-> p, next |-> Nil]
        /\ x.new = f.new /\ x.size = f.size /\ x.view = f.view
        /\ x.act = f.act /\ x.buf = f.buf /\ x.sure = f.sure
    BY <1>6, WriteAtMoves
  <2>2. off \in Nat /\ p \in Seq(Nat)
    BY SizeFacts, FileAssumption
  <2>3. HandleReads(f)
    BY <1>1, <2>1
  <2> HIDE DEF f, x
  <2> QED
    BY <2>1, <2>2, <2>3, WriteAtReads
<1>7. WriteSlice(h) => G
  <2> SUFFICES ASSUME WriteSlice(h) PROVE G
    OBVIOUS
  <2>1. /\ Fits(x) /\ f.pc = "write" /\ WriteShape(f) /\ Unfinished(f)
        /\ \/ /\ f.act = First(f) \/ f.act = Nil
              /\ Readable(f, First(f)) /\ Taken(f, x)
           \/ /\ f.act # First(f) /\ f.act # Nil
              /\ Readable(f, First(f)) /\ Turned(f, x)
           \/ Failed(f, x)
    BY WriteSliceMoves
  <2>2. ~Failed(f, x)
    BY <1>0 DEF Failed
  <2>3. x.sure = f.sure
    BY <2>1, <2>2 DEF Taken, Turned
  <2>4. Writing(f)
    BY <1>0, <1>1, <2>1, <2>2, <2>3 DEF Writing
  <2> HIDE DEF f, x
  <2>5. CASE (f.act = First(f) \/ f.act = Nil) /\ Taken(f, x)
    BY <2>1, <2>4, <2>5, TakenReads
  <2>6. CASE f.act # First(f) /\ f.act # Nil /\ Turned(f, x)
    BY <2>1, <2>4, <2>6, TurnedReads
  <2> QED
    BY <2>1, <2>2, <2>5, <2>6
<1>8. TrimSlice(h) => G
  <2> SUFFICES ASSUME TrimSlice(h) PROVE G
    OBVIOUS
  <2>1. /\ f.pc = "cut" /\ f.op.kind = "cut" /\ CutShape(f) /\ Edge(f) \in Idx
        /\ \/ /\ Readable(f, Edge(f)) /\ Len(Plain(f, Edge(f))) <= f.op.size % SliceSize
              /\ Plainly(f, x) /\ x.pc = "ready" /\ x.size = f.op.size
              /\ x.view = Resize(f.view, f.op.size) /\ x.sure = f.sure
           \/ /\ Readable(f, Edge(f)) /\ Len(Plain(f, Edge(f))) > f.op.size % SliceSize
              /\ SameFile(f, x) /\ x.pc = "flush" /\ x.got = Nil
              /\ x.new = f.new /\ x.act = f.act /\ x.buf = f.buf
              /\ x.op = f.op /\ x.size = f.size /\ x.view = f.view
              /\ x.sure = f.sure /\ x.out.idx = Edge(f)
              /\ x.out.data = SubSeq(Plain(f, Edge(f)), 1, f.op.size % SliceSize)
           \/ Failed(f, x)
    BY TrimSliceMoves
  <2>2. ~Failed(f, x)
    BY <1>0 DEF Failed
  <2>3. x.sure = f.sure
    BY <2>1, <2>2
  <2>4. HandleReads(f)
    BY <1>1, <2>3
  <2>5. Readable(f, Edge(f))
    BY <2>1, <2>2
  <2>6. Len(Plain(f, Edge(f))) \in Nat
    <3>1. f \in Handle /\ (f.act # Nil => Len(f.buf) \in 1..SliceSize)
      BY <1>0, <2>1, WorkingFacts DEF Fits, Working
    <3>2. Plain(f, Edge(f)) \in Seq(Nat)
      BY <2>1, <2>5, <3>1, PlainTyped
    <3> QED
      BY <3>2, LenProperties
  <2> HIDE DEF f, x
  <2>7. CASE /\ Len(Plain(f, Edge(f))) <= f.op.size % SliceSize
             /\ Plainly(f, x) /\ x.pc = "ready" /\ x.size = f.op.size
             /\ x.view = Resize(f.view, f.op.size)
    BY <1>0, <2>1, <2>4, <2>6, <2>7, ShortEdgeReads
  <2>8. CASE /\ Len(Plain(f, Edge(f))) > f.op.size % SliceSize
             /\ SameFile(f, x) /\ x.pc = "flush"
             /\ x.new = f.new /\ x.act = f.act /\ x.buf = f.buf
             /\ x.op = f.op /\ x.size = f.size /\ x.view = f.view /\ x.out.idx = Edge(f)
             /\ x.out.data = SubSeq(Plain(f, Edge(f)), 1, f.op.size % SliceSize)
    BY <1>0, <2>1, <2>4, <2>5, <2>8, TrimmedReads
  <2> QED
    BY <2>1, <2>2, <2>7, <2>8
<1>9. ASSUME NEW kind \in {"sync", "close"}, FlushActive(h, kind) PROVE G
  <2>1. /\ f.pc = "ready" /\ f.writable /\ SameFile(f, x)
        /\ x.new = f.new /\ x.size = f.size /\ x.view = f.view /\ x.sure = f.sure /\ x.act = Nil
        /\ \/ f.act = Nil /\ x.pc \in {"commit", "discard"}
           \/ /\ f.act # Nil /\ x.pc = "flush" /\ x.op.kind \in {"sync", "close"}
              /\ x.out.idx = f.act /\ x.out.data = f.buf
    BY <1>9, FlushActiveMoves
  <2>2. HandleReads(f)
    BY <1>1, <2>1
  <2> HIDE DEF f, x
  <2> QED
    BY <2>1, <2>2, FlushReads
<1> HIDE DEF G
<1>10. G
  BY <1>3, <1>4, <1>5, <1>6, <1>7, <1>8, <1>9 DEF Quiet
<1> QED
  BY <1>10 DEF G

LEMMA ReadsOfMapping ==
    ASSUME Typed, VersionInv, ChunkInv, NEW h \in Handles, Mapping(h), "dropped" \notin Overlaps,
           fh[h].sure => HandleReads(fh[h]), fh'[h].sure = TRUE, fh'[h].pc # "closed"
    PROVE  HandleReads(fh'[h])
<1> DEFINE f == fh[h]
           x == fh'[h]
           G == HandleReads(x)
<1>0. Fits(f) /\ Closed.pc = "closed" /\ Fits(x)
  BY HandleFits, StepUse DEF Closed
<1>1. x.sure = f.sure => HandleReads(f)
  OBVIOUS
<1>2. InheritRows(h) => G
  <2> SUFFICES ASSUME InheritRows(h) PROVE G
    OBVIOUS
  <2>1. /\ f.pc = "born" /\ SameFile(f, x) /\ f.writable /\ x.pc = "ready" /\ x.new = f.old
        /\ x.sure = f.sure /\ x.view = f.view /\ x.size = f.size /\ x.act = Nil
    BY InheritRowsMoves
  <2>2. HandleReads(f) /\ x.writable
    BY <1>1, <2>1 DEF SameFile
  <2> HIDE DEF f, x
  <2> QED
    BY <2>1, <2>2, InheritReads
<1>3. DropSlice(h) => G
  <2> SUFFICES ASSUME DropSlice(h) PROVE G
    OBVIOUS
  <2>1. f.pc = "flush" /\ AllZero(f.out.data) /\ ~DropFailed(f, x, f.out.idx)
    BY <1>0, DropSliceMoves DEF DropFailed
  <2>2. Put(f, x) /\ x.new = [f.new EXCEPT ![f.out.idx] = Nil]
    BY <2>1, DropSliceMoves
  <2>3. HandleReads(f) /\ f.out.data \in Seq(Nat)
    BY <1>0, <1>1, <2>1, <2>2, WorkingFacts DEF Put, Working, Putting
  <2> HIDE DEF f, x
  <2>4. \A r \in Offsets : Byte(Slice(Nil), r) = Byte(f.out.data, r)
    <3> SUFFICES ASSUME NEW r \in Offsets PROVE Byte(Slice(Nil), r) = Byte(f.out.data, r)
      OBVIOUS
    <3>1. r \in Nat
      BY IdxNat
    <3>2. Byte(f.out.data, r) = 0
      BY <2>1, <2>3, <3>1, AllZeroBytes
    <3>3. Slice(Nil) = <<>>
      BY DEF Slice
    <3> QED
      BY <3>1, <3>2, <3>3, ByteEmpty
  <2>5. Nil \in Chunks \cup {Nil} /\ f.pc \in Putting
    BY <2>1 DEF Putting
  <2> QED
    BY <1>0, <2>1, <2>2, <2>3, <2>4, <2>5, PutReads
<1>4. PutRow(h) => G
  <2> SUFFICES ASSUME PutRow(h) PROVE G
    OBVIOUS
  <2>1. f.pc = "store" /\ ~Failed(f, x)
    BY <1>0, PutRowMoves DEF Failed
  <2>2. Put(f, x) /\ x.new = [f.new EXCEPT ![f.out.idx] = f.got]
    BY <2>1, PutRowMoves
  <2>3. HandleReads(f)
    BY <1>1, <2>2 DEF Put
  <2>4. f.got \in Chunks /\ chunk[f.got] = f.out.data /\ f.got # Nil
    BY <2>1, StoredChunk
  <2> HIDE DEF f, x
  <2>5. \A r \in Offsets : Byte(Slice(f.got), r) = Byte(f.out.data, r)
    BY <2>4 DEF Slice
  <2>6. f.got \in Chunks \cup {Nil} /\ f.pc \in Putting
    BY <2>1, <2>4 DEF Putting
  <2> QED
    BY <1>0, <2>2, <2>3, <2>4, <2>5, <2>6, PutReads
<1>5. ASSUME NEW n \in 0..MaxSize, Truncate(h, n) PROVE G
  <2>1. /\ f.pc = "ready" /\ f.writable
        /\ n < f.size /\ n % SliceSize # 0 => MayTouch(f, n \div SliceSize, n \div SliceSize)
        /\ \/ /\ n < f.size /\ Cut(f, x, n) /\ x.sure = f.sure
              /\ \/ /\ n % SliceSize # 0 /\ x.act # n \div SliceSize
                    /\ x.pc = "cut" /\ x.op = [kind |-> "cut", size |-> n]
                    /\ x.size = f.size /\ x.view = f.view
                 \/ /\ n % SliceSize = 0 \/ x.act = n \div SliceSize
                    /\ x.pc = "ready" /\ x.size = n /\ x.view = Resize(f.view, n)
           \/ x.sure = FALSE
           \/ /\ n > f.size /\ Plainly(f, x)
              /\ x.pc = "ready" /\ x.size = n /\ x.view = Resize(f.view, n) /\ x.sure = f.sure
    BY <1>5, TruncateMoves
  <2>2. HandleReads(f)
    BY <1>1, <2>1
  <2>3. n \in Nat
    BY SizeFacts
  <2>4. n < f.size /\ n % SliceSize # 0 => Kept(f, n \div SliceSize)
    <3> SUFFICES ASSUME n < f.size, n % SliceSize # 0 PROVE Kept(f, n \div SliceSize)
      OBVIOUS
    <3>1. PICK q \in Nat : q = n \div SliceSize
      BY <2>3, CutFacts
    <3>2. MayTouch(f, q, q)
      BY <2>1, <3>1
    <3>3. q \in q..q
      OBVIOUS
    <3>4. ~Dropped(f, q)
      BY <3>2, <3>3 DEF MayTouch
    <3>5. Kept(f, q)
      BY <2>1, <3>4 DEF Dropped, Kept, Putting
    <3> QED
      BY <3>1, <3>5
  <2> HIDE DEF f, x
  <2>5. CASE /\ n < f.size /\ Cut(f, x, n)
             /\ \/ /\ n % SliceSize # 0 /\ x.act # n \div SliceSize
                   /\ x.pc = "cut" /\ x.op = [kind |-> "cut", size |-> n]
                   /\ x.size = f.size /\ x.view = f.view
                \/ /\ n % SliceSize = 0 \/ x.act = n \div SliceSize
                   /\ x.pc = "ready" /\ x.size = n /\ x.view = Resize(f.view, n)
    BY <1>0, <2>1, <2>2, <2>3, <2>4, <2>5, CutReads
  <2>6. CASE /\ n > f.size /\ Plainly(f, x)
             /\ x.pc = "ready" /\ x.size = n /\ x.view = Resize(f.view, n)
    BY <1>0, <2>1, <2>2, <2>3, <2>6, GrownReads
  <2>7. x.sure # FALSE
    BY DEF x
  <2> QED
    BY <2>1, <2>5, <2>6, <2>7
<1> HIDE DEF G
<1>6. G
  BY <1>2, <1>3, <1>4, <1>5 DEF Mapping
<1> QED
  BY <1>6 DEF G

(* The handle that takes a step, and the others.                           *)
LEMMA ReadsOfHandle ==
    ASSUME Typed, VersionInv, ChunkInv, TextInv, NEW h \in Handles, HandleCall(h) \/ HandleStep(h),
           "dropped" \notin Overlaps,
           fh[h].pc # "closed" /\ fh[h].sure => HandleReads(fh[h]), fh'[h].sure, fh'[h].pc # "closed"
    PROVE  HandleReads(fh[h])'
<1> DEFINE f == fh[h]
           x == fh'[h]
           G == HandleReads(x)
<1>0. Fits(f) /\ Closed.pc = "closed"
  BY HandleFits DEF Closed
<1>1. x.sure = TRUE
  <2>1. x.sure \in BOOLEAN
    BY HandleStepFits DEF Fits, Handle
  <2> QED
    BY <2>1
<1>2. ASSUME f.pc # "closed" PROVE x.sure = f.sure => HandleReads(f)
  BY <1>1, <1>2
<1>3. ASSUME NEW i \in Inodes, NEW w \in BOOLEAN, Open(h, i, w) PROVE G
  <2>1. /\ x.pc = "stat" /\ x.base = inode[i].ver
        /\ IF inode[i].ver = 0 THEN x.view = <<>>
           ELSE text[inode[i].ver].sure /\ x.view = text[inode[i].ver].bytes
    BY <1>3, OpenMoves
  <2> HIDE DEF f, x
  <2> QED
    BY <2>1 DEF HandleReads, LoadReads, SizeReads, SnapReads, OwnReads, Ahead, Busy, Putting
<1>4. NewVersion(h) => G
  <2> SUFFICES ASSUME NewVersion(h) PROVE G
    OBVIOUS
  <2>1. /\ f.pc = "snapshot" /\ f.writable /\ x.pc = IF f.old = NoRows THEN "ready" ELSE "born"
        /\ x.writable = f.writable /\ x.old = f.old /\ x.new = NoRows /\ x.sure = f.sure
        /\ x.view = f.view /\ x.size = f.size /\ x.act = Nil
    BY NewVersionMoves
  <2>2. HandleReads(f) /\ x.writable
    BY <1>2, <2>1
  <2> HIDE DEF f, x
  <2> QED
    BY <2>1, <2>2, NewVersionReads
<1>5. StoreSlice(h) => G
  <2> SUFFICES ASSUME StoreSlice(h) PROVE G
    OBVIOUS
  <2>1. f.pc = "flush" /\ (Failed(f, x) \/ \E c \in Chunks : Stored(f, x, c))
    BY StoreSliceMoves
  <2>2. ~Failed(f, x)
    BY <1>0, <1>1 DEF Failed
  <2>3. PICK c \in Chunks : Stored(f, x, c)
    BY <2>1, <2>2
  <2>4. x.sure = f.sure /\ f.writable
    BY <1>0, <2>1, <2>3, WorkingFacts DEF Stored, Working
  <2>5. HandleReads(f)
    BY <1>2, <2>1, <2>4
  <2> HIDE DEF f, x
  <2> QED
    BY <2>1, <2>3, <2>4, <2>5, StoredReads
<1>6. ~Commit(h) /\ ~Discard(h)
  BY <1>0, CloseMoves
<1>7. Quiet(h) \/ Mapping(h) => G
  <2> SUFFICES ASSUME Quiet(h) \/ Mapping(h) PROVE G
    OBVIOUS
  <2>1. f.pc # "closed"
    BY StepUse
  <2> QED
    BY <1>1, <2>1, ReadsOfQuiet, ReadsOfMapping
<1>8. G
  <2> HIDE DEF G
  <2> QED
    BY <1>3, <1>4, <1>5, <1>6, <1>7, HandleActions
<1>9. text' = text
  BY <1>6, HandleActions, QuietFrame, MappingFrame, OtherFrames DEF SameTables
<1>10. /\ \A i \in Idx : x.old[i] # Nil => chunk'[x.old[i]] = chunk[x.old[i]]
       /\ \A i \in Idx : x.new[i] # Nil => chunk'[x.new[i]] = chunk[x.new[i]]
  BY SlicesStay
<1>11. HandleReads(x)
  BY <1>8
<1> HIDE DEF G
<1> QED
  BY <1>9, <1>10, <1>11, ReadsFrame

(* Where the rows of a handle come from.                                   *)
LEMMA RowsOfHandle ==
    ASSUME Typed, ChunkInv, NEW k \in Handles, fh[k].pc # "closed", NEW i \in Idx
    PROVE  /\ fh[k].old[i] # Nil => fh[k].base \in Version /\ fh[k].old[i] = vchunk[fh[k].base, i]
                                    /\ fh[k].old[i] \in Chunks /\ chunk[fh[k].old[i]] # Nil
           /\ fh[k].new[i] # Nil => fh[k].ver \in Version /\ fh[k].new[i] = vchunk[fh[k].ver, i]
                                    /\ fh[k].new[i] \in Chunks /\ chunk[fh[k].new[i]] # Nil
<1>1. ASSUME fh[k].old[i] # Nil PROVE fh[k].base \in Version /\ fh[k].old[i] = vchunk[fh[k].base, i]
  <2>0. NoRows[i] = Nil
    BY DEF NoRows
  <2>1. fh[k].pc \in Pc /\ (fh[k].pc \in {"stat", "base"} => fh[k].old = NoRows)
    BY HandleFits DEF Fits, Handle, HandleShape
  <2>2. fh[k].old = IF fh[k].base = 0 THEN NoRows ELSE RowsOf(fh[k].base)
    BY <1>1, <2>0, <2>1 DEF ChunkInv, Snapshot, Loaded
  <2>3. fh[k].base # 0
    BY <1>1, <2>0, <2>2
  <2> QED
    BY <2>2, <2>3, Numbers DEF RowsOf
<1>2. fh[k].new[i] # Nil => fh[k].ver \in Version /\ fh[k].new[i] = vchunk[fh[k].ver, i]
  BY Numbers DEF ChunkInv, Written
<1> QED
  BY <1>1, <1>2, RowsBacked

LEMMA ReadsOfOthers ==
    ASSUME Typed, VersionInv, ChunkInv, NEW h \in Handles, HandleCall(h) \/ HandleStep(h),
           NEW k \in Handles, k # h, fh[k].pc # "closed", HandleReads(fh[k])
    PROVE  HandleReads(fh[k])'
<1>1. fh'[k] = fh[k] /\ \A c \in Chunks : chunk[c] # Nil => chunk'[c] = chunk[c]
  BY ChunkFrame
<1>2. /\ \A i \in Idx : fh[k].old[i] # Nil => chunk'[fh[k].old[i]] = chunk[fh[k].old[i]]
      /\ \A i \in Idx : fh[k].new[i] # Nil => chunk'[fh[k].new[i]] = chunk[fh[k].new[i]]
  BY <1>1, RowsOfHandle
<1>3. fh[k].base # 0 => text'[fh[k].base] = text[fh[k].base]
  <2> SUFFICES ASSUME fh[k].base # 0 PROVE text'[fh[k].base] = text[fh[k].base]
    OBVIOUS
  <2>1. text[fh[k].base] # Nil /\ fh[k].base \in Version
    BY Numbers DEF VersionInv, HandleHeld, Held
  <2>2. Commit(h) => text'[fh[k].base] = text[fh[k].base]
    <3> SUFFICES ASSUME Commit(h) PROVE text'[fh[k].base] = text[fh[k].base]
      OBVIOUS
    <3>1. fh[h].ver \in Version /\ fh[h].pc # "closed" /\ fh[h].ver # 0
      <4>1. fh[h].pc = "commit"
        BY DEF Commit
      <4>2. fh[h].ver \in Version
        BY <4>1, CloseMoves
      <4> QED
        BY <4>1, <4>2, Numbers
    <3>2. text[fh[h].ver] = Nil
      BY <3>1 DEF VersionInv, HandleHeld
    <3>3. text' = text \/ text' = [text EXCEPT ![fh[h].ver] = Promised(fh[h])]
      BY DEF Commit
    <3> QED
      BY <2>1, <3>1, <3>2, <3>3 DEF Typed
  <2>3. ~Commit(h) => text' = text
    BY HandleActions, QuietFrame, MappingFrame, OtherFrames DEF SameTables
  <2> QED
    BY <2>2, <2>3
<1> QED
  BY <1>1, <1>2, <1>3, ReadsFrame

LEMMA ReadsDrop ==
    ASSUME Typed, ChunkInv, ReadInv, NEW D \in SUBSET Version, DropVersions(D), fh' = fh,
           \A k \in Handles : fh[k].pc # "closed" => fh[k].base \notin D /\ fh[k].ver \notin D
    PROVE  ReadInv'
<1>1. \A v \in Version : text'[v] = IF v \in D THEN Nil ELSE text[v]
  BY DropFacts
<1>0. ASSUME NEW c \in Chunks, NEW v \in Version, NEW i \in Idx, v \notin D, vchunk[v, i] = c
      PROVE  chunk'[c] = chunk[c]
  <2>1. \A b \in Chunks : \/ chunk'[b] = chunk[b]
                          \/ /\ chunk'[b] = Nil /\ \E u \in D, j \in Idx : vchunk[u, j] = b
                             /\ \A u \in Version, j \in Idx : u \notin D => vchunk[u, j] # b
    BY DropFacts
  <2> QED
    BY <1>0, <2>1
<1> SUFFICES ASSUME NEW k \in Handles, fh[k].pc # "closed", fh[k].sure PROVE HandleReads(fh[k])'
  BY DEF ReadInv
<1>2. HandleReads(fh[k]) /\ fh[k].base \notin D /\ fh[k].ver \notin D
  BY DEF ReadInv
<1>3. ASSUME NEW i \in Idx
      PROVE  /\ fh[k].old[i] # Nil => chunk'[fh[k].old[i]] = chunk[fh[k].old[i]]
             /\ fh[k].new[i] # Nil => chunk'[fh[k].new[i]] = chunk[fh[k].new[i]]
  <2>1. /\ fh[k].old[i] # Nil => fh[k].base \in Version /\ fh[k].old[i] = vchunk[fh[k].base, i]
                                 /\ fh[k].old[i] \in Chunks
        /\ fh[k].new[i] # Nil => fh[k].ver \in Version /\ fh[k].new[i] = vchunk[fh[k].ver, i]
                                 /\ fh[k].new[i] \in Chunks
    BY RowsOfHandle
  <2> QED
    BY <1>0, <1>2, <2>1
<1>4. fh[k].base # 0 => text'[fh[k].base] = text[fh[k].base]
  BY <1>1, <1>2, Numbers
<1>5. fh'[k] = fh[k]
  OBVIOUS
<1> QED
  BY <1>2, <1>3, <1>4, <1>5, ReadsFrame

LEMMA ReadsRest ==
    ASSUME ReadInv, chunk' = chunk, fh' = fh, text' = text
    PROVE  ReadInv'
<1> SUFFICES ASSUME NEW k \in Handles, fh[k].pc # "closed", fh[k].sure PROVE HandleReads(fh[k])'
  BY DEF ReadInv
<1>1. HandleReads(fh[k]) /\ fh'[k] = fh[k]
  BY DEF ReadInv
<1> QED
  BY <1>1, ReadsFrame

LEMMA ReadsCollect ==
    ASSUME Typed, ChunkInv, ReadInv, NEW c \in Chunks, GarbageCollect(c)
    PROVE  ReadInv'
<1>1. /\ fh' = fh /\ text' = text /\ \A v \in Version, i \in Idx : vchunk[v, i] # c
      /\ chunk' = [chunk EXCEPT ![c] = Nil]
  BY DEF GarbageCollect
<1>2. \A b \in Chunks : b # c => chunk'[b] = chunk[b]
  BY <1>1 DEF Typed
<1> SUFFICES ASSUME NEW k \in Handles, fh[k].pc # "closed", fh[k].sure PROVE HandleReads(fh[k])'
  BY <1>1 DEF ReadInv
<1>3. HandleReads(fh[k])
  BY DEF ReadInv
<1>4. ASSUME NEW i \in Idx
      PROVE  /\ fh[k].old[i] # Nil => chunk'[fh[k].old[i]] = chunk[fh[k].old[i]]
             /\ fh[k].new[i] # Nil => chunk'[fh[k].new[i]] = chunk[fh[k].new[i]]
  <2>1. /\ fh[k].old[i] # Nil => fh[k].base \in Version /\ fh[k].old[i] = vchunk[fh[k].base, i]
                                 /\ fh[k].old[i] \in Chunks
        /\ fh[k].new[i] # Nil => fh[k].ver \in Version /\ fh[k].new[i] = vchunk[fh[k].ver, i]
                                 /\ fh[k].new[i] \in Chunks
    BY RowsOfHandle
  <2> QED
    BY <1>1, <1>2, <2>1
<1> QED
  BY <1>1, <1>3, <1>4, ReadsFrame

LEMMA ReadStep ==
    ASSUME Typed, VersionInv, ChunkInv, TextInv, ReadInv, [Next]_vars,
           "release" \notin Overlaps, "dropped" \notin Overlaps
    PROVE  ReadInv'
<1>1. ASSUME NEW i \in Inodes, purgeInode(i) PROVE ReadInv'
  BY <1>1, PurgeDrops, ReadsDrop
<1>2. ASSUME NEW i \in Inodes, trimVersions(i) PROVE ReadInv'
  BY <1>2, TrimDrops, ReadsDrop
<1>3. CASE Retention
  BY <1>1, <1>2, <1>3, RetentionQuiet, ReadsRest, ReadsCollect
<1>4. CASE Crash
  BY <1>4 DEF Crash, Closed, ReadInv
<1>5. CASE UNCHANGED vars
  BY <1>5, ReadsRest DEF vars
<1>6. ASSUME NEW h \in Handles, HandleCall(h) \/ HandleStep(h) PROVE ReadInv'
  <2> SUFFICES ASSUME NEW k \in Handles, fh'[k].pc # "closed", fh'[k].sure PROVE HandleReads(fh[k])'
    BY DEF ReadInv
  <2>1. \A g \in Handles : fh[g].pc # "closed" /\ fh[g].sure => HandleReads(fh[g])
    BY DEF ReadInv
  <2>2. CASE k = h
    BY <1>6, <2>1, <2>2, ReadsOfHandle
  <2>3. CASE k # h
    <3>1. fh'[k] = fh[k]
      BY <1>6, <2>3, ChunkFrame
    <3>2. fh[k].pc # "closed" /\ HandleReads(fh[k])
      BY <2>1, <3>1
    <3> QED
      BY <1>6, <2>3, <3>2, ReadsOfOthers
  <2> QED
    BY <2>2, <2>3
<1> QED
  BY <1>3, <1>4, <1>5, <1>6, NextCases
-----------------------------------------------------------------------------
(* The bytes of committed versions.                                        *)
LEMMA TextFrame ==
    ASSUME NEW v \in Version, TextHolds(v), text'[v] = text[v],
           text[v] # Nil => /\ vrow'[v] = vrow[v]
                            /\ \A i \in Idx : Slice(vchunk[v, i])' = Slice(vchunk[v, i])
    PROVE  TextHolds(v)'
  BY DEF TextHolds

LEMMA SliceFrame ==
    ASSUME Typed, ChunkInv, NEW v \in Version, NEW i \in Idx, vchunk'[v, i] = vchunk[v, i],
           vchunk[v, i] # Nil => chunk'[vchunk[v, i]] = chunk[vchunk[v, i]]
    PROVE  Slice(vchunk[v, i])' = Slice(vchunk[v, i])
  BY DEF Slice

LEMMA TextDrop ==
    ASSUME Typed, ChunkInv, TextInv, NEW D \in SUBSET Version, DropVersions(D)
    PROVE  TextInv'
<1> SUFFICES ASSUME NEW v \in Version PROVE TextHolds(v)'
  BY DEF TextInv
<1>1. /\ vrow'[v] = IF v \in D THEN Nil ELSE vrow[v]
      /\ text'[v] = IF v \in D THEN Nil ELSE text[v]
  BY DropFacts
<1>2. \A u \in Version, i \in Idx : vchunk'[u, i] = IF u \in D THEN Nil ELSE vchunk[u, i]
  BY DropFacts
<1>3. CASE v \in D
  <2>1. text'[v] = Nil
    BY <1>1, <1>3
  <2> QED
    BY <2>1 DEF TextHolds
<1>4. CASE v \notin D
  <2>1. ASSUME NEW i \in Idx, vchunk[v, i] # Nil PROVE chunk'[vchunk[v, i]] = chunk[vchunk[v, i]]
    <3>1. \A b \in Chunks : \/ chunk'[b] = chunk[b]
                            \/ /\ chunk'[b] = Nil /\ \E u \in D, j \in Idx : vchunk[u, j] = b
                               /\ \A u \in Version, j \in Idx : u \notin D => vchunk[u, j] # b
      BY DropFacts
    <3>2. vchunk[v, i] \in Chunks
      BY <2>1, RowsBacked
    <3> QED
      BY <1>4, <3>1, <3>2
  <2>2. ASSUME NEW i \in Idx PROVE Slice(vchunk[v, i])' = Slice(vchunk[v, i])
    BY <1>2, <1>4, <2>1, SliceFrame
  <2>3. TextHolds(v) /\ text'[v] = text[v] /\ vrow'[v] = vrow[v]
    BY <1>1, <1>4 DEF TextInv
  <2> QED
    BY <2>2, <2>3, TextFrame
<1> QED
  BY <1>3, <1>4

LEMMA TextRest ==
    ASSUME TextInv, vrow' = vrow, vchunk' = vchunk, chunk' = chunk, text' = text
    PROVE  TextInv'
  BY DEF TextInv, TextHolds, Slice

LEMMA TextCollect ==
    ASSUME Typed, ChunkInv, TextInv, NEW c \in Chunks, GarbageCollect(c)
    PROVE  TextInv'
<1>1. /\ vrow' = vrow /\ vchunk' = vchunk /\ text' = text
      /\ \A v \in Version, i \in Idx : vchunk[v, i] # c
      /\ chunk' = [chunk EXCEPT ![c] = Nil]
  BY DEF GarbageCollect, tables
<1>2. \A b \in Chunks : b # c => chunk'[b] = chunk[b]
  BY <1>1 DEF Typed
<1> SUFFICES ASSUME NEW v \in Version PROVE TextHolds(v)'
  BY DEF TextInv
<1>3. ASSUME NEW i \in Idx PROVE Slice(vchunk[v, i])' = Slice(vchunk[v, i])
  <2>1. vchunk[v, i] # Nil => vchunk[v, i] \in Chunks
    BY RowsBacked
  <2>2. vchunk[v, i] # Nil => chunk'[vchunk[v, i]] = chunk[vchunk[v, i]]
    BY <1>1, <1>2, <2>1
  <2> QED
    BY <1>1, <2>2, SliceFrame
<1>4. TextHolds(v)
  BY DEF TextInv
<1> QED
  BY <1>1, <1>3, <1>4, TextFrame

(* A commit: the version gets what its handle reads.                       *)
LEMMA TextCommitted ==
    ASSUME Typed, VersionInv, ChunkInv, ReadInv, NEW h \in Handles, Commit(h),
           NEW w \in Version, w = fh[h].ver, text'[w] # Nil
    PROVE  TextHolds(w)'
<1> DEFINE f == fh[h]
           n == fh[h].size
           b == Promised(fh[h])
<1>1. f.pc = "commit" /\ w \in Version /\ f.act = Nil /\ f.writable /\ w # 0 /\ Fits(f)
  <2>1. f.pc = "commit"
    BY DEF Commit
  <2> QED
    BY <2>1, CloseMoves, HandleFits, Numbers
<1>2. text[w] = Nil /\ vrow[w] # Nil
  BY <1>1 DEF VersionInv, HandleHeld
<1>3. /\ vrow' = [vrow EXCEPT ![w] = IF @ = Nil THEN Nil ELSE [@ EXCEPT !.size = n]]
      /\ text' = [text EXCEPT ![w] = b]
  BY <1>2 DEF Commit
<1>4. text'[w] = b /\ vrow'[w] = [vrow[w] EXCEPT !.size = n]
  BY <1>1, <1>2, <1>3 DEF Typed
<1>5. vrow[w] \in [inode : Inodes, size : 0..MaxSize]
  BY <1>1, <1>2 DEF Typed
<1>6. vrow'[w].size = n
  BY <1>4, <1>5
<1>7. vchunk' = vchunk /\ chunk' = chunk
  BY OtherFrames
<1>8. f.sure \in BOOLEAN /\ n \in 0..MaxSize /\ n \in Nat
  BY <1>1, SizeFacts DEF Fits, Handle
<1>9. b = [sure |-> f.sure, bytes |-> IF f.sure THEN f.view ELSE Flat(Contents(RowsOf(w)), n)]
  BY DEF Promised
<1>10. b.sure = f.sure /\ b.bytes = IF f.sure THEN f.view ELSE Flat(Contents(RowsOf(w)), n)
  BY <1>9
<1>11. SUFFICES /\ n = Len(b.bytes)
                /\ \A i \in Idx, r \in Offsets : f.sure \/ i * SliceSize + r < n =>
                        Byte(Slice(vchunk[w, i]), r) = Byte(b.bytes, i * SliceSize + r)
  <2> HIDE DEF f, b
  <2> SUFFICES ASSUME /\ n = Len(b.bytes)
                      /\ \A i \in Idx, r \in Offsets : f.sure \/ i * SliceSize + r < n =>
                            Byte(Slice(vchunk[w, i]), r) = Byte(b.bytes, i * SliceSize + r)
               PROVE  TextHolds(w)'
    OBVIOUS
  <2>1. \A i \in Idx : Slice(vchunk[w, i])' = Slice(vchunk[w, i])
    BY <1>7 DEF Slice
  <2> QED
    BY <1>4, <1>6, <1>10, <2>1 DEF TextHolds
<1>12. CASE f.sure = TRUE
  <2>1. HandleReads(f) /\ b.bytes = f.view
    BY <1>1, <1>10, <1>12 DEF ReadInv
  <2>2. n = Len(f.view)
    BY <1>1, <2>1 DEF HandleReads, SizeReads
  <2>3. ASSUME NEW i \in Idx, NEW r \in Offsets
        PROVE  Byte(Slice(vchunk[w, i]), r) = Byte(f.view, i * SliceSize + r)
    <3>1. f.new[i] = vchunk[w, i]
      BY <1>1, <1>12 DEF ChunkInv, Written
    <3>2. Holding(f, i) = Slice(f.new[i])
      BY <1>1, IdxNil, HoldingIdle DEF Putting
    <3>3. Byte(Holding(f, i), r) = Due(f, i * SliceSize + r)
      BY <1>1, <2>1 DEF HandleReads, OwnReads, Busy
    <3>4. \A k : Due(f, k) = Byte(f.view, k)
      BY <1>1, DuePlain DEF Putting
    <3> QED
      BY <3>1, <3>2, <3>3, <3>4
  <2> QED
    BY <2>1, <2>2, <2>3
<1>13. CASE f.sure = FALSE
  <2> DEFINE s == Contents(RowsOf(w))
  <2>1. s \in [Idx -> Seq(Nat)]
    BY <1>1, ContentsTyped
  <2>2. b.bytes = Flat(s, n)
    BY <1>10, <1>13
  <2>3. \A i \in Idx : s[i] = Slice(vchunk[w, i])
    <3> SUFFICES ASSUME NEW i \in Idx PROVE s[i] = Slice(vchunk[w, i])
      OBVIOUS
    <3>1. vchunk[w, i] # Nil => chunk[vchunk[w, i]] # Nil
      BY <1>1, RowsBacked
    <3> QED
      BY <3>1 DEF Contents, RowsOf, Slice
  <2> HIDE DEF s, b, n
  <2>4. /\ Len(Flat(s, n)) = n
        /\ \A k \in Nat : k < n => Flat(s, n)[k + 1] = Byte(s[k \div SliceSize], k % SliceSize)
    BY <1>8, <2>1, FlatBytes
  <2>5. ASSUME NEW i \in Idx, NEW r \in Offsets, i * SliceSize + r < n
        PROVE  Byte(Slice(vchunk[w, i]), r) = Byte(b.bytes, i * SliceSize + r)
    <3> DEFINE k == i * SliceSize + r
    <3>1. k \in Nat /\ i \in Nat
      BY Position
    <3>2. k \div SliceSize = i /\ k % SliceSize = r
      BY <3>1, SizeFacts, DivUnique DEF Offsets
    <3> HIDE DEF k
    <3>3. k < n
      BY <2>5 DEF k
    <3>4. Flat(s, n)[k + 1] = Byte(s[i], r)
      BY <2>4, <3>1, <3>2, <3>3
    <3>5. Byte(b.bytes, k) = Flat(s, n)[k + 1]
      BY <2>2, <2>4, <3>3 DEF Byte
    <3> QED
      BY <2>3, <3>4, <3>5 DEF k
  <2>6. n = Len(b.bytes)
    BY <2>2, <2>4
  <2> QED
    BY <1>13, <2>5, <2>6
<1> QED
  BY <1>8, <1>12, <1>13

LEMMA TextOfHandle ==
    ASSUME Typed, VersionInv, ChunkInv, TextInv, ReadInv,
           NEW h \in Handles, HandleCall(h) \/ HandleStep(h), NEW v \in Version
    PROVE  TextHolds(v)'
<1>1. v = fh[h].ver => text[v] = Nil
  BY Numbers DEF VersionInv, HandleHeld
<1>2. CASE v = fh[h].ver
  <2>1. ~Commit(h) => text' = text
    BY HandleActions, QuietFrame, MappingFrame, OtherFrames DEF SameTables
  <2>2. text'[v] = Nil => TextHolds(v)'
    BY DEF TextHolds
  <2> QED
    BY <1>1, <1>2, <2>1, <2>2, TextCommitted
<1>3. CASE v # fh[h].ver /\ text[v] # Nil
  <2>1. \A i \in Idx : vchunk'[v, i] = vchunk[v, i]
    <3>1. \A u \in Version, i \in Idx : u # fh[h].ver => vchunk'[u, i] = vchunk[u, i]
      BY ChunkFrame
    <3> QED
      BY <1>3, <3>1
  <2>2. ASSUME NEW i \in Idx PROVE Slice(vchunk[v, i])' = Slice(vchunk[v, i])
    <3>1. vchunk[v, i] # Nil => vchunk[v, i] \in Chunks /\ chunk[vchunk[v, i]] # Nil
      BY RowsBacked
    <3>2. vchunk[v, i] # Nil => chunk'[vchunk[v, i]] = chunk[vchunk[v, i]]
      BY <3>1, ChunkFrame
    <3> QED
      BY <2>1, <3>2, SliceFrame
  <2>3. text'[v] = text[v] /\ vrow'[v] = vrow[v]
    <3>1. CASE Commit(h)
      <4>1. fh[h].ver \in Version
        BY <3>1, CloseMoves DEF Commit
      <4>2. /\ vrow' = vrow \/ vrow' = [vrow EXCEPT ![fh[h].ver] =
                                            IF @ = Nil THEN Nil ELSE [@ EXCEPT !.size = fh[h].size]]
            /\ text' = text \/ text' = [text EXCEPT ![fh[h].ver] = Promised(fh[h])]
        BY <3>1 DEF Commit
      <4> QED
        BY <1>3, <4>1, <4>2 DEF Typed
    <3>2. CASE Discard(h)
      <4>1. fh[h].ver \in Version /\ text' = text
        BY <3>2, CloseMoves, OtherFrames DEF Discard
      <4>2. vrow' = vrow \/ vrow' = [vrow EXCEPT ![fh[h].ver] = Nil]
        BY <3>2 DEF Discard
      <4> QED
        BY <1>3, <4>1, <4>2 DEF Typed
    <3>3. CASE NewVersion(h)
      <4>1. /\ nextVer \in Version /\ text' = text
            /\ vrow' = [vrow EXCEPT ![nextVer] = [inode |-> fh[h].inode, size |-> fh[h].size]]
        BY <3>3, NewVersionMoves, OtherFrames
      <4>2. v # nextVer
        <5>1. nextVer >= nextVer
          BY <4>1 DEF Version
        <5>2. text[nextVer] = Nil
          BY <4>1, <5>1 DEF VersionInv, Unborn
        <5> QED
          BY <1>3, <5>2
      <4> QED
        BY <4>1, <4>2 DEF Typed
    <3>4. ~Commit(h) /\ ~Discard(h) /\ ~NewVersion(h) => vrow' = vrow /\ text' = text
      BY HandleActions, QuietFrame, MappingFrame, OtherFrames DEF SameTables
    <3> QED
      BY <3>1, <3>2, <3>3, <3>4
  <2>4. TextHolds(v)
    BY DEF TextInv
  <2> QED
    BY <2>2, <2>3, <2>4, TextFrame
<1>4. CASE v # fh[h].ver /\ text[v] = Nil
  <2>1. text'[v] = text[v]
    <3>1. CASE Commit(h)
      <4>1. text' = text \/ text' = [text EXCEPT ![fh[h].ver] = Promised(fh[h])]
        BY <3>1 DEF Commit
      <4> QED
        BY <1>4, <4>1 DEF Typed
    <3>2. ~Commit(h) => text' = text
      BY HandleActions, QuietFrame, MappingFrame, OtherFrames DEF SameTables
    <3> QED
      BY <3>1, <3>2
  <2> QED
    BY <1>4, <2>1 DEF TextHolds
<1> QED
  BY <1>2, <1>3, <1>4

LEMMA TextStep ==
    ASSUME Typed, VersionInv, ChunkInv, TextInv, ReadInv, [Next]_vars, "release" \notin Overlaps
    PROVE  TextInv'
<1>1. ASSUME NEW i \in Inodes, purgeInode(i) PROVE TextInv'
  BY <1>1, PurgeDrops, TextDrop
<1>2. ASSUME NEW i \in Inodes, trimVersions(i) PROVE TextInv'
  BY <1>2, TrimDrops, TextDrop
<1>3. CASE Retention
  BY <1>1, <1>2, <1>3, RetentionQuiet, TextRest, TextCollect
<1>4. CASE Crash
  BY <1>4, TextRest DEF Crash, tables
<1>5. CASE UNCHANGED vars
  BY <1>5, TextRest DEF vars, tables
<1>6. ASSUME NEW h \in Handles, HandleCall(h) \/ HandleStep(h) PROVE TextInv'
  BY <1>6, TextOfHandle DEF TextInv
<1> QED
  BY <1>3, <1>4, <1>5, <1>6, NextCases
-----------------------------------------------------------------------------
(* The inductive invariant of the file layer, and what follows from it.    *)
FileInv == Typed /\ VersionInv /\ ChunkInv /\ TextInv /\ ReadInv

LEMMA FileInit == ASSUME Init PROVE FileInv
<1>1. Typed
  BY TypedInit
<1>2. VersionInv
  BY DEF Init, VersionInv, Unborn, Rowed, CurrentHeld, RestoringHeld, HandleHeld, Closed
<1>3. ChunkInv
  BY DEF Init, ChunkInv, Backed, Storing, Snapshot, Written, Closed, Loaded, NoRows
<1>4. TextInv /\ ReadInv
  BY DEF Init, TextInv, TextHolds, ReadInv, Closed
<1> QED
  BY <1>1, <1>2, <1>3, <1>4 DEF FileInv

LEMMA FileStep ==
    ASSUME FileInv, [Next]_vars,
           "release" \notin Overlaps, "draft" \notin Overlaps, "dropped" \notin Overlaps
    PROVE  FileInv'
  BY TypedStep, VersionStep, ChunkStep, TextStep, ReadStep DEF FileInv

LEMMA IntactNow == ASSUME FileInv PROVE VersionsIntact
<1> SUFFICES ASSUME NEW v \in Version, vrow[v] # Nil, text[v] # Nil
             PROVE  /\ \A x \in Idx : vchunk[v, x] # Nil => chunk[vchunk[v, x]] # Nil
                    /\ vrow[v].size = Len(text[v].bytes)
                    /\ Flat(Contents(RowsOf(v)), vrow[v].size) = text[v].bytes
  BY DEF VersionsIntact, Committed
<1>0. Typed /\ ChunkInv /\ TextHolds(v)
  BY DEF FileInv, TextInv
<1>1. \A x \in Idx : vchunk[v, x] # Nil => chunk[vchunk[v, x]] # Nil
  BY <1>0 DEF ChunkInv, Backed
<1>2. vrow[v].size = Len(text[v].bytes)
  BY <1>0 DEF TextHolds
<1> DEFINE n == vrow[v].size
           s == Contents(RowsOf(v))
           b == text[v].bytes
<1>3. n \in 0..MaxSize /\ b \in Seq(Nat)
  <2>1. vrow[v] \in [inode : Inodes, size : 0..MaxSize] /\ text[v] \in [bytes : Seq(Nat), sure : BOOLEAN]
    BY <1>0 DEF Typed, Text
  <2> QED
    BY <2>1
<1>4. s \in [Idx -> Seq(Nat)]
  BY <1>0, ContentsTyped
<1>5. \A i \in Idx : s[i] = Slice(vchunk[v, i])
  BY <1>1 DEF Contents, RowsOf, Slice
<1>6. ASSUME NEW i \in Idx, NEW r \in Offsets, i * SliceSize + r < n
      PROVE  Byte(Slice(vchunk[v, i]), r) = Byte(b, i * SliceSize + r)
  BY <1>0, <1>6 DEF TextHolds
<1>7. n = Len(b) /\ n \in Nat /\ MaxSize \in Nat /\ n <= MaxSize
  BY <1>2, <1>3, SizeFacts
<1> HIDE DEF n, s, b
<1>8. /\ Flat(s, n) \in Seq(Nat) /\ Len(Flat(s, n)) = n
      /\ \A k \in Nat : k < n => Flat(s, n)[k + 1] = Byte(s[k \div SliceSize], k % SliceSize)
  BY <1>3, <1>4, FlatBytes
<1>9. ASSUME NEW j \in 1..n PROVE Flat(s, n)[j] = b[j]
  <2> DEFINE k == j - 1
  <2>1. k \in Nat /\ k < n /\ k < MaxSize /\ j = k + 1
    BY <1>7
  <2> HIDE DEF k
  <2>2. PICK i \in Idx, r \in Offsets : i = k \div SliceSize /\ r = k % SliceSize /\ k = i * SliceSize + r
    BY <2>1, Place
  <2>3. Flat(s, n)[k + 1] = Byte(s[i], r)
    BY <1>8, <2>1, <2>2
  <2>4. i * SliceSize + r < n
    BY <2>1, <2>2
  <2>5. Byte(Slice(vchunk[v, i]), r) = Byte(b, k)
    BY <1>6, <2>2, <2>4
  <2>6. Byte(b, k) = b[k + 1]
    BY <1>7, <2>1 DEF Byte
  <2> QED
    BY <1>5, <2>1, <2>3, <2>5, <2>6
<1>10. Flat(s, n) = b
  BY <1>3, <1>7, <1>8, <1>9, SeqEqual
<1> QED
  BY <1>1, <1>2, <1>10 DEF n, s, b

LEMMA ReadsNow == ASSUME FileInv PROVE ReadsOwnWrites
<1> SUFFICES ASSUME NEW h \in Handles, fh[h].pc = "ready", fh[h].sure
             PROVE  ReadsView(fh[h], {x \in Idx : ~Dropped(fh[h], x)})
  BY DEF ReadsOwnWrites
<1> DEFINE f == fh[h]
<1>1. Typed /\ ChunkInv /\ Fits(f) /\ HandleReads(f)
  BY HandleFits DEF FileInv, ReadInv
<1>2. f.size = Len(f.view) /\ f.size \in 0..MaxSize
  BY <1>1 DEF HandleReads, SizeReads, Fits, Handle
<1>3. ASSUME NEW i \in Idx PROVE Readable(f, i)
  <2>1. /\ f.old[i] # Nil => chunk[f.old[i]] # Nil
        /\ f.new[i] # Nil => chunk[f.new[i]] # Nil
    BY <1>1, RowsOfHandle
  <2> QED
    BY <2>1 DEF Readable, Source
<1>4. ASSUME NEW i \in Idx, NEW r \in Offsets, ~Dropped(f, i)
      PROVE  Byte(Plain(f, i), r) = Byte(f.view, i * SliceSize + r)
  <2>1. CASE f.writable
    <3>1. Kept(f, i)
      BY <1>4, <2>1 DEF Dropped, Kept, Putting
    <3>2. Plain(f, i) = Holding(f, i)
      BY <3>1, PlainHolds DEF Putting
    <3>3. Byte(Holding(f, i), r) = Due(f, i * SliceSize + r)
      BY <1>1, <2>1 DEF HandleReads, OwnReads
    <3>4. \A k : Due(f, k) = Byte(f.view, k)
      BY DuePlain DEF Putting
    <3> QED
      BY <3>2, <3>3, <3>4
  <2>2. CASE ~f.writable
    <3>1. f.act = Nil /\ f.new = NoRows
      BY <1>1, <2>2 DEF Fits, HandleShape
    <3>2. Plain(f, i) = Slice(f.old[i])
      BY <3>1, IdxNil DEF Plain, Source, Slice, NoRows
    <3>3. Byte(Slice(f.old[i]), r) = Byte(f.view, i * SliceSize + r)
      BY <1>1, <2>2 DEF HandleReads, SnapReads
    <3> QED
      BY <3>2, <3>3
  <2> QED
    BY <2>1, <2>2
<1>5. ASSUME NEW j \in 1..f.size, ~Dropped(f, (j - 1) \div SliceSize)
      PROVE  Byte(Plain(f, (j - 1) \div SliceSize), (j - 1) % SliceSize) = f.view[j]
  <2> DEFINE k == j - 1
             n == f.size
  <2>0. n \in Nat /\ MaxSize \in Nat /\ n <= MaxSize /\ n = Len(f.view) /\ j \in 1..n
    BY <1>2, SizeFacts
  <2> HIDE DEF n
  <2>1. k \in Nat /\ k < n /\ k < MaxSize /\ j = k + 1
    BY <2>0
  <2>2. PICK i \in Idx, r \in Offsets : i = k \div SliceSize /\ r = k % SliceSize /\ k = i * SliceSize + r
    BY <2>1, Place
  <2>3. ~Dropped(f, i)
    BY <1>5, <2>2
  <2>4. Byte(Plain(f, i), r) = Byte(f.view, k)
    BY <1>4, <2>2, <2>3
  <2>5. Byte(f.view, k) = f.view[j]
    BY <2>0, <2>1 DEF Byte
  <2> QED
    BY <2>2, <2>4, <2>5
<1> QED
  BY <1>2, <1>3, <1>5 DEF ReadsView

(* A committed version keeps its bytes, whatever happens to other handles, *)
(* versions and files, as long as no trim and no purge meets a handle or a *)
(* restore, no restore picks a version that is still being written, and no *)
(* handle comes back to a slice it has dropped.                            *)
THEOREM CommittedStay ==
    ASSUME "release" \notin Overlaps, "draft" \notin Overlaps, "dropped" \notin Overlaps
    PROVE  Spec => []VersionsIntact
<1>1. Init => FileInv
  BY FileInit
<1>2. FileInv /\ [Next]_vars => FileInv'
  BY FileStep
<1>3. FileInv => VersionsIntact
  BY IntactNow
<1> QED
  BY <1>1, <1>2, <1>3, PTL DEF Spec

(* A handle reads what its user has written over what the file held when   *)
(* it was opened, under the same assumptions.                              *)
THEOREM HandleReadsItsWrites ==
    ASSUME "release" \notin Overlaps, "draft" \notin Overlaps, "dropped" \notin Overlaps
    PROVE  Spec => []ReadsOwnWrites
<1>1. Init => FileInv
  BY FileInit
<1>2. FileInv /\ [Next]_vars => FileInv'
  BY FileStep
<1>3. FileInv => ReadsOwnWrites
  BY ReadsNow
<1> QED
  BY <1>1, <1>2, <1>3, PTL DEF Spec
=============================================================================
