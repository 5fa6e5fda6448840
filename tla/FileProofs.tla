------------------------------ MODULE FileProofs -------------------------------
(***************************************************************************)
(* The file layer for every slice size, file size and number of handles:   *)
(* what a version holds, what a handle reads, and where a file points.     *)
(***************************************************************************)
EXTENDS Files, SequenceTheorems, TLAPS

Rows == [Idx -> Chunks \cup {Nil}]
Text == [bytes : Seq(Nat), sure : BOOLEAN]
WriteOp == [kind : {"write"}, off : Nat, data : Seq(Nat), rest : Seq(Nat),
            next : [idx : Idx, buf : Seq(Nat)] \cup {Nil}]
CutOp   == [kind : {"cut"}, size : 0..MaxSize]
FlushOp == [kind : {"sync", "close"}]
Handle ==
    [pc : Pc, inode : Inodes \cup {Nil}, writable : BOOLEAN, base : 0..MaxVersion, old : Rows,
     ver : 0..MaxVersion, new : Rows, size : 0..MaxSize, dirty : BOOLEAN, act : Idx \cup {Nil},
     buf : Seq(Nat), out : [idx : Idx, data : Seq(Nat)] \cup {Nil}, got : Chunks \cup {Nil},
     op : WriteOp \cup CutOp \cup FlushOp \cup {Nil}, view : Seq(Nat), sure : BOOLEAN,
     calls : 0..MaxCalls]

Opening == {"stat", "base", "snapshot", "born"}
Busy    == {"write", "cut", "flush", "store", "commit", "discard"}
Putting == {"flush", "store"}

(* How far a write has come, and the slices it still has to take.          *)
Done(f)  == Len(f.op.data) - Len(f.op.rest)
First(f) == (f.op.off + Done(f)) \div SliceSize
Last(f)  == (f.op.off + Len(f.op.data) - 1) \div SliceSize
Edge(f)  == f.op.size \div SliceSize

WriteShape(f) ==
    /\ f.op \in WriteOp /\ f.op.data # <<>> /\ Len(f.op.rest) <= Len(f.op.data)
    /\ f.op.off + Len(f.op.data) <= MaxSize
    /\ \A k \in 1..Len(f.op.rest) : f.op.rest[k] = f.op.data[Done(f) + k]
    /\ f.pc = "write" => f.op.rest # <<>>
    /\ f.pc \in Putting =>
        /\ f.op.next \in [idx : Idx, buf : Seq(Nat)] /\ f.op.next.idx # f.out.idx /\ Len(f.op.next.buf) \in 1..SliceSize
        /\ f.op.rest # <<>> => First(f) = f.op.next.idx + 1
CutShape(f) ==
    /\ f.op \in CutOp /\ f.op.size % SliceSize # 0 /\ f.op.size < f.size
    /\ f.act # Edge(f) /\ (f.act # Nil => f.act < Edge(f))
    /\ \A i \in Idx : i > Edge(f) => f.new[i] = Nil
    /\ f.pc \in Putting => f.out.idx = Edge(f) /\ Len(f.out.data) = f.op.size % SliceSize

(* What the fields of a handle say of one another.                         *)
HandleShape(f) ==
    /\ f.pc = "closed" => f = Closed
    /\ f.pc # "closed" => f.inode \in Inodes
    /\ f.pc \in {"stat", "base"} => f.old = NoRows
    /\ f.pc = "stat" => f.size = 0
    /\ f.pc = "base" => f.base # 0
    /\ f.pc \in {"snapshot", "born"} \cup Busy => f.writable
    /\ f.pc \in Opening \ {"born"} => f.ver = 0
    /\ ~f.writable => f.ver = 0
    /\ f.pc \in {"ready", "born"} \cup Busy /\ f.writable => f.ver # 0
    /\ f.pc \in Opening \/ ~f.writable =>
            f.new = NoRows /\ f.act = Nil
    /\ f.act = Nil => f.buf = <<>>
    /\ f.act # Nil => Len(f.buf) \in 1..SliceSize
    /\ f.pc \notin Putting => f.out = Nil
    /\ f.pc # "store" => f.got = Nil
    /\ f.pc = "store" => f.got # Nil
    /\ f.pc = "write" => f.op.kind = "write"
    /\ f.pc = "cut" => f.op.kind = "cut"
    /\ f.pc \in {"write", "cut"} \cup Putting =>
            CASE f.op.kind = "write" -> WriteShape(f)
              [] f.op.kind = "cut"   -> CutShape(f)
              [] OTHER               -> f.op \in FlushOp
    /\ f.pc \in Putting =>
            f.out \in [idx : Idx, data : Seq(Nat)] /\ Len(f.out.data) \in 1..SliceSize /\ f.out.idx # f.act
            /\ (f.op.kind # "cut" => f.act = Nil)
    /\ f.pc \in {"commit", "discard"} => f.act = Nil

Typed ==
    /\ inode \in [Inodes -> [state : {"absent", "live", "deleted", "gone"}, ver : 0..MaxVersion]]
    /\ vrow \in [Version -> [inode : Inodes, size : 0..MaxSize] \cup {Nil}]
    /\ vchunk \in [Version \X Idx -> Chunks \cup {Nil}]
    /\ nextVer \in 1..(MaxVersion + 1)
    /\ chunk \in [Chunks -> Seq(Nat) \cup {Nil}]
    /\ \A c \in Chunks : chunk[c] # Nil => Len(chunk[c]) \in 1..SliceSize
    /\ fh \in [Handles -> Handle] /\ \A h \in Handles : HandleShape(fh[h])
    /\ purging \subseteq Inodes /\ restoring \subseteq Version \X Inodes
    /\ text \in [Version -> Text \cup {Nil}]
    /\ crashes \in 0..MaxCrash
Loaded == Pc \ {"closed", "stat", "base"}
Offsets == 0..(SliceSize - 1)
-----------------------------------------------------------------------------
(* Arithmetic of slices.                                                   *)
LEMMA SizeFacts == SliceSize \in Nat \ {0} /\ MaxSize \in Nat \ {0} /\ MaxVersion \in Nat
  BY FileAssumption

LEMMA DivMod ==
    ASSUME NEW a \in Nat, NEW s \in Nat \ {0}
    PROVE  \E q \in Nat, r \in 0..(s - 1) : q = a \div s /\ r = a % s /\ a = q * s + r
<1>1. PICK q, r : q = a \div s /\ r = a % s
  OBVIOUS
<1>2. q \in Nat /\ r \in 0..(s - 1)
  BY <1>1
<1>3. a = s * q + r
  BY <1>1
<1>4. s * q = q * s
  BY <1>2
<1> QED
  BY <1>1, <1>2, <1>3, <1>4

LEMMA NextSlice ==
    ASSUME NEW i \in Nat, NEW j \in Nat, NEW s \in Nat, i < j
    PROVE  i * s + s <= j * s
<1>1. PICK d \in Nat : j = i + 1 + d
  <2> WITNESS j - i - 1 \in Nat
  <2> QED OBVIOUS
<1>2. j * s = i * s + s + d * s /\ d * s \in Nat
  BY <1>1
<1> QED
  BY <1>2

LEMMA DivUnique ==
    ASSUME NEW q \in Nat, NEW s \in Nat \ {0}, NEW r \in 0..(s - 1)
    PROVE  (q * s + r) \div s = q /\ (q * s + r) % s = r
<1> DEFINE a == q * s + r
<1>1. a \in Nat /\ q * s \in Nat
  OBVIOUS
<1>2. PICK p \in Nat, t \in 0..(s - 1) : p = a \div s /\ t = a % s /\ a = p * s + t
  BY <1>1, DivMod
<1>3. p * s \in Nat
  OBVIOUS
<1> HIDE DEF a
<1>4. ~(p < q)
  <2>1. p < q => p * s + s <= q * s
    BY NextSlice
  <2> QED
    BY <2>1, <1>1, <1>2, <1>3 DEF a
<1>5. ~(q < p)
  <2>1. q < p => q * s + s <= p * s
    BY NextSlice
  <2> QED
    BY <2>1, <1>1, <1>2, <1>3 DEF a
<1>6. p = q
  BY <1>4, <1>5
<1> QED
  BY <1>1, <1>2, <1>6 DEF a

LEMMA DivMono ==
    ASSUME NEW a \in Nat, NEW b \in Nat, NEW s \in Nat \ {0}, a <= b
    PROVE  a \div s <= b \div s
<1>1. PICK p \in Nat, t \in 0..(s - 1) : p = a \div s /\ t = a % s /\ a = p * s + t
  BY DivMod
<1>2. PICK q \in Nat, u \in 0..(s - 1) : q = b \div s /\ u = b % s /\ b = q * s + u
  BY DivMod
<1>3. q < p => q * s + s <= p * s
  BY NextSlice
<1>4. p * s \in Nat /\ q * s \in Nat
  OBVIOUS
<1> QED
  BY <1>1, <1>2, <1>3, <1>4

(* A byte of a file, by its slice and its offset there.                    *)
LEMMA Place ==
    ASSUME NEW k \in Nat, k < MaxSize
    PROVE  \E i \in Idx, r \in Offsets :
                i = k \div SliceSize /\ r = k % SliceSize /\ k = i * SliceSize + r
<1>1. PICK q \in Nat, r \in 0..(SliceSize - 1) :
        q = k \div SliceSize /\ r = k % SliceSize /\ k = q * SliceSize + r
  BY SizeFacts, DivMod
<1>2. MaxSize - 1 \in Nat /\ k <= MaxSize - 1
  BY SizeFacts
<1>3. k \div SliceSize <= (MaxSize - 1) \div SliceSize
  BY <1>2, SizeFacts, DivMono
<1>4. (MaxSize - 1) \div SliceSize \in Nat
  BY <1>2, SizeFacts
<1>5. q \in Idx
  BY <1>1, <1>3, <1>4 DEF Idx
<1> QED
  BY <1>1, <1>5 DEF Offsets

LEMMA IdxNat == Idx \subseteq Nat /\ Offsets \subseteq Nat
<1>1. MaxSize - 1 \in Nat
  BY SizeFacts
<1>2. (MaxSize - 1) \div SliceSize \in Nat
  BY <1>1, SizeFacts
<1> QED
  BY <1>2, SizeFacts DEF Idx, Offsets
-----------------------------------------------------------------------------
(* Bytes of sequences.                                                     *)
LEMMA SeqOfLength ==
    ASSUME NEW n \in Nat, NEW s \in [1..n -> Nat]
    PROVE  s \in Seq(Nat) /\ Len(s) = n
<1>1. s \in Seq(Nat)
  BY SeqDef
<1>2. DOMAIN s = 1..Len(s) /\ Len(s) \in Nat
  BY <1>1, LenProperties
<1> QED
  BY <1>1, <1>2

LEMMA ByteNat ==
    ASSUME NEW s \in Seq(Nat), NEW k \in Nat
    PROVE  Byte(s, k) \in Nat /\ (k >= Len(s) => Byte(s, k) = 0)
<1>1. Len(s) \in Nat
  BY LenProperties
<1>2. k < Len(s) => s[k + 1] \in Nat
  BY <1>1, ElementOfSeq
<1> QED
  BY <1>1, <1>2 DEF Byte

LEMMA ByteEmpty == \A k \in Nat : Byte(<<>>, k) = 0
  BY EmptySeq DEF Byte

LEMMA PatchBytes ==
    ASSUME NEW s \in Seq(Nat), NEW off \in Nat, NEW p \in Seq(Nat)
    PROVE  /\ Patch(s, off, p) \in Seq(Nat)
           /\ Len(Patch(s, off, p)) = IF off + Len(p) > Len(s) THEN off + Len(p) ELSE Len(s)
           /\ p # <<>> => \A k \in Nat : Byte(Patch(s, off, p), k) =
                IF off <= k /\ k < off + Len(p) THEN p[k - off + 1] ELSE Byte(s, k)
<1> DEFINE n == IF off + Len(p) > Len(s) THEN off + Len(p) ELSE Len(s)
<1>1. Len(s) \in Nat /\ Len(p) \in Nat /\ n \in Nat
  BY LenProperties
<1>2. \A k \in 1..n : (IF k > off /\ k <= off + Len(p) THEN p[k - off] ELSE Byte(s, k - 1)) \in Nat
  <2> SUFFICES ASSUME NEW k \in 1..n
               PROVE  (IF k > off /\ k <= off + Len(p) THEN p[k - off] ELSE Byte(s, k - 1)) \in Nat
    OBVIOUS
  <2>1. k > off /\ k <= off + Len(p) => k - off \in 1..Len(p)
    BY <1>1
  <2>2. \A j \in 1..Len(p) : p[j] \in Nat
    BY ElementOfSeq
  <2>3. k - 1 \in Nat
    BY <1>1
  <2>4. Byte(s, k - 1) \in Nat
    BY <2>3, ByteNat
  <2> QED
    BY <2>1, <2>2, <2>4
<1>3. Patch(s, off, p) \in [1..n -> Nat]
  BY <1>2 DEF Patch
<1>4. Patch(s, off, p) \in Seq(Nat) /\ Len(Patch(s, off, p)) = n
  BY <1>1, <1>3, SeqOfLength
<1>5. ASSUME p # <<>>, NEW k \in Nat
      PROVE  Byte(Patch(s, off, p), k) =
                IF off <= k /\ k < off + Len(p) THEN p[k - off + 1] ELSE Byte(s, k)
  <2>1. CASE k < n
    <3>1. k + 1 \in 1..n
      BY <1>1, <2>1
    <3>2. Patch(s, off, p)[k + 1] =
            IF k + 1 > off /\ k + 1 <= off + Len(p) THEN p[k + 1 - off] ELSE Byte(s, k + 1 - 1)
      BY <3>1 DEF Patch
    <3>3. k + 1 - off = k - off + 1 /\ k + 1 - 1 = k
      OBVIOUS
    <3>4. Byte(Patch(s, off, p), k) = Patch(s, off, p)[k + 1]
      BY <1>1, <1>4, <2>1 DEF Byte
    <3> HIDE DEF n
    <3> QED
      BY <1>1, <3>2, <3>3, <3>4
  <2>2. CASE k >= n
    <3>1. Byte(Patch(s, off, p), k) = 0
      BY <1>1, <1>4, <2>2 DEF Byte
    <3>2. Byte(s, k) = 0 /\ ~(k < off + Len(p))
      BY <1>1, <2>2 DEF Byte
    <3> QED
      BY <3>1, <3>2
  <2> QED
    BY <1>1, <2>1, <2>2
<1> QED
  BY <1>4, <1>5

LEMMA ResizeBytes ==
    ASSUME NEW s \in Seq(Nat), NEW n \in Nat
    PROVE  /\ Resize(s, n) \in Seq(Nat) /\ Len(Resize(s, n)) = n
           /\ \A k \in Nat : Byte(Resize(s, n), k) = IF k < n THEN Byte(s, k) ELSE 0
<1>1. \A k \in 1..n : Byte(s, k - 1) \in Nat
  BY ByteNat
<1>2. Resize(s, n) \in [1..n -> Nat]
  BY <1>1 DEF Resize
<1>3. Resize(s, n) \in Seq(Nat) /\ Len(Resize(s, n)) = n
  BY <1>2, SeqOfLength
<1>4. ASSUME NEW k \in Nat
      PROVE  Byte(Resize(s, n), k) = IF k < n THEN Byte(s, k) ELSE 0
  <2>1. k < n => Resize(s, n)[k + 1] = Byte(s, k)
    BY DEF Resize
  <2>2. Byte(Resize(s, n), k) = IF k < n THEN Resize(s, n)[k + 1] ELSE 0
    BY <1>3 DEF Byte
  <2> QED
    BY <2>1, <2>2
<1> QED
  BY <1>3, <1>4

LEMMA SubSeqBytes ==
    ASSUME NEW s \in Seq(Nat), NEW m \in Nat \ {0}, NEW n \in Nat, n <= Len(s), m <= n + 1
    PROVE  /\ SubSeq(s, m, n) \in Seq(Nat) /\ Len(SubSeq(s, m, n)) = n - m + 1
           /\ \A k \in 1..(n - m + 1) : SubSeq(s, m, n)[k] = s[m + k - 1]
<1>1. Len(s) \in Nat /\ \A i \in m..n : s[i] \in Nat
  BY LenProperties, ElementOfSeq
<1>2. /\ SubSeq(s, m, n) \in Seq(Nat)
      /\ Len(SubSeq(s, m, n)) = IF m <= n THEN n - m + 1 ELSE 0
      /\ \A i \in 1..(n - m + 1) : SubSeq(s, m, n)[i] = s[m + i - 1]
  BY <1>1, SubSeqProperties
<1> QED
  BY <1>2

LEMMA AllZeroBytes ==
    ASSUME NEW s \in Seq(Nat), AllZero(s), NEW k \in Nat
    PROVE  Byte(s, k) = 0
<1>1. DOMAIN s = 1..Len(s) /\ Len(s) \in Nat
  BY LenProperties
<1> QED
  BY <1>1 DEF AllZero, Byte
-----------------------------------------------------------------------------
(* The records of handles, field by field.                                 *)
SameFile(f, x) ==
    x.inode = f.inode /\ x.writable = f.writable /\ x.base = f.base /\ x.old = f.old /\ x.ver = f.ver

LEMMA ClosedTyped == Closed \in Handle /\ HandleShape(Closed)
<1>1. NoRows \in Rows /\ <<>> \in Seq(Nat)
  BY EmptySeq DEF NoRows, Rows
<1>2. 0 \in 0..MaxVersion /\ 0 \in 0..MaxSize /\ 0 \in 0..MaxCalls
  BY FileAssumption
<1>3. Closed \in Handle
  BY <1>1, <1>2 DEF Closed, Handle, Pc
<1>4. HandleShape(Closed)
  BY DEF Closed, HandleShape, Busy, Opening, Putting
<1> QED
  BY <1>3, <1>4

LEMMA FailFields ==
    ASSUME NEW f \in Handle, NEW x, x = Fail(f)
    PROVE  \/ f.op.kind = "close" /\ x = Closed
           \/ /\ f.op.kind # "close" /\ x \in Handle /\ SameFile(f, x)
              /\ x.pc = "ready" /\ x.op = Nil /\ x.out = Nil /\ x.got = Nil /\ x.sure = FALSE
              /\ x.new = f.new /\ x.size = f.size /\ x.act = f.act /\ x.buf = f.buf
              /\ x.view = f.view
<1>1. CASE f.op.kind = "close"
  BY <1>1 DEF Fail
<1>2. CASE f.op.kind # "close"
  <2>1. x = [f EXCEPT !.pc = "ready", !.op = Nil, !.out = Nil, !.got = Nil, !.sure = FALSE]
    BY <1>2 DEF Fail
  <2>2. x \in Handle
    BY <2>1 DEF Handle, Pc
  <2> QED
    BY <1>2, <2>1, <2>2 DEF Handle, SameFile
<1> QED
  BY <1>1, <1>2

LEMMA PieceFields ==
    ASSUME NEW f \in Handle, f.op \in WriteOp, f.op.off + Len(f.op.data) <= MaxSize,
           NEW x, x = AfterPiece(f)
    PROVE  /\ x \in Handle /\ SameFile(f, x) /\ x.new = f.new /\ x.act = f.act /\ x.buf = f.buf
           /\ x.out = f.out /\ x.got = f.got /\ x.sure = f.sure
           /\ f.op.rest # <<>> => x.pc = "write" /\ x.op = f.op /\ x.size = f.size /\ x.view = f.view
           /\ f.op.rest = <<>> =>
                /\ x.pc = "ready" /\ x.op = Nil /\ x.dirty
                /\ x.size = IF f.op.off + Len(f.op.data) > f.size THEN f.op.off + Len(f.op.data) ELSE f.size
                /\ x.view = Patch(f.view, f.op.off, f.op.data)
<1>0. f.op.off \in Nat /\ f.op.data \in Seq(Nat) /\ f.view \in Seq(Nat)
  BY DEF WriteOp, Handle
<1>1. CASE f.op.rest # <<>>
  <2>1. x = [f EXCEPT !.pc = "write"]
    BY <1>1 DEF AfterPiece
  <2>2. x \in Handle
    BY <2>1 DEF Handle, Pc
  <2> QED
    BY <1>1, <2>1, <2>2 DEF Handle, SameFile
<1>2. CASE f.op.rest = <<>>
  <2> DEFINE end == f.op.off + Len(f.op.data)
             s == IF end > f.size THEN end ELSE f.size
             p == Patch(f.view, f.op.off, f.op.data)
  <2>1. x = [f EXCEPT !.pc = "ready", !.op = Nil, !.dirty = TRUE, !.size = s, !.view = p]
    BY <1>2 DEF AfterPiece
  <2>2. p \in Seq(Nat)
    BY <1>0, PatchBytes
  <2>3. s \in 0..MaxSize
    <3>1. Len(f.op.data) \in Nat
      BY <1>0, LenProperties
    <3>2. f.size \in 0..MaxSize
      BY DEF Handle
    <3> QED
      BY <1>0, <3>1, <3>2
  <2> HIDE DEF s, p
  <2>4. x \in Handle
    BY <2>1, <2>2, <2>3 DEF Handle, Pc
  <2>5. x.size = s /\ x.view = p
    BY <2>1 DEF Handle
  <2> QED
    BY <1>2, <2>1, <2>4, <2>5 DEF Handle, SameFile, s, p
<1> QED
  BY <1>1, <1>2

LEMMA CutFields ==
    ASSUME NEW f \in Handle, f.op \in CutOp, NEW x, x = AfterCut(f)
    PROVE  /\ x \in Handle /\ SameFile(f, x) /\ x.new = f.new /\ x.act = f.act /\ x.buf = f.buf
           /\ x.out = f.out /\ x.got = f.got /\ x.sure = f.sure
           /\ x.pc = "ready" /\ x.op = Nil /\ x.dirty
           /\ x.size = f.op.size /\ x.view = Resize(f.view, f.op.size)
<1> DEFINE p == Resize(f.view, f.op.size)
<1>1. f.op.size \in 0..MaxSize /\ f.view \in Seq(Nat)
  BY DEF CutOp, Handle
<1>2. p \in Seq(Nat)
  <2>1. f.op.size \in Nat
    BY <1>1, SizeFacts
  <2> QED
    BY <1>1, <2>1, ResizeBytes
<1>3. x = [f EXCEPT !.pc = "ready", !.op = Nil, !.dirty = TRUE, !.size = f.op.size, !.view = p]
  BY DEF AfterCut
<1> HIDE DEF p
<1>4. x \in Handle
  BY <1>1, <1>2, <1>3 DEF Handle, Pc
<1> QED
  BY <1>3, <1>4 DEF Handle, SameFile, p

LEMMA PutFields ==
    ASSUME NEW f \in Handle, NEW x, x = AfterPut(f),
           \/ f.op \in WriteOp /\ f.op.off + Len(f.op.data) <= MaxSize /\ f.op.next \in [idx : Idx, buf : Seq(Nat)]
           \/ f.op \in CutOp
           \/ f.op \in FlushOp
    PROVE  /\ x \in Handle /\ SameFile(f, x) /\ x.new = f.new
           /\ x.out = Nil /\ x.got = Nil /\ x.sure = f.sure
           /\ f.op \in WriteOp =>
                /\ x.act = f.op.next.idx /\ x.buf = f.op.next.buf
                /\ f.op.rest # <<>> => x.pc = "write" /\ x.op = f.op /\ x.size = f.size /\ x.view = f.view
                /\ f.op.rest = <<>> =>
                    /\ x.pc = "ready" /\ x.op = Nil
                    /\ x.size = IF f.op.off + Len(f.op.data) > f.size THEN f.op.off + Len(f.op.data)
                                ELSE f.size
                    /\ x.view = Patch(f.view, f.op.off, f.op.data)
           /\ f.op \notin WriteOp => x.act = f.act /\ x.buf = f.buf
           /\ f.op \in CutOp =>
                x.pc = "ready" /\ x.op = Nil /\ x.size = f.op.size /\ x.view = Resize(f.view, f.op.size)
           /\ f.op \in FlushOp =>
                /\ x.size = f.size /\ x.view = f.view
                /\ f.op.kind = "sync" => x.pc = "ready" /\ x.op = Nil
                /\ f.op.kind = "close" => x.pc = ClosePc(f) /\ x.op = f.op
<1> DEFINE g == [f EXCEPT !.out = Nil, !.got = Nil]
           e == [g EXCEPT !.act = f.op.next.idx, !.buf = f.op.next.buf]
<1>1. /\ g \in Handle /\ SameFile(f, g) /\ g.new = f.new /\ g.out = Nil /\ g.got = Nil
      /\ g.sure = f.sure /\ g.act = f.act /\ g.buf = f.buf /\ g.op = f.op
      /\ g.size = f.size /\ g.view = f.view /\ g.pc = f.pc
  <2>1. g \in Handle
    BY DEF Handle
  <2> QED
    BY <2>1 DEF Handle, SameFile
<1> HIDE DEF g
<1>2. CASE f.op \in WriteOp /\ f.op.off + Len(f.op.data) <= MaxSize /\ f.op.next \in [idx : Idx, buf : Seq(Nat)]
  <2>1. f.op.kind = "write" /\ f.op.next.idx \in Idx /\ f.op.next.buf \in Seq(Nat)
    BY <1>2 DEF WriteOp
  <2>2. /\ e \in Handle /\ SameFile(g, e) /\ e.new = g.new /\ e.out = Nil /\ e.got = Nil
        /\ e.sure = g.sure /\ e.act = f.op.next.idx /\ e.buf = f.op.next.buf /\ e.op = f.op
        /\ e.size = g.size /\ e.view = g.view
    <3>1. e \in Handle
      BY <1>1, <2>1 DEF Handle
    <3> QED
      BY <1>1, <2>1, <3>1 DEF Handle, SameFile
  <2>3. x = AfterPiece(e)
    BY <2>1 DEF AfterPut, e, g
  <2> HIDE DEF e
  <2>4. f.op \notin CutOp /\ f.op \notin FlushOp
    BY <2>1 DEF CutOp, FlushOp
  <2> QED
    BY <1>1, <1>2, <2>2, <2>3, <2>4, PieceFields DEF SameFile
<1>3. CASE f.op \in CutOp
  <2>1. f.op.kind = "cut"
    BY <1>3 DEF CutOp
  <2>2. x = AfterCut(g)
    BY <2>1 DEF AfterPut, g
  <2>3. f.op \notin WriteOp /\ f.op \notin FlushOp
    BY <2>1 DEF WriteOp, FlushOp
  <2> QED
    BY <1>1, <1>3, <2>2, <2>3, CutFields DEF SameFile
<1>4. CASE f.op \in FlushOp
  <2>1. f.op.kind \in {"sync", "close"} /\ f.op \notin WriteOp /\ f.op \notin CutOp
    BY <1>4 DEF CutOp, WriteOp, FlushOp
  <2>2. CASE f.op.kind = "sync"
    <3>1. x = [g EXCEPT !.pc = "ready", !.op = Nil]
      BY <2>2 DEF AfterPut, g
    <3>2. x \in Handle
      BY <1>1, <3>1 DEF Handle, Pc
    <3> QED
      BY <1>1, <1>4, <2>1, <2>2, <3>1, <3>2 DEF Handle, SameFile
  <2>3. CASE f.op.kind = "close"
    <3>1. x = [g EXCEPT !.pc = ClosePc(f)]
      BY <2>3 DEF AfterPut, g
    <3>2. ClosePc(f) \in Pc
      BY DEF ClosePc, Pc
    <3>3. x \in Handle
      BY <1>1, <3>1, <3>2 DEF Handle
    <3> QED
      BY <1>1, <1>4, <2>1, <2>3, <3>1, <3>3 DEF Handle, SameFile
  <2> QED
    BY <2>1, <2>2, <2>3
<1> QED
  BY <1>2, <1>3, <1>4
-----------------------------------------------------------------------------
(* What each step makes of the handle that takes it.                       *)
Fits(x) == x \in Handle /\ HandleShape(x)

LEMMA HandleFits == ASSUME Typed, NEW h \in Handles PROVE Fits(fh[h])
  BY DEF Typed, Fits

LEMMA Becomes ==
    ASSUME Typed, NEW h \in Handles, NEW x, Become(h, x)
    PROVE  fh'[h] = x /\ \A g \in Handles : g # h => fh'[g] = fh[g]
  BY DEF Typed, Become

LEMMA OpenMoves ==
    ASSUME Typed, NEW h \in Handles, NEW i \in Inodes, NEW w \in BOOLEAN, Open(h, i, w)
    PROVE  /\ Fits(fh'[h]) /\ \A g \in Handles : g # h => fh'[g] = fh[g]
           /\ fh[h].pc = "closed" /\ inode[i].state \in {"live", "absent"}
           /\ \A j \in Inodes : inode'[j].state # "gone" <=> inode[j].state # "gone"
           /\ \A j \in Inodes : inode'[j].ver = inode[j].ver
           /\ inode' \in [Inodes -> [state : {"absent", "live", "deleted", "gone"}, ver : 0..MaxVersion]]
           /\ fh'[h].pc = "stat" /\ fh'[h].inode = i /\ fh'[h].base = inode[i].ver
           /\ fh'[h].ver = 0 /\ fh'[h].new = NoRows /\ fh'[h].got = Nil
           /\ fh'[h].sure => IF inode[i].ver = 0 THEN fh'[h].view = <<>>
                             ELSE text[inode[i].ver].sure /\ fh'[h].view = text[inode[i].ver].bytes
<1> DEFINE base == inode[i].ver
           held == IF base = 0 THEN [bytes |-> <<>>, sure |-> TRUE]
                   ELSE IF text[base] = Nil THEN [bytes |-> <<>>, sure |-> FALSE]
                   ELSE text[base]
           x == [Closed EXCEPT !.pc = "stat", !.inode = i, !.writable = w,
                               !.base = base, !.view = held.bytes, !.sure = held.sure]
<1>1. Become(h, x)
  BY DEF Open
<1>2. fh'[h] = x /\ \A g \in Handles : g # h => fh'[g] = fh[g]
  BY <1>1, Becomes
<1>3. base \in 0..MaxVersion
  BY DEF Typed
<1>4. held.bytes \in Seq(Nat) /\ held.sure \in BOOLEAN
  <2>1. base # 0 => base \in Version
    BY <1>3, SizeFacts DEF Version
  <2>2. base # 0 /\ text[base] # Nil => text[base] \in Text
    BY <2>1 DEF Typed
  <2>3. <<>> \in Seq(Nat)
    BY EmptySeq
  <2> QED
    BY <2>2, <2>3 DEF Text
<1>5. held.sure => IF base = 0 THEN held.bytes = <<>>
                   ELSE text[base].sure /\ held.bytes = text[base].bytes
  OBVIOUS
<1> HIDE DEF held, base
<1>6. x \in Handle
  BY <1>3, <1>4, ClosedTyped DEF Handle, Pc
<1>7. /\ x.pc = "stat" /\ x.inode = i /\ x.writable = w /\ x.base = base /\ x.view = held.bytes
      /\ x.sure = held.sure /\ x.ver = 0 /\ x.new = NoRows /\ x.got = Nil /\ x.old = NoRows
      /\ x.size = 0 /\ x.act = Nil /\ x.buf = <<>> /\ x.out = Nil /\ x.op = Nil
  BY DEF Closed
<1> HIDE DEF x
<1>8. HandleShape(x)
  BY <1>7 DEF HandleShape, Busy, Opening, Putting
<1>9. fh[h].pc = "closed" /\ inode[i].state \in {"live", "absent"}
  BY DEF Open
<1>10. /\ \A j \in Inodes : inode'[j].state # "gone" <=> inode[j].state # "gone"
       /\ \A j \in Inodes : inode'[j].ver = inode[j].ver
       /\ inode' \in [Inodes -> [state : {"absent", "live", "deleted", "gone"}, ver : 0..MaxVersion]]
  <2>1. inode \in [Inodes -> [state : {"absent", "live", "deleted", "gone"}, ver : 0..MaxVersion]]
    BY DEF Typed
  <2>2. CASE inode' = inode
    BY <2>1, <2>2
  <2>3. CASE inode[i].state = "absent" /\ inode' = [inode EXCEPT ![i].state = "live"]
    BY <2>1, <2>3
  <2>4. inode' = inode \/ (inode[i].state = "absent" /\ inode' = [inode EXCEPT ![i].state = "live"])
    BY DEF Open
  <2> QED
    BY <2>2, <2>3, <2>4
<1> QED
  BY <1>2, <1>5, <1>6, <1>7, <1>8, <1>9, <1>10 DEF Fits, base

LEMMA LoadVersionMoves ==
    ASSUME Typed, NEW h \in Handles, LoadVersion(h)
    PROVE  /\ Fits(fh'[h]) /\ \A g \in Handles : g # h => fh'[g] = fh[g]
           /\ fh[h].pc = "stat" /\ SameFile(fh[h], fh'[h]) /\ fh'[h].old = NoRows
           /\ fh'[h].sure = fh[h].sure /\ fh'[h].view = fh[h].view /\ fh'[h].new = fh[h].new
           /\ fh'[h].got = Nil
           /\ \/ /\ fh[h].base = 0 \/ vrow[fh[h].base] = Nil
                 /\ fh'[h].pc = IF fh[h].writable THEN "snapshot" ELSE "ready"
                 /\ fh'[h].size = 0
              \/ /\ fh[h].base # 0 /\ vrow[fh[h].base] # Nil
                 /\ fh'[h].pc = "base" /\ fh'[h].size = vrow[fh[h].base].size
<1> DEFINE f == fh[h]
           x == fh'[h]
<1>1. f \in Handle /\ HandleShape(f) /\ f.pc = "stat"
  BY HandleFits DEF Fits, LoadVersion
<1>2. /\ f.old = NoRows /\ f.size = 0 /\ f.ver = 0 /\ f.new = NoRows /\ f.act = Nil /\ f.buf = <<>>
      /\ f.out = Nil /\ f.got = Nil /\ f.inode \in Inodes
  BY <1>1 DEF HandleShape, Opening, Putting
<1>3. CASE f.base = 0 \/ vrow[f.base] = Nil
  <2>1. Become(h, [f EXCEPT !.pc = AfterLoad(h)])
    BY <1>3 DEF LoadVersion
  <2>2. x = [f EXCEPT !.pc = AfterLoad(h)] /\ \A g \in Handles : g # h => fh'[g] = fh[g]
    BY <2>1, Becomes
  <2>3. AfterLoad(h) = IF f.writable THEN "snapshot" ELSE "ready"
    BY DEF AfterLoad
  <2>4. x \in Handle
    BY <1>1, <2>2, <2>3 DEF Handle, Pc
  <2>5. /\ SameFile(f, x) /\ x.new = f.new /\ x.got = Nil /\ x.size = 0 /\ x.act = Nil /\ x.buf = <<>>
        /\ x.out = Nil /\ x.sure = f.sure /\ x.view = f.view /\ x.pc = AfterLoad(h)
    BY <1>1, <1>2, <2>2 DEF Handle, SameFile
  <2> HIDE DEF x, f
  <2>6. HandleShape(x)
    BY <1>2, <2>3, <2>5 DEF HandleShape, Busy, Opening, Putting, SameFile
  <2> QED
    BY <1>1, <1>2, <1>3, <2>2, <2>3, <2>4, <2>5, <2>6 DEF Fits, SameFile, x, f
<1>4. CASE f.base # 0 /\ vrow[f.base] # Nil
  <2> DEFINE n == vrow[f.base].size
  <2>1. Become(h, [f EXCEPT !.pc = "base", !.size = n])
    BY <1>4 DEF LoadVersion
  <2>2. x = [f EXCEPT !.pc = "base", !.size = n] /\ \A g \in Handles : g # h => fh'[g] = fh[g]
    BY <2>1, Becomes
  <2>3. n \in 0..MaxSize
    <3>1. f.base \in 0..MaxVersion
      BY <1>1 DEF Handle
    <3>2. f.base \in Version
      BY <1>4, <3>1, SizeFacts DEF Version
    <3> QED
      BY <1>4, <3>2 DEF Typed
  <2> HIDE DEF n
  <2>4. x \in Handle
    BY <1>1, <2>2, <2>3 DEF Handle, Pc
  <2>5. /\ SameFile(f, x) /\ x.new = f.new /\ x.got = Nil /\ x.size = n /\ x.act = Nil /\ x.buf = <<>>
        /\ x.out = Nil /\ x.sure = f.sure /\ x.view = f.view /\ x.pc = "base"
    BY <1>1, <1>2, <2>2 DEF Handle, SameFile
  <2> HIDE DEF x, f
  <2>6. HandleShape(x)
    BY <1>2, <1>4, <2>5 DEF HandleShape, Busy, Opening, Putting, SameFile
  <2> QED
    BY <1>1, <1>2, <1>4, <2>2, <2>4, <2>5, <2>6 DEF Fits, SameFile, x, f, n
<1> QED
  BY <1>3, <1>4

LEMMA RowsTyped ==
    ASSUME Typed, NEW v \in Version
    PROVE  RowsOf(v) \in Rows /\ \A i \in Idx : RowsOf(v)[i] = vchunk[v, i]
<1>1. vchunk \in [Version \X Idx -> Chunks \cup {Nil}]
  BY DEF Typed
<1>2. \A i \in Idx : vchunk[v, i] \in Chunks \cup {Nil}
  BY <1>1
<1> QED
  BY <1>2 DEF RowsOf, Rows

LEMMA LoadRowsMoves ==
    ASSUME Typed, NEW h \in Handles, LoadRows(h)
    PROVE  /\ Fits(fh'[h]) /\ \A g \in Handles : g # h => fh'[g] = fh[g]
           /\ fh[h].pc = "base" /\ fh[h].base \in Version
           /\ fh'[h].pc = IF fh[h].writable THEN "snapshot" ELSE "ready"
           /\ fh'[h].old = RowsOf(fh[h].base)
           /\ fh'[h].inode = fh[h].inode /\ fh'[h].writable = fh[h].writable
           /\ fh'[h].base = fh[h].base /\ fh'[h].ver = fh[h].ver
           /\ fh'[h].new = fh[h].new /\ fh'[h].sure = fh[h].sure /\ fh'[h].view = fh[h].view
           /\ fh'[h].size = fh[h].size /\ fh'[h].got = Nil
<1> DEFINE f == fh[h]
           x == fh'[h]
<1>1. f \in Handle /\ HandleShape(f) /\ f.pc = "base"
  BY HandleFits DEF Fits, LoadRows
<1>2. /\ f.base # 0 /\ f.ver = 0 /\ f.new = NoRows /\ f.act = Nil /\ f.buf = <<>>
      /\ f.out = Nil /\ f.got = Nil /\ f.inode \in Inodes
  BY <1>1 DEF HandleShape, Opening, Putting
<1>3. f.base \in Version
  <2>1. f.base \in 0..MaxVersion
    BY <1>1 DEF Handle
  <2> QED
    BY <1>2, <2>1, SizeFacts DEF Version
<1>4. Become(h, [f EXCEPT !.pc = AfterLoad(h), !.old = RowsOf(f.base)])
  BY DEF LoadRows
<1>5. /\ x = [f EXCEPT !.pc = AfterLoad(h), !.old = RowsOf(f.base)]
      /\ \A g \in Handles : g # h => fh'[g] = fh[g]
  BY <1>4, Becomes
<1>6. AfterLoad(h) = IF f.writable THEN "snapshot" ELSE "ready"
  BY DEF AfterLoad
<1>7. RowsOf(f.base) \in Rows
  BY <1>3, RowsTyped
<1>8. x \in Handle
  BY <1>1, <1>5, <1>6, <1>7 DEF Handle, Pc
<1>9. /\ x.inode = f.inode /\ x.writable = f.writable /\ x.base = f.base /\ x.ver = f.ver
      /\ x.new = f.new /\ x.got = f.got /\ x.act = f.act /\ x.buf = f.buf /\ x.size = f.size
      /\ x.out = f.out /\ x.sure = f.sure /\ x.view = f.view /\ x.pc = AfterLoad(h)
      /\ x.old = RowsOf(f.base)
  BY <1>1, <1>5 DEF Handle
<1> HIDE DEF x, f
<1>10. HandleShape(x)
  BY <1>2, <1>6, <1>9 DEF HandleShape, Busy, Opening, Putting
<1> QED
  BY <1>1, <1>2, <1>3, <1>5, <1>6, <1>8, <1>9, <1>10 DEF Fits, x, f

LEMMA NewVersionMoves ==
    ASSUME Typed, NEW h \in Handles, NewVersion(h)
    PROVE  /\ Fits(fh'[h]) /\ \A g \in Handles : g # h => fh'[g] = fh[g]
           /\ fh[h].pc = "snapshot" /\ fh[h].ver = 0 /\ fh[h].writable /\ fh[h].inode \in Inodes
           /\ nextVer \in Version /\ nextVer' = nextVer + 1
           /\ vrow' = [vrow EXCEPT ![nextVer] = [inode |-> fh[h].inode, size |-> fh[h].size]]
           /\ fh'[h].pc = IF fh[h].old = NoRows THEN "ready" ELSE "born"
           /\ fh'[h].inode = fh[h].inode /\ fh'[h].writable = fh[h].writable
           /\ fh'[h].base = fh[h].base /\ fh'[h].ver = nextVer /\ fh'[h].old = fh[h].old
           /\ fh'[h].new = NoRows /\ fh'[h].sure = fh[h].sure /\ fh'[h].view = fh[h].view
           /\ fh'[h].size = fh[h].size /\ fh'[h].got = Nil /\ fh'[h].act = Nil
<1> DEFINE f == fh[h]
           x == fh'[h]
           p == IF f.old = NoRows THEN "ready" ELSE "born"
<1>1. f \in Handle /\ HandleShape(f) /\ f.pc = "snapshot"
  BY HandleFits DEF Fits, NewVersion
<1>2. /\ f.ver = 0 /\ f.new = NoRows /\ f.act = Nil /\ f.buf = <<>> /\ f.writable
      /\ f.out = Nil /\ f.got = Nil /\ f.inode \in Inodes
  BY <1>1 DEF HandleShape, Opening, Putting
<1>3. nextVer \in Version /\ nextVer # 0
  <2>1. nextVer \in 1..(MaxVersion + 1) /\ nextVer <= MaxVersion
    BY DEF NewVersion, Typed
  <2> QED
    BY <2>1, SizeFacts DEF Version
<1>4. Become(h, [f EXCEPT !.pc = p, !.ver = nextVer])
  BY DEF NewVersion
<1>5. /\ x = [f EXCEPT !.pc = p, !.ver = nextVer]
      /\ \A g \in Handles : g # h => fh'[g] = fh[g]
  BY <1>4, Becomes
<1>6. p \in Pc /\ p \in {"ready", "born"}
  BY DEF Pc
<1>7. nextVer \in 0..MaxVersion
  BY <1>3, SizeFacts DEF Version
<1> HIDE DEF p
<1>8. x \in Handle
  BY <1>1, <1>5, <1>6, <1>7 DEF Handle
<1>9. /\ x.inode = f.inode /\ x.writable = f.writable /\ x.base = f.base /\ x.ver = nextVer
      /\ x.new = f.new /\ x.got = f.got /\ x.act = f.act /\ x.buf = f.buf /\ x.size = f.size
      /\ x.out = f.out /\ x.sure = f.sure /\ x.view = f.view /\ x.pc = p
      /\ x.old = f.old
  BY <1>1, <1>5 DEF Handle
<1>10. nextVer' = nextVer + 1 /\ vrow' = [vrow EXCEPT ![nextVer] = [inode |-> f.inode, size |-> f.size]]
  BY DEF NewVersion
<1> HIDE DEF x, f
<1>11. HandleShape(x)
  BY <1>2, <1>3, <1>6, <1>9 DEF HandleShape, Busy, Opening, Putting
<1> QED
  BY <1>1, <1>2, <1>3, <1>5, <1>6, <1>8, <1>9, <1>10, <1>11 DEF Fits, x, f, p

LEMMA InheritRowsMoves ==
    ASSUME Typed, NEW h \in Handles, InheritRows(h)
    PROVE  /\ Fits(fh'[h]) /\ \A g \in Handles : g # h => fh'[g] = fh[g]
           /\ fh[h].pc = "born" /\ SameFile(fh[h], fh'[h]) /\ fh[h].ver \in Version /\ fh[h].writable
           /\ fh[h].new = NoRows
           /\ fh'[h].pc = "ready" /\ fh'[h].new = fh[h].old
           /\ fh'[h].sure = fh[h].sure /\ fh'[h].view = fh[h].view
           /\ fh'[h].size = fh[h].size /\ fh'[h].got = Nil /\ fh'[h].act = Nil
<1> DEFINE f == fh[h]
           x == fh'[h]
<1>1. f \in Handle /\ HandleShape(f) /\ f.pc = "born"
  BY HandleFits DEF Fits, InheritRows
<1>2. /\ f.ver # 0 /\ f.new = NoRows /\ f.act = Nil /\ f.buf = <<>> /\ f.writable
      /\ f.out = Nil /\ f.got = Nil /\ f.inode \in Inodes
  BY <1>1 DEF HandleShape, Opening, Putting
<1>3. f.ver \in Version
  <2>1. f.ver \in 0..MaxVersion
    BY <1>1 DEF Handle
  <2> QED
    BY <1>2, <2>1, SizeFacts DEF Version
<1>4. Become(h, [f EXCEPT !.pc = "ready", !.new = f.old])
  BY DEF InheritRows
<1>5. /\ x = [f EXCEPT !.pc = "ready", !.new = f.old]
      /\ \A g \in Handles : g # h => fh'[g] = fh[g]
  BY <1>4, Becomes
<1>6. x \in Handle
  BY <1>1, <1>5 DEF Handle, Pc
<1>7. /\ SameFile(f, x)
      /\ x.new = f.old /\ x.got = f.got /\ x.act = f.act /\ x.buf = f.buf /\ x.size = f.size
      /\ x.out = f.out /\ x.sure = f.sure /\ x.view = f.view /\ x.pc = "ready"
  BY <1>1, <1>5 DEF Handle, SameFile
<1> HIDE DEF x, f
<1>8. HandleShape(x)
  BY <1>2, <1>7 DEF HandleShape, Busy, Opening, Putting, SameFile
<1> QED
  BY <1>1, <1>2, <1>3, <1>5, <1>6, <1>7, <1>8 DEF Fits, x, f

(* A handle that is gone afterwards.                                       *)
LEMMA ClosedMoves ==
    ASSUME Typed, NEW h \in Handles, Become(h, Closed)
    PROVE  /\ Fits(fh'[h]) /\ \A g \in Handles : g # h => fh'[g] = fh[g]
           /\ fh'[h] = Closed
  BY Becomes, ClosedTyped DEF Fits
-----------------------------------------------------------------------------
(* The same for the calls of a handle that writes.                         *)
ReadyShape(x) ==
    /\ x.pc = "ready" /\ x.inode \in Inodes /\ x.writable /\ x.ver # 0
    /\ x.act = Nil => x.buf = <<>>
    /\ x.act # Nil => Len(x.buf) \in 1..SliceSize
    /\ x.out = Nil /\ x.got = Nil

LEMMA ReadyFits == ASSUME NEW x \in Handle, ReadyShape(x) PROVE Fits(x)
  BY DEF Fits, ReadyShape, HandleShape, Busy, Opening, Putting

Working == {"write", "cut", "flush", "store"}

LEMMA WorkingFacts ==
    ASSUME NEW f, Fits(f), f.pc \in Working
    PROVE  /\ f.writable /\ f.ver \in Version /\ f.ver # 0 /\ f.inode \in Inodes
           /\ f.act = Nil => f.buf = <<>>
           /\ f.act # Nil => Len(f.buf) \in 1..SliceSize
           /\ f.pc # "store" => f.got = Nil
           /\ \/ f.op.kind = "write" /\ f.op \in WriteOp /\ WriteShape(f)
              \/ f.op.kind = "cut" /\ f.op \in CutOp /\ CutShape(f)
              \/ f.op.kind \in {"sync", "close"} /\ f.op \in FlushOp
           /\ f.pc = "write" => f.op.kind = "write" /\ f.out = Nil
           /\ f.pc = "cut" => f.op.kind = "cut" /\ f.out = Nil
           /\ f.pc \in Putting => /\ f.out.idx \in Idx /\ f.out.data \in Seq(Nat)
                                  /\ Len(f.out.data) \in 1..SliceSize /\ f.out.idx # f.act
                                  /\ f.op.kind # "cut" => f.act = Nil
           /\ f.pc = "store" => f.got \in Chunks
<1>1. f \in Handle /\ HandleShape(f)
  BY DEF Fits
<1>2. /\ f.writable /\ f.ver # 0 /\ f.inode \in Inodes
      /\ f.act = Nil => f.buf = <<>>
      /\ f.act # Nil => Len(f.buf) \in 1..SliceSize
      /\ f.pc # "store" => f.got = Nil
      /\ f.pc = "write" => f.op.kind = "write" /\ f.out = Nil
      /\ f.pc = "cut" => f.op.kind = "cut" /\ f.out = Nil
      /\ f.pc \in Putting => /\ f.out \in [idx : Idx, data : Seq(Nat)] /\ Len(f.out.data) \in 1..SliceSize /\ f.out.idx # f.act
                             /\ f.op.kind # "cut" => f.act = Nil
      /\ f.pc = "store" => f.got # Nil
  BY <1>1 DEF HandleShape, Working, Busy, Putting, Opening
<1>3. f.ver \in Version
  <2>1. f.ver \in 0..MaxVersion
    BY <1>1 DEF Handle
  <2> QED
    BY <1>2, <2>1, SizeFacts DEF Version
<1>4. (CASE f.op.kind = "write" -> WriteShape(f)
         [] f.op.kind = "cut"   -> CutShape(f)
         [] OTHER               -> f.op \in FlushOp)
  BY <1>1 DEF HandleShape, Working, Putting
<1>5. \/ f.op.kind = "write" /\ f.op \in WriteOp /\ WriteShape(f)
      \/ f.op.kind = "cut" /\ f.op \in CutOp /\ CutShape(f)
      \/ f.op.kind \in {"sync", "close"} /\ f.op \in FlushOp
  BY <1>4 DEF WriteShape, CutShape, FlushOp
<1>6. f.got \in Chunks \cup {Nil}
  BY <1>1 DEF Handle
<1>7. f.pc \in Putting => f.out.idx \in Idx /\ f.out.data \in Seq(Nat)
  BY <1>2
<1>8. f.got # Nil => f.got \in Chunks
  BY <1>6
<1> QED
  BY <1>2, <1>3, <1>5, <1>7, <1>8

(* A call that fails leaves a closed handle or one that is ready.          *)
LEMMA FailFits ==
    ASSUME NEW f \in Handle, f.inode \in Inodes, f.writable, f.ver # 0,
           f.act = Nil => f.buf = <<>>, f.act # Nil => Len(f.buf) \in 1..SliceSize,
           NEW x, x = Fail(f)
    PROVE  Fits(x) /\ (x = Closed \/ (x.pc = "ready" /\ SameFile(f, x) /\ x.sure = FALSE /\ x.new = f.new
                                      /\ x.got = Nil))
<1>1. CASE f.op.kind = "close"
  <2>1. x = Closed
    BY <1>1 DEF Fail
  <2> QED
    BY <2>1, ClosedTyped DEF Fits
<1>2. CASE f.op.kind # "close"
  <2>1. x \in Handle /\ SameFile(f, x) /\ x.pc = "ready" /\ x.out = Nil /\ x.got = Nil
    BY <1>2, FailFields
  <2>2. x.act = f.act /\ x.buf = f.buf
    BY <1>2, FailFields
  <2>3. x.new = f.new
    BY <1>2, FailFields
  <2>4. x.sure = FALSE
    BY <1>2, FailFields
  <2>5. ReadyShape(x)
    BY <2>1, <2>2 DEF ReadyShape, SameFile
  <2> QED
    BY <2>1, <2>3, <2>4, <2>5, ReadyFits
<1> QED
  BY <1>1, <1>2
-----------------------------------------------------------------------------
(* Writing, slice by slice.                                                *)
LEMMA WriteAtMoves ==
    ASSUME Typed, NEW h \in Handles, NEW off \in 0..(MaxSize - 1), NEW p \in Payloads, WriteAt(h, off, p)
    PROVE  /\ Fits(fh'[h]) /\ \A g \in Handles : g # h => fh'[g] = fh[g]
           /\ fh[h].pc = "ready" /\ SameFile(fh[h], fh'[h]) /\ fh'[h].pc = "write"
           /\ fh[h].writable /\ fh[h].got = Nil
           /\ MayTouch(fh[h], off \div SliceSize, (off + Len(p) - 1) \div SliceSize)
           /\ fh'[h].op = [kind |-> "write", off |-> off, data |-> p, rest |-> p, next |-> Nil]
           /\ fh'[h].new = fh[h].new /\ fh'[h].size = fh[h].size /\ fh'[h].view = fh[h].view
           /\ fh'[h].act = fh[h].act /\ fh'[h].buf = fh[h].buf
           /\ fh'[h].sure = fh[h].sure /\ fh'[h].got = Nil
<1> DEFINE f == fh[h]
           x == fh'[h]
           o == [kind |-> "write", off |-> off, data |-> p, rest |-> p, next |-> Nil]
           n == f.calls + 1
<1>1. /\ f \in Handle /\ HandleShape(f) /\ f.pc = "ready" /\ f.writable /\ f.calls < MaxCalls
      /\ off + Len(p) <= MaxSize
      /\ MayTouch(f, off \div SliceSize, (off + Len(p) - 1) \div SliceSize)
  BY HandleFits DEF Fits, WriteAt
<1>2. /\ f.ver # 0 /\ f.out = Nil /\ f.got = Nil /\ f.inode \in Inodes
      /\ f.act = Nil => f.buf = <<>>
      /\ f.act # Nil => Len(f.buf) \in 1..SliceSize
  BY <1>1 DEF HandleShape, Opening, Putting
<1>3. p \in Seq(Nat) /\ p # <<>> /\ Len(p) \in Nat
  BY FileAssumption, LenProperties
<1>4. n \in 0..MaxCalls
  <2>1. f.calls \in 0..MaxCalls /\ MaxCalls \in Nat
    BY <1>1, FileAssumption DEF Handle
  <2> QED
    BY <1>1, <2>1
<1>5. o \in WriteOp
  <2>1. off \in Nat
    OBVIOUS
  <2> QED
    BY <1>3, <2>1 DEF WriteOp
<1>6. Become(h, [f EXCEPT !.pc = "write", !.calls = n, !.op = o])
  BY DEF WriteAt
<1> HIDE DEF o, n
<1>7. /\ x = [f EXCEPT !.pc = "write", !.calls = n, !.op = o]
      /\ \A g \in Handles : g # h => fh'[g] = fh[g]
  BY <1>6, Becomes
<1>0. f \in Handle
  BY <1>1
<1>8. x \in Handle
  BY <1>0, <1>4, <1>5, <1>7 DEF Handle, Pc
<1>9. /\ SameFile(f, x) /\ x.pc = "write" /\ x.op = o
      /\ x.new = f.new /\ x.got = f.got /\ x.act = f.act /\ x.buf = f.buf /\ x.size = f.size
      /\ x.out = f.out /\ x.sure = f.sure /\ x.view = f.view
  BY <1>0, <1>7 DEF Handle, SameFile
<1> HIDE DEF x, f
<1>10. /\ o.kind = "write" /\ o.off = off /\ o.data = p /\ o.rest = p
  BY DEF o
<1>11. WriteShape(x)
  <2>1. Done(x) = 0
    BY <1>3, <1>9, <1>10 DEF Done
  <2>2. \A k \in 1..Len(x.op.rest) : x.op.rest[k] = x.op.data[Done(x) + k]
    BY <1>9, <1>10, <2>1
  <2> QED
    BY <1>1, <1>3, <1>5, <1>9, <1>10, <2>2 DEF WriteShape, Putting
<1>12. HandleShape(x)
  BY <1>1, <1>2, <1>9, <1>10, <1>11 DEF HandleShape, Busy, Opening, Putting, SameFile
<1> QED
  BY <1>1, <1>2, <1>7, <1>8, <1>9, <1>12 DEF Fits, x, f, o

(* The piece of a write that is taken next.                                *)
Intra(f) == (f.op.off + Done(f)) % SliceSize
Piece(f) == PieceLength(Len(f.op.rest), Intra(f))
Left(f)  == SubSeq(f.op.rest, Piece(f) + 1, Len(f.op.rest))
Filled(f) == Patch(Plain(f, First(f)), Intra(f), SubSeq(f.op.rest, 1, Piece(f)))

LEMMA WriteFacts ==
    ASSUME NEW f, WriteShape(f)
    PROVE  /\ f.op.off \in Nat /\ f.op.data \in Seq(Nat) /\ f.op.rest \in Seq(Nat)
           /\ Len(f.op.data) \in Nat /\ Len(f.op.data) > 0 /\ Len(f.op.rest) \in Nat
           /\ Done(f) \in Nat /\ f.op.off + Len(f.op.data) <= MaxSize
           /\ f.op.rest # <<>> => Len(f.op.rest) > 0
           /\ Done(f) + Len(f.op.rest) = Len(f.op.data)
<1>1. f.op.off \in Nat /\ f.op.data \in Seq(Nat) /\ f.op.rest \in Seq(Nat)
  BY DEF WriteShape, WriteOp
<1>2. Len(f.op.data) \in Nat /\ Len(f.op.rest) \in Nat
  BY <1>1, LenProperties
<1>3. Len(f.op.data) # 0 /\ (f.op.rest # <<>> => Len(f.op.rest) # 0)
  BY <1>1, EmptySeq DEF WriteShape
<1>4. Len(f.op.rest) <= Len(f.op.data) /\ f.op.off + Len(f.op.data) <= MaxSize
  BY DEF WriteShape
<1>5. Done(f) = Len(f.op.data) - Len(f.op.rest)
  BY DEF Done
<1> DEFINE m == Len(f.op.data)
           k == Len(f.op.rest)
<1>6. m \in Nat /\ k \in Nat /\ k <= m /\ m # 0 => m > 0 /\ m - k \in Nat /\ (m - k) + k = m
  OBVIOUS
<1>7. k \in Nat /\ k # 0 => k > 0
  OBVIOUS
<1> QED
  BY <1>1, <1>2, <1>3, <1>4, <1>5, <1>6, <1>7

Unfinished(f) == f.op.rest # <<>>

LEMMA PieceFacts ==
    ASSUME NEW f, WriteShape(f), Unfinished(f)
    PROVE  /\ First(f) \in Idx /\ Intra(f) \in Offsets /\ Done(f) \in Nat
           /\ f.op.off + Done(f) = First(f) * SliceSize + Intra(f)
           /\ Piece(f) \in 1..Len(f.op.rest) /\ Intra(f) + Piece(f) <= SliceSize
           /\ Left(f) \in Seq(Nat) /\ Len(Left(f)) = Len(f.op.rest) - Piece(f)
           /\ \A k \in 1..Len(Left(f)) : Left(f)[k] = f.op.data[Done(f) + Piece(f) + k]
           /\ Left(f) # <<>> =>
                Intra(f) + Piece(f) = SliceSize
                /\ (f.op.off + Done(f) + Piece(f)) \div SliceSize = First(f) + 1
           /\ SubSeq(f.op.rest, 1, Piece(f)) \in Seq(Nat) /\ Len(SubSeq(f.op.rest, 1, Piece(f))) = Piece(f)
           /\ \A k \in 1..Piece(f) : SubSeq(f.op.rest, 1, Piece(f))[k] = f.op.data[Done(f) + k]
<1> DEFINE a == f.op.off + Done(f)
           m == Len(f.op.rest)
           n == Piece(f)
<1>0. f.op.data \in Seq(Nat) /\ f.op.rest \in Seq(Nat)
  BY WriteFacts
<1>1. /\ f.op.off \in Nat /\ Len(f.op.data) \in Nat /\ m \in Nat /\ m > 0 /\ Done(f) \in Nat
      /\ f.op.off + Len(f.op.data) <= MaxSize /\ Done(f) + m = Len(f.op.data)
  BY WriteFacts DEF Unfinished
<1>2. a \in Nat /\ a < MaxSize /\ Done(f) \in Nat
  <2> DEFINE e == Len(f.op.data)
  <2>1. e \in Nat /\ f.op.off \in Nat /\ Done(f) \in Nat /\ m \in Nat /\ m > 0 /\ MaxSize \in Nat
    BY <1>1, SizeFacts
  <2>2. f.op.off + e <= MaxSize /\ Done(f) + m = e
    BY <1>1
  <2> HIDE DEF e, m
  <2> QED
    BY <2>1, <2>2
<1>3. First(f) \in Idx /\ Intra(f) \in Offsets /\ a = First(f) * SliceSize + Intra(f)
  <2>1. PICK i \in Idx, r \in Offsets :
            i = a \div SliceSize /\ r = a % SliceSize /\ a = i * SliceSize + r
    BY <1>2, Place
  <2> QED
    BY <2>1 DEF First, Intra
<1>4. Intra(f) \in Nat /\ Intra(f) < SliceSize /\ SliceSize \in Nat
  BY <1>3, SizeFacts DEF Offsets
<1>5. n = IF m > SliceSize - Intra(f) THEN SliceSize - Intra(f) ELSE m
  BY DEF Piece, PieceLength
<1>6. n \in 1..m /\ Intra(f) + n <= SliceSize
  BY <1>1, <1>4, <1>5
<1>7. \A k \in 1..m : f.op.rest[k] = f.op.data[Done(f) + k]
  BY DEF WriteShape
<1>8. n < m => Intra(f) + n = SliceSize
  BY <1>1, <1>4, <1>5
<1> HIDE DEF n, m
<1>9. m = Len(f.op.rest) /\ n = Piece(f)
  BY DEF m, n
<1>10. /\ Left(f) \in Seq(Nat) /\ Len(Left(f)) = m - n
       /\ \A k \in 1..(m - n) : Left(f)[k] = f.op.rest[n + k]
  <2>1. n + 1 \in Nat \ {0} /\ m \in Nat /\ m <= Len(f.op.rest) /\ n + 1 <= m + 1
    BY <1>1, <1>6, <1>9
  <2>2. /\ SubSeq(f.op.rest, n + 1, m) \in Seq(Nat) /\ Len(SubSeq(f.op.rest, n + 1, m)) = m - (n + 1) + 1
        /\ \A k \in 1..(m - (n + 1) + 1) : SubSeq(f.op.rest, n + 1, m)[k] = f.op.rest[n + 1 + k - 1]
    BY <1>0, <2>1, SubSeqBytes
  <2>3. m - (n + 1) + 1 = m - n /\ \A k \in 1..(m - n) : n + 1 + k - 1 = n + k
    BY <1>1, <1>6
  <2>4. Left(f) = SubSeq(f.op.rest, n + 1, m)
    BY <1>9 DEF Left
  <2> QED
    BY <2>2, <2>3, <2>4
<1>11. \A k \in 1..Len(Left(f)) : Left(f)[k] = f.op.data[Done(f) + n + k]
  <2> SUFFICES ASSUME NEW k \in 1..(m - n) PROVE Left(f)[k] = f.op.data[Done(f) + n + k]
    BY <1>10
  <2>1. n + k \in 1..m /\ Done(f) + (n + k) = Done(f) + n + k
    BY <1>1, <1>6
  <2> QED
    BY <1>7, <1>10, <2>1
<1>12. Left(f) # <<>> => n < m
  <2>1. Left(f) # <<>> => Len(Left(f)) # 0
    BY <1>10, EmptySeq
  <2> QED
    BY <1>1, <1>6, <1>10, <2>1
<1>13. n < m => (a + n) \div SliceSize = First(f) + 1
  <2> SUFFICES ASSUME n < m PROVE (a + n) \div SliceSize = First(f) + 1
    OBVIOUS
  <2>0. First(f) \in Nat
    BY <1>3, IdxNat
  <2>1. First(f) \in Nat /\ First(f) + 1 \in Nat
    BY <2>0
  <2>2. (First(f) + 1) * SliceSize = First(f) * SliceSize + SliceSize /\ First(f) * SliceSize \in Nat
    BY <2>1, SizeFacts
  <2>3. a + n = (First(f) + 1) * SliceSize + 0
    BY <1>1, <1>3, <1>4, <1>6, <1>8, <2>2
  <2>4. 0 \in 0..(SliceSize - 1)
    BY SizeFacts
  <2>5. ((First(f) + 1) * SliceSize + 0) \div SliceSize = First(f) + 1
    BY <2>1, <2>4, SizeFacts, DivUnique
  <2> QED
    BY <2>3, <2>5
<1>14. /\ SubSeq(f.op.rest, 1, n) \in Seq(Nat) /\ Len(SubSeq(f.op.rest, 1, n)) = n
       /\ \A k \in 1..n : SubSeq(f.op.rest, 1, n)[k] = f.op.rest[k]
  <2>1. 1 \in Nat \ {0} /\ n \in Nat /\ n <= Len(f.op.rest) /\ 1 <= n + 1
    BY <1>1, <1>6, <1>9
  <2>2. /\ SubSeq(f.op.rest, 1, n) \in Seq(Nat) /\ Len(SubSeq(f.op.rest, 1, n)) = n - 1 + 1
        /\ \A k \in 1..(n - 1 + 1) : SubSeq(f.op.rest, 1, n)[k] = f.op.rest[1 + k - 1]
    BY <1>0, <2>1, SubSeqBytes
  <2>3. n - 1 + 1 = n /\ \A k \in 1..n : 1 + k - 1 = k
    BY <2>1
  <2> QED
    BY <2>2, <2>3
<1>15. \A k \in 1..n : SubSeq(f.op.rest, 1, n)[k] = f.op.data[Done(f) + k]
  <2>1. \A k \in 1..n : k \in 1..m
    BY <1>1, <1>6
  <2> QED
    BY <1>7, <1>14, <2>1
<1>16. f.op.off + Done(f) + Piece(f) = a + n
  BY <1>9
<1> QED
  BY <1>2, <1>3, <1>6, <1>8, <1>9, <1>10, <1>11, <1>12, <1>13, <1>14, <1>15, <1>16

LEMMA PlainTyped ==
    ASSUME Typed, NEW f \in Handle, f.act # Nil => Len(f.buf) \in 1..SliceSize,
           NEW i \in Idx, Readable(f, i)
    PROVE  Plain(f, i) \in Seq(Nat) /\ Len(Plain(f, i)) \in 0..SliceSize
<1>0. i # Nil
  <2>1. i \in Nat
    BY IdxNat
  <2> QED
    BY <2>1, FileAssumption
<1>1. CASE f.act = i
  <2>1. Plain(f, i) = f.buf /\ f.buf \in Seq(Nat)
    BY <1>1 DEF Plain, Handle
  <2>2. Len(f.buf) \in 1..SliceSize
    BY <1>0, <1>1
  <2>3. Len(f.buf) \in 0..SliceSize
    BY <2>2
  <2> QED
    BY <2>1, <2>3
<1>2. CASE f.act # i /\ Source(f, i) = Nil
  <2>1. Plain(f, i) = <<>>
    BY <1>2 DEF Plain
  <2>2. 0 \in 0..SliceSize
    BY SizeFacts
  <2> QED
    BY <2>1, <2>2, EmptySeq
<1>3. CASE f.act # i /\ Source(f, i) # Nil
  <2>1. Plain(f, i) = chunk[Source(f, i)] /\ chunk[Source(f, i)] # Nil
    BY <1>3 DEF Plain, Readable
  <2>2. f.new[i] \in Chunks \cup {Nil} /\ f.old[i] \in Chunks \cup {Nil}
    BY DEF Handle, Rows
  <2>3. Source(f, i) \in Chunks
    BY <1>3, <2>2 DEF Source
  <2>4. chunk[Source(f, i)] \in Seq(Nat) /\ Len(chunk[Source(f, i)]) \in 1..SliceSize
    BY <2>1, <2>3 DEF Typed
  <2>5. Len(chunk[Source(f, i)]) \in 0..SliceSize
    BY <2>4
  <2> QED
    BY <2>1, <2>4, <2>5
<1> QED
  BY <1>1, <1>2, <1>3

LEMMA FilledFacts ==
    ASSUME NEW f, WriteShape(f), Unfinished(f),
           Plain(f, First(f)) \in Seq(Nat), Len(Plain(f, First(f))) \in 0..SliceSize
    PROVE  /\ Filled(f) \in Seq(Nat) /\ Len(Filled(f)) \in 1..SliceSize
           /\ \A r \in Nat : Byte(Filled(f), r) =
                IF Intra(f) <= r /\ r < Intra(f) + Piece(f) THEN f.op.data[Done(f) + (r - Intra(f) + 1)]
                ELSE Byte(Plain(f, First(f)), r)
<1> DEFINE p == SubSeq(f.op.rest, 1, Piece(f))
           s == Plain(f, First(f))
           a == Intra(f)
           n == Piece(f)
<1>1. /\ a \in Nat /\ a + n <= SliceSize /\ n \in Nat /\ n > 0
      /\ p \in Seq(Nat) /\ Len(p) = n
      /\ \A k \in 1..n : p[k] = f.op.data[Done(f) + k]
  <2>1. Len(f.op.rest) \in Nat
    BY WriteFacts
  <2>2. n \in 1..Len(f.op.rest)
    BY PieceFacts
  <2>3. n \in Nat /\ n > 0
    BY <2>1, <2>2
  <2>4. a \in Nat
    BY PieceFacts, IdxNat
  <2> QED
    BY <2>3, <2>4, PieceFacts
<1>2. s \in Seq(Nat) /\ Len(s) \in 0..SliceSize
  OBVIOUS
<1>3. p # <<>>
  <2>1. Len(p) # 0
    BY <1>1
  <2> HIDE DEF p
  <2> QED
    BY ONLY <2>1, EmptySeq
<1>4. Filled(f) = Patch(s, a, p)
  BY DEF Filled
<1> HIDE DEF p, s, a, n
<1>5. /\ Patch(s, a, p) \in Seq(Nat)
      /\ Len(Patch(s, a, p)) = IF a + n > Len(s) THEN a + n ELSE Len(s)
      /\ \A k \in Nat : Byte(Patch(s, a, p), k) =
            IF a <= k /\ k < a + n THEN p[k - a + 1] ELSE Byte(s, k)
  BY <1>1, <1>2, <1>3, PatchBytes
<1>6. Len(Filled(f)) \in 1..SliceSize
  <2> DEFINE l == Len(s)
  <2>1. l \in 0..SliceSize /\ SliceSize \in Nat
    BY <1>2, SizeFacts
  <2>2. a \in Nat /\ a + n <= SliceSize /\ n \in Nat /\ n > 0
    BY <1>1
  <2>3. Len(Filled(f)) = IF a + n > l THEN a + n ELSE l
    BY <1>4, <1>5
  <2> HIDE DEF l
  <2> QED
    BY <2>1, <2>2, <2>3
<1>7. ASSUME NEW r \in Nat
      PROVE  Byte(Filled(f), r) = IF a <= r /\ r < a + n THEN f.op.data[Done(f) + (r - a + 1)] ELSE Byte(s, r)
  <2>1. a <= r /\ r < a + n => r - a + 1 \in 1..n
    BY <1>1
  <2>2. Byte(Filled(f), r) = IF a <= r /\ r < a + n THEN p[r - a + 1] ELSE Byte(s, r)
    BY <1>4, <1>5
  <2>3. \A k \in 1..n : p[k] = f.op.data[Done(f) + k]
    BY <1>1
  <2>4. a <= r /\ r < a + n => p[r - a + 1] = f.op.data[Done(f) + (r - a + 1)]
    BY <2>1, <2>3
  <2> QED
    BY <2>2, <2>4
<1> QED
  BY <1>4, <1>5, <1>6, <1>7 DEF s, a, n

(* The handle that has taken a piece: it is the active slice, or the       *)
(* active slice goes out first.                                            *)
Taken(f, x) ==
    /\ SameFile(f, x) /\ x.new = f.new /\ x.sure = f.sure /\ x.got = Nil /\ x.out = Nil
    /\ x.act = First(f) /\ x.buf = Filled(f)
    /\ Left(f) # <<>> =>
        /\ x.pc = "write" /\ x.size = f.size /\ x.view = f.view
        /\ x.op.kind = "write" /\ x.op.off = f.op.off /\ x.op.data = f.op.data /\ x.op.rest = Left(f)
    /\ Left(f) = <<>> =>
        /\ x.pc = "ready"
        /\ x.size = IF f.op.off + Len(f.op.data) > f.size THEN f.op.off + Len(f.op.data) ELSE f.size
        /\ x.view = Patch(f.view, f.op.off, f.op.data)
Turned(f, x) ==
    /\ SameFile(f, x) /\ x.new = f.new /\ x.sure = f.sure /\ x.got = Nil
    /\ x.pc = "flush" /\ x.act = Nil /\ x.size = f.size /\ x.view = f.view
    /\ x.out.idx = f.act /\ x.out.data = f.buf
    /\ x.op.kind = "write" /\ x.op.off = f.op.off /\ x.op.data = f.op.data /\ x.op.rest = Left(f)
    /\ x.op.next.idx = First(f) /\ x.op.next.buf = Filled(f)

(* The rest of a write, one piece further on.                              *)
LEMMA RestShape ==
    ASSUME NEW f \in Handle, WriteShape(f), Unfinished(f), NEW x, x.op \in WriteOp,
           x.op.off = f.op.off, x.op.data = f.op.data, x.op.rest = Left(f)
    PROVE  /\ Done(x) = Done(f) + Piece(f) /\ Len(x.op.rest) <= Len(x.op.data)
           /\ \A k \in 1..Len(x.op.rest) : x.op.rest[k] = x.op.data[Done(x) + k]
           /\ x.op.rest # <<>> => First(x) = First(f) + 1
<1>1. Done(x) = Done(f) + Piece(f) /\ Len(x.op.rest) <= Len(x.op.data)
  <2> DEFINE m == Len(f.op.rest)
             n == Piece(f)
             l == Len(Left(f))
             e == Len(f.op.data)
  <2>1. Done(x) = e - l /\ Done(f) = e - m /\ l = m - n
    BY PieceFacts DEF Done
  <2>2. e \in Nat /\ m \in Nat /\ Done(f) \in Nat
    BY WriteFacts
  <2>3. n \in 1..m
    BY PieceFacts
  <2>4. Len(x.op.rest) = l /\ Len(x.op.data) = e
    OBVIOUS
  <2> HIDE DEF m, n, l, e
  <2>5. e - l = (e - m) + n /\ l <= e
    BY <2>1, <2>2, <2>3
  <2> QED
    BY <2>1, <2>4, <2>5 DEF n
<1>2. \A k \in 1..Len(x.op.rest) : x.op.rest[k] = x.op.data[Done(x) + k]
  BY <1>1, PieceFacts
<1>3. x.op.rest # <<>> => First(x) = First(f) + 1
  <2> SUFFICES ASSUME Left(f) # <<>> PROVE First(x) = First(f) + 1
    OBVIOUS
  <2>1. (f.op.off + Done(f) + Piece(f)) \div SliceSize = First(f) + 1
    BY PieceFacts
  <2>2. x.op.off + Done(x) = f.op.off + Done(f) + Piece(f)
    <3>1. f.op.off \in Nat /\ Done(f) \in Nat /\ Len(f.op.rest) \in Nat
      BY WriteFacts
    <3>2. Piece(f) \in 1..Len(f.op.rest)
      BY PieceFacts
    <3>3. Piece(f) \in Nat
      BY ONLY <3>1, <3>2
    <3>4. \A p, d, n \in Nat : p + (d + n) = p + d + n
      OBVIOUS
    <3> QED
      BY <1>1, <3>1, <3>3, <3>4
  <2> QED
    BY <2>1, <2>2 DEF First
<1> QED
  BY <1>1, <1>2, <1>3

Failed(f, x) ==
    x = Closed \/ (x.pc = "ready" /\ SameFile(f, x) /\ x.sure = FALSE /\ x.new = f.new /\ x.got = Nil)

LEMMA WriteSliceMoves ==
    ASSUME Typed, NEW h \in Handles, WriteSlice(h)
    PROVE  /\ Fits(fh'[h]) /\ \A g \in Handles : g # h => fh'[g] = fh[g]
           /\ fh[h].pc = "write" /\ WriteShape(fh[h]) /\ Unfinished(fh[h])
           /\ \/ /\ fh[h].act = First(fh[h]) \/ fh[h].act = Nil
                 /\ Readable(fh[h], First(fh[h])) /\ Taken(fh[h], fh'[h])
              \/ /\ fh[h].act # First(fh[h]) /\ fh[h].act # Nil
                 /\ Readable(fh[h], First(fh[h])) /\ Turned(fh[h], fh'[h])
              \/ Failed(fh[h], fh'[h])
<1> DEFINE f == fh[h]
           x == fh'[h]
           idx == First(f)
           g == [f EXCEPT !.op.rest = SubSeq(@, Piece(f) + 1, Len(@))]
           e == [g EXCEPT !.act = idx, !.buf = Filled(f)]
           t == [g EXCEPT !.pc = "flush", !.out = [idx |-> f.act, data |-> f.buf],
                          !.act = Nil, !.buf = <<>>,
                          !.op.next = [idx |-> idx, buf |-> Filled(f)]]
<1>1. f.pc = "write" /\ Fits(f)
  BY HandleFits DEF WriteSlice
<1>2. /\ f \in Handle /\ f.writable /\ f.ver # 0 /\ f.inode \in Inodes
      /\ f.act = Nil => f.buf = <<>>
      /\ f.act # Nil => Len(f.buf) \in 1..SliceSize
      /\ f.got = Nil /\ f.op.kind = "write" /\ f.op \in WriteOp /\ WriteShape(f) /\ f.out = Nil
  BY <1>1, WorkingFacts DEF Working, Fits
<1>3. Unfinished(f)
  BY <1>1, <1>2 DEF WriteShape, Unfinished
<1>4. \/ /\ f.act = idx \/ (f.act = Nil /\ Readable(f, idx))
         /\ Become(h, AfterPiece(e))
      \/ /\ f.act \notin {idx, Nil} /\ Readable(f, idx)
         /\ Become(h, t)
      \/ /\ MayFail(f, idx)
         /\ Become(h, Fail(f))
  BY DEF WriteSlice, First, Filled, Piece, Intra, Done
<1>5. g = [f EXCEPT !.op = [f.op EXCEPT !.rest = Left(f)]]
  BY <1>2 DEF Left, Handle
<1>6. Left(f) \in Seq(Nat) /\ idx \in Idx
  BY <1>2, <1>3, PieceFacts
<1> HIDE DEF g
<1>7. /\ g \in Handle /\ g.pc = f.pc /\ SameFile(f, g) /\ g.new = f.new /\ g.size = f.size
      /\ g.act = f.act /\ g.buf = f.buf /\ g.out = f.out /\ g.got = f.got /\ g.view = f.view
      /\ g.sure = f.sure
      /\ g.op = [f.op EXCEPT !.rest = Left(f)]
  <2>1. [f.op EXCEPT !.rest = Left(f)] \in WriteOp
    BY <1>2, <1>6 DEF WriteOp
  <2>2. f \in Handle
    BY <1>2
  <2>3. g \in Handle
    BY <1>5, <2>1, <2>2 DEF Handle
  <2> QED
    BY <1>5, <2>2, <2>3 DEF Handle, SameFile
<1>8. /\ g.op \in WriteOp /\ g.op.kind = "write" /\ g.op.off = f.op.off /\ g.op.data = f.op.data
      /\ g.op.rest = Left(f)
  BY <1>2, <1>6, <1>7 DEF WriteOp
<1>9. f.op.off + Len(f.op.data) <= MaxSize
  BY <1>2 DEF WriteShape
<1>10. CASE (f.act = idx \/ (f.act = Nil /\ Readable(f, idx))) /\ Become(h, AfterPiece(e))
  <2>1. Readable(f, idx)
    BY <1>10 DEF Readable
  <2>2. Plain(f, idx) \in Seq(Nat) /\ Len(Plain(f, idx)) \in 0..SliceSize
    BY <1>2, <1>6, <2>1, PlainTyped
  <2>3. Filled(f) \in Seq(Nat) /\ Len(Filled(f)) \in 1..SliceSize
    BY <1>2, <1>3, <2>2, FilledFacts
  <2>4. /\ e \in Handle /\ SameFile(f, e) /\ e.new = f.new /\ e.size = f.size
        /\ e.act = idx /\ e.buf = Filled(f) /\ e.out = f.out /\ e.got = f.got /\ e.view = f.view
        /\ e.op = g.op /\ e.sure = f.sure
    <3>1. e \in Handle
      BY <1>6, <1>7, <2>3 DEF Handle
    <3> QED
      BY <1>7, <3>1 DEF Handle, SameFile
  <2>5. x = AfterPiece(e) /\ \A k \in Handles : k # h => fh'[k] = fh[k]
    BY <1>10, Becomes
  <2> HIDE DEF e, x
  <2>6. /\ x \in Handle /\ SameFile(e, x) /\ x.new = e.new /\ x.act = e.act /\ x.buf = e.buf
        /\ x.out = e.out /\ x.got = e.got /\ x.sure = e.sure
        /\ e.op.rest # <<>> => x.pc = "write" /\ x.op = e.op /\ x.size = e.size /\ x.view = e.view
        /\ e.op.rest = <<>> =>
             /\ x.pc = "ready" /\ x.op = Nil /\ x.dirty
             /\ x.size = IF e.op.off + Len(e.op.data) > e.size THEN e.op.off + Len(e.op.data) ELSE e.size
             /\ x.view = Patch(e.view, e.op.off, e.op.data)
    BY <1>8, <1>9, <2>4, <2>5, PieceFields
  <2>7. idx # Nil
    <3>1. idx \in Nat
      BY <1>6, IdxNat
    <3> QED
      BY <3>1, FileAssumption
  <2>8. CASE Left(f) # <<>>
    <3>1. x.op = g.op /\ x.pc = "write"
      BY <1>8, <2>4, <2>6, <2>8
    <3>2. /\ Done(x) = Done(f) + Piece(f) /\ Len(x.op.rest) <= Len(x.op.data)
          /\ \A k \in 1..Len(x.op.rest) : x.op.rest[k] = x.op.data[Done(x) + k]
      BY <1>2, <1>3, <1>8, <3>1, RestShape
    <3>3. WriteShape(x)
      BY <1>2, <1>8, <1>9, <2>8, <3>1, <3>2 DEF WriteShape, Putting
    <3>4. HandleShape(x)
      BY <1>2, <1>8, <2>3, <2>4, <2>6, <2>7, <3>1, <3>3 DEF HandleShape, Busy, Opening, Putting, SameFile
    <3> QED
      BY <1>1, <1>2, <1>3, <1>8, <1>10, <2>1, <2>4, <2>5, <2>6, <2>8, <3>1, <3>4 DEF Fits, Taken, SameFile, x
  <2>9. CASE Left(f) = <<>>
    <3>1. ReadyShape(x)
      BY <1>2, <1>8, <2>3, <2>4, <2>6, <2>7, <2>9 DEF ReadyShape, SameFile
    <3>2. Fits(x)
      BY <2>6, <3>1, ReadyFits
    <3>3. Taken(f, x)
      BY <1>2, <1>8, <2>4, <2>6, <2>9 DEF Taken, SameFile
    <3> QED
      BY <1>1, <1>2, <1>3, <1>10, <2>1, <2>5, <3>2, <3>3 DEF x
  <2> QED
    BY <2>8, <2>9
<1>11. CASE f.act \notin {idx, Nil} /\ Readable(f, idx) /\ Become(h, t)
  <2>2. Plain(f, idx) \in Seq(Nat) /\ Len(Plain(f, idx)) \in 0..SliceSize
    BY <1>2, <1>6, <1>11, PlainTyped
  <2>3. Filled(f) \in Seq(Nat) /\ Len(Filled(f)) \in 1..SliceSize
    BY <1>2, <1>3, <2>2, FilledFacts
  <2> DEFINE o == [g.op EXCEPT !.next = [idx |-> idx, buf |-> Filled(f)]]
             out == [idx |-> f.act, data |-> f.buf]
  <2>4. t = [g EXCEPT !.pc = "flush", !.out = out, !.act = Nil, !.buf = <<>>, !.op = o]
    BY <1>7 DEF Handle
  <2>5. /\ o \in WriteOp /\ o.kind = "write" /\ o.off = f.op.off /\ o.data = f.op.data
        /\ o.rest = Left(f) /\ o.next.idx = idx /\ o.next.buf = Filled(f)
        /\ o.next \in [idx : Idx, buf : Seq(Nat)]
    <3>1. [idx |-> idx, buf |-> Filled(f)] \in [idx : Idx, buf : Seq(Nat)]
      BY <1>6, <2>3
    <3>2. o \in WriteOp
      BY <1>8, <3>1 DEF WriteOp
    <3>3. /\ o.kind = "write" /\ o.off = f.op.off /\ o.data = f.op.data
          /\ o.rest = Left(f) /\ o.next = [idx |-> idx, buf |-> Filled(f)]
      BY <1>8 DEF WriteOp
    <3> QED
      BY <3>1, <3>2, <3>3
  <2>6. out \in [idx : Idx, data : Seq(Nat)]
    <3>1. f.act \in Idx /\ f.buf \in Seq(Nat)
      BY <1>2, <1>11 DEF Handle
    <3> QED
      BY <3>1
  <2> HIDE DEF o, out
  <2>7. x = t /\ \A k \in Handles : k # h => fh'[k] = fh[k]
    BY <1>11, Becomes
  <2>8. /\ t \in Handle /\ SameFile(f, t) /\ t.new = f.new /\ t.size = f.size /\ t.pc = "flush"
        /\ t.act = Nil /\ t.buf = <<>> /\ t.out = out /\ t.got = Nil /\ t.view = f.view
        /\ t.op = o /\ t.sure = f.sure
    <3>0. g \in Handle
      BY <1>7
    <3>3. o \in WriteOp
      BY <2>5
    <3> HIDE DEF g, t
    <3>4. <<>> \in Seq(Nat) /\ "flush" \in Pc
      BY ONLY EmptySeq DEF Pc
    <3>1. t \in Handle
      BY ONLY <2>4, <2>6, <3>0, <3>3, <3>4 DEF Handle
    <3>2. /\ SameFile(g, t) /\ t.new = g.new /\ t.size = g.size /\ t.pc = "flush"
          /\ t.act = Nil /\ t.buf = <<>> /\ t.out = out /\ t.got = g.got /\ t.view = g.view
          /\ t.op = o /\ t.sure = g.sure
      BY ONLY <2>4, <3>0 DEF Handle, SameFile
    <3> QED
      BY ONLY <1>2, <1>7, <3>1, <3>2 DEF SameFile
  <2> HIDE DEF t, x
  <2>9. WriteShape(x)
    <3>1. /\ Done(x) = Done(f) + Piece(f) /\ Len(x.op.rest) <= Len(x.op.data)
          /\ \A k \in 1..Len(x.op.rest) : x.op.rest[k] = x.op.data[Done(x) + k]
          /\ x.op.rest # <<>> => First(x) = First(f) + 1
      BY <1>2, <1>3, <2>5, <2>7, <2>8, RestShape
    <3>2. x.op.next.idx # x.out.idx
      BY <1>11, <2>5, <2>7, <2>8 DEF out
    <3> QED
      BY <1>2, <1>9, <2>3, <2>5, <2>7, <2>8, <3>1, <3>2 DEF WriteShape
  <2>10. Len(x.out.data) \in 1..SliceSize /\ x.out.idx # Nil /\ x.out.idx = f.act /\ x.out.data = f.buf
    BY <1>2, <1>11, <2>7, <2>8 DEF out
  <2>11. HandleShape(x)
    BY <1>2, <2>5, <2>6, <2>7, <2>8, <2>9, <2>10 DEF HandleShape, Busy, Opening, Putting, SameFile
  <2>12. Turned(f, x)
    BY <2>5, <2>7, <2>8, <2>10 DEF Turned
  <2> QED
    BY <1>1, <1>2, <1>3, <1>11, <2>7, <2>8, <2>11, <2>12 DEF Fits, x
<1>12. CASE Become(h, Fail(f))
  <2>1. x = Fail(f) /\ \A k \in Handles : k # h => fh'[k] = fh[k]
    BY <1>12, Becomes
  <2>2. Fits(x) /\ Failed(f, x)
    BY <1>2, <2>1, FailFits DEF Failed
  <2> QED
    BY <1>1, <1>2, <1>3, <2>1, <2>2
<1> QED
  BY <1>4, <1>10, <1>11, <1>12

(* A slice has been stored, or dropped: on with the call that needed it.   *)
Put(f, x) ==
    /\ SameFile(f, x) /\ x.sure = f.sure /\ x.got = Nil /\ x.out = Nil /\ x.pc \in Loaded \ Putting
    /\ f.op.kind = "write" =>
        /\ x.act = f.op.next.idx /\ x.buf = f.op.next.buf
        /\ f.op.rest # <<>> => x.pc = "write" /\ x.op = f.op /\ x.size = f.size /\ x.view = f.view
        /\ f.op.rest = <<>> =>
            /\ x.pc = "ready"
            /\ x.size = IF f.op.off + Len(f.op.data) > f.size THEN f.op.off + Len(f.op.data) ELSE f.size
            /\ x.view = Patch(f.view, f.op.off, f.op.data)
    /\ f.op.kind # "write" => x.act = f.act /\ x.buf = f.buf
    /\ f.op.kind = "cut" =>
        x.pc = "ready" /\ x.size = f.op.size /\ x.view = Resize(f.view, f.op.size)
    /\ f.op.kind \notin {"write", "cut"} =>
        x.size = f.size /\ x.view = f.view /\ x.pc \in {"ready", "commit", "discard"}

Renewed(f, i, c) == [f EXCEPT !.new[i] = c]

LEMMA WithNew ==
    ASSUME NEW f \in Handle, NEW i \in Idx, NEW c \in Chunks \cup {Nil},
           NEW g, g = Renewed(f, i, c)
    PROVE  /\ g \in Handle /\ SameFile(f, g) /\ g.new = [f.new EXCEPT ![i] = c]
           /\ g.pc = f.pc /\ g.size = f.size /\ g.dirty = f.dirty /\ g.act = f.act /\ g.buf = f.buf
           /\ g.out = f.out /\ g.got = f.got /\ g.op = f.op /\ g.view = f.view /\ g.sure = f.sure
<1> DEFINE n == [f.new EXCEPT ![i] = c]
<1>1. n \in Rows
  BY DEF Handle, Rows
<1>2. g = [f EXCEPT !.new = n]
  BY DEF Handle, Renewed
<1> HIDE DEF n
<1>3. g \in Handle
  BY <1>1, <1>2 DEF Handle
<1>4. /\ SameFile(f, g) /\ g.new = n
      /\ g.pc = f.pc /\ g.size = f.size /\ g.dirty = f.dirty /\ g.act = f.act /\ g.buf = f.buf
      /\ g.out = f.out /\ g.got = f.got /\ g.op = f.op /\ g.view = f.view /\ g.sure = f.sure
  BY <1>2 DEF Handle, SameFile
<1> QED
  BY <1>3, <1>4 DEF n

LEMMA PutFits ==
    ASSUME NEW f, Fits(f), f.pc \in Putting, NEW i \in Idx, NEW c \in Chunks \cup {Nil},
           NEW x, x = AfterPut(Renewed(f, i, c))
    PROVE  Fits(x) /\ Put(f, x) /\ x.new = [f.new EXCEPT ![i] = c]
<1> DEFINE g == Renewed(f, i, c)
<1>1. /\ f \in Handle /\ f.writable /\ f.ver # 0 /\ f.inode \in Inodes
      /\ f.act = Nil => f.buf = <<>>
      /\ f.act # Nil => Len(f.buf) \in 1..SliceSize
      /\ \/ f.op.kind = "write" /\ f.op \in WriteOp /\ WriteShape(f)
         \/ f.op.kind = "cut" /\ f.op \in CutOp /\ CutShape(f)
         \/ f.op.kind \in {"sync", "close"} /\ f.op \in FlushOp
      /\ f.op.kind # "cut" => f.act = Nil
  BY WorkingFacts DEF Fits, Working, Putting
<1>2. /\ g \in Handle /\ SameFile(f, g) /\ g.new = [f.new EXCEPT ![i] = c]
      /\ g.size = f.size /\ g.act = f.act /\ g.buf = f.buf
      /\ g.op = f.op /\ g.view = f.view /\ g.sure = f.sure
  <2>1. f \in Handle
    BY <1>1
  <2> QED
    BY ONLY <2>1, i \in Idx, c \in Chunks \cup {Nil}, WithNew
<1>3. x = AfterPut(g)
  OBVIOUS
<1> HIDE DEF g
<1>4. CASE f.op.kind = "write"
  <2>1. f.op \in WriteOp /\ WriteShape(f)
    BY <1>1, <1>4
  <2>2. /\ f.op.off + Len(f.op.data) <= MaxSize /\ f.op.next \in [idx : Idx, buf : Seq(Nat)]
        /\ Len(f.op.next.buf) \in 1..SliceSize
    BY <2>1 DEF WriteShape
  <2>3. /\ x \in Handle /\ SameFile(g, x) /\ x.new = g.new
        /\ x.out = Nil /\ x.got = Nil /\ x.sure = g.sure
        /\ x.act = g.op.next.idx /\ x.buf = g.op.next.buf
        /\ g.op.rest # <<>> => x.pc = "write" /\ x.op = g.op /\ x.size = g.size /\ x.view = g.view
        /\ g.op.rest = <<>> =>
             /\ x.pc = "ready" /\ x.op = Nil
             /\ x.size = IF g.op.off + Len(g.op.data) > g.size THEN g.op.off + Len(g.op.data)
                         ELSE g.size
             /\ x.view = Patch(g.view, g.op.off, g.op.data)
    BY <1>2, <1>3, <2>1, <2>2, PutFields
  <2>4. x.act # Nil
    <3>1. x.act \in Nat
      BY <1>2, <2>2, <2>3, IdxNat
    <3> QED
      BY <3>1, FileAssumption
  <2>5. Put(f, x)
    BY <1>2, <1>4, <2>3 DEF Put, SameFile, Loaded, Putting, Pc
  <2>6. CASE f.op.rest # <<>>
    <3>0. x.op = f.op /\ x.pc = "write"
      BY <1>2, <2>3, <2>6
    <3>3. Done(x) = Done(f)
      BY <3>0 DEF Done
    <3>1. WriteShape(x)
      BY <2>1, <2>6, <3>0, <3>3 DEF WriteShape, Putting
    <3>4. /\ x.inode \in Inodes /\ x.writable /\ x.ver # 0 /\ x.act # Nil /\ Len(x.buf) \in 1..SliceSize
          /\ x.out = Nil /\ x.got = Nil /\ x.op.kind = "write"
      BY <1>1, <1>2, <1>4, <2>2, <2>3, <2>4, <3>0 DEF SameFile
    <3>2. HandleShape(x)
      BY <3>0, <3>1, <3>4 DEF HandleShape, Busy, Opening, Putting
    <3> QED
      BY <1>2, <2>3, <2>5, <3>2 DEF Fits
  <2>7. CASE f.op.rest = <<>>
    <3>1. ReadyShape(x)
      BY <1>1, <1>2, <2>2, <2>3, <2>4, <2>7 DEF ReadyShape, SameFile
    <3> QED
      BY <1>2, <2>3, <2>5, <3>1, ReadyFits
  <2> QED
    BY <2>6, <2>7
<1>5. CASE f.op.kind = "cut"
  <2>1. f.op \in CutOp /\ f.op \notin WriteOp
    BY <1>1, <1>5 DEF WriteOp
  <2>2. /\ x \in Handle /\ SameFile(g, x) /\ x.new = g.new
        /\ x.out = Nil /\ x.got = Nil /\ x.sure = g.sure
        /\ x.act = g.act /\ x.buf = g.buf
        /\ x.pc = "ready" /\ x.op = Nil /\ x.size = g.op.size /\ x.view = Resize(g.view, g.op.size)
    BY <1>2, <1>3, <2>1, PutFields
  <2>3. Put(f, x)
    BY <1>2, <1>5, <2>2 DEF Put, SameFile, Loaded, Putting, Pc
  <2>4. ReadyShape(x)
    BY <1>1, <1>2, <2>2 DEF ReadyShape, SameFile
  <2> QED
    BY <1>2, <2>2, <2>3, <2>4, ReadyFits
<1>6. CASE f.op.kind \in {"sync", "close"}
  <2>1. f.op \in FlushOp /\ f.op \notin WriteOp /\ f.op \notin CutOp /\ f.act = Nil /\ f.buf = <<>>
    BY <1>1, <1>6 DEF WriteOp, CutOp
  <2>2. /\ x \in Handle /\ SameFile(g, x) /\ x.new = g.new
        /\ x.out = Nil /\ x.got = Nil /\ x.sure = g.sure
        /\ x.act = g.act /\ x.buf = g.buf /\ x.size = g.size /\ x.view = g.view
        /\ g.op.kind = "sync" => x.pc = "ready" /\ x.op = Nil
        /\ g.op.kind = "close" => x.pc = ClosePc(g) /\ x.op = g.op
    BY <1>2, <1>3, <2>1, PutFields
  <2>3. ClosePc(g) \in {"commit", "discard"}
    BY DEF ClosePc
  <2>4. Put(f, x)
    BY <1>2, <1>6, <2>2, <2>3 DEF Put, SameFile, Loaded, Putting, Pc
  <2>5. HandleShape(x)
    BY <1>1, <1>2, <1>6, <2>1, <2>2, <2>3 DEF HandleShape, Busy, Opening, Putting, SameFile
  <2> QED
    BY <1>2, <2>2, <2>4, <2>5 DEF Fits
<1> QED
  BY <1>1, <1>4, <1>5, <1>6

(* The same of a call that fails.                                          *)
LEMMA FailedFits ==
    ASSUME NEW f, Fits(f), f.pc \in Working, NEW x, x = Fail(f)
    PROVE  Fits(x) /\ Failed(f, x)
<1>1. /\ f \in Handle /\ f.inode \in Inodes /\ f.writable /\ f.ver # 0
      /\ f.act = Nil => f.buf = <<>>
      /\ f.act # Nil => Len(f.buf) \in 1..SliceSize
  BY WorkingFacts DEF Fits
<1> QED
  BY <1>1, FailFits DEF Failed

DropFailed(f, x, i) ==
    x = Closed \/ (x.pc = "ready" /\ SameFile(f, x) /\ x.sure = FALSE /\ x.got = Nil
                   /\ x.new = [f.new EXCEPT ![i] = Nil])

LEMMA DropFailedFits ==
    ASSUME NEW f, Fits(f), f.pc \in Putting, NEW i \in Idx, NEW x, x = Fail(Renewed(f, i, Nil))
    PROVE  Fits(x) /\ DropFailed(f, x, i)
<1> DEFINE g == Renewed(f, i, Nil)
<1>1. /\ f \in Handle /\ f.inode \in Inodes /\ f.writable /\ f.ver # 0
      /\ f.act = Nil => f.buf = <<>>
      /\ f.act # Nil => Len(f.buf) \in 1..SliceSize
  BY WorkingFacts DEF Fits, Working, Putting
<1>2. /\ g \in Handle /\ SameFile(f, g) /\ g.new = [f.new EXCEPT ![i] = Nil]
      /\ g.act = f.act /\ g.buf = f.buf
  <2>1. f \in Handle /\ Nil \in Chunks \cup {Nil}
    BY <1>1
  <2> QED
    BY ONLY <2>1, i \in Idx, WithNew
<1>3. x = Fail(g)
  OBVIOUS
<1> HIDE DEF g
<1>4. /\ g.inode \in Inodes /\ g.writable /\ g.ver # 0
      /\ g.act = Nil => g.buf = <<>>
      /\ g.act # Nil => Len(g.buf) \in 1..SliceSize
  BY <1>1, <1>2 DEF SameFile
<1>5. Fits(x) /\ (x = Closed \/ (x.pc = "ready" /\ SameFile(g, x) /\ x.sure = FALSE /\ x.new = g.new
                                 /\ x.got = Nil))
  BY <1>2, <1>3, <1>4, FailFits
<1> QED
  BY <1>2, <1>5 DEF SameFile, DropFailed

LEMMA RenewedRow ==
    ASSUME NEW f \in Handle, NEW i \in Idx, NEW c \in Chunks \cup {Nil}
    PROVE  Renewed(f, i, c).ver = f.ver /\ Renewed(f, i, c).out = f.out
  BY DEF Renewed, Handle

LEMMA DropSliceMoves ==
    ASSUME Typed, NEW h \in Handles, DropSlice(h)
    PROVE  /\ Fits(fh'[h]) /\ \A g \in Handles : g # h => fh'[g] = fh[g]
           /\ fh[h].pc = "flush" /\ AllZero(fh[h].out.data)
           /\ \/ /\ vchunk' = [vchunk EXCEPT ![<<fh[h].ver, fh[h].out.idx>>] = Nil]
                 /\ Put(fh[h], fh'[h]) /\ fh'[h].new = [fh[h].new EXCEPT ![fh[h].out.idx] = Nil]
              \/ vchunk' = vchunk /\ DropFailed(fh[h], fh'[h], fh[h].out.idx)
<1> DEFINE f == fh[h]
           x == fh'[h]
           i == f.out.idx
           g == Renewed(f, i, Nil)
<1>1. f.pc = "flush" /\ Fits(f) /\ AllZero(f.out.data)
  BY HandleFits DEF DropSlice
<1>2. f \in Handle /\ i \in Idx /\ f.pc \in Putting
  BY <1>1, WorkingFacts DEF Working, Fits, Putting
<1>3. g.ver = f.ver /\ g.out.idx = i
  <2>1. f \in Handle /\ i \in Idx /\ Nil \in Chunks \cup {Nil}
    BY <1>2
  <2> HIDE DEF f, i
  <2>2. g.ver = f.ver /\ g.out = f.out
    BY <2>1, RenewedRow
  <2> QED
    BY <2>2 DEF i
<1>4. \/ vchunk' = [vchunk EXCEPT ![<<g.ver, g.out.idx>>] = Nil] /\ Become(h, AfterPut(g))
      \/ vchunk' = vchunk /\ Become(h, Fail(g))
  BY DEF DropSlice, Renewed
<1>5. CASE vchunk' = [vchunk EXCEPT ![<<g.ver, g.out.idx>>] = Nil] /\ Become(h, AfterPut(g))
  <2>1. x = AfterPut(g) /\ \A k \in Handles : k # h => fh'[k] = fh[k]
    BY <1>5, Becomes
  <2>2. Fits(x) /\ Put(f, x) /\ x.new = [f.new EXCEPT ![i] = Nil]
    BY <1>1, <1>2, <2>1, PutFits
  <2> QED
    BY <1>1, <1>3, <1>5, <2>1, <2>2
<1>6. CASE vchunk' = vchunk /\ Become(h, Fail(g))
  <2>1. x = Fail(g) /\ \A k \in Handles : k # h => fh'[k] = fh[k]
    BY <1>6, Becomes
  <2>2. Fits(x) /\ DropFailed(f, x, i)
    BY <1>1, <1>2, <2>1, DropFailedFits
  <2> QED
    BY <1>1, <1>6, <2>1, <2>2
<1> QED
  BY <1>4, <1>5, <1>6

(* A slice has got its chunk, and its row is due.                          *)
Stored(f, x, c) ==
    /\ SameFile(f, x) /\ x.pc = "store" /\ x.got = c /\ x.new = f.new /\ x.size = f.size
    /\ x.act = f.act /\ x.buf = f.buf /\ x.out = f.out /\ x.op = f.op /\ x.view = f.view
    /\ x.sure = f.sure

LEMMA StoreSliceMoves ==
    ASSUME Typed, NEW h \in Handles, StoreSlice(h)
    PROVE  /\ Fits(fh'[h]) /\ \A g \in Handles : g # h => fh'[g] = fh[g]
           /\ fh[h].pc = "flush" /\ ~AllZero(fh[h].out.data)
           /\ \/ \E c \in Chunks : /\ chunk[c] = Nil
                                   /\ chunk' = [chunk EXCEPT ![c] = fh[h].out.data]
                                   /\ Stored(fh[h], fh'[h], c)
              \/ chunk' = chunk /\ Failed(fh[h], fh'[h])
<1> DEFINE f == fh[h]
           x == fh'[h]
<1>1. f.pc = "flush" /\ Fits(f) /\ ~AllZero(f.out.data)
  BY HandleFits DEF StoreSlice
<1>2. /\ f \in Handle /\ f.writable /\ f.ver # 0 /\ f.inode \in Inodes
      /\ f.act = Nil => f.buf = <<>>
      /\ f.act # Nil => Len(f.buf) \in 1..SliceSize
      /\ \/ f.op.kind = "write" /\ f.op \in WriteOp /\ WriteShape(f)
         \/ f.op.kind = "cut" /\ f.op \in CutOp /\ CutShape(f)
         \/ f.op.kind \in {"sync", "close"} /\ f.op \in FlushOp
      /\ Len(f.out.data) \in 1..SliceSize /\ f.out.idx # f.act
      /\ f.op.kind # "cut" => f.act = Nil
  BY <1>1, WorkingFacts DEF Working, Fits, Putting
<1>3. f.out \in [idx : Idx, data : Seq(Nat)]
  BY <1>1 DEF Fits, HandleShape, Putting
<1>4. \/ \E c \in Chunks : /\ chunk[c] = Nil
                           /\ chunk' = [chunk EXCEPT ![c] = f.out.data]
                           /\ Become(h, [f EXCEPT !.pc = "store", !.got = c])
      \/ chunk' = chunk /\ Become(h, Fail(f))
  BY DEF StoreSlice
<1>5. ASSUME NEW c \in Chunks, chunk[c] = Nil, chunk' = [chunk EXCEPT ![c] = f.out.data],
             Become(h, [f EXCEPT !.pc = "store", !.got = c])
      PROVE  Fits(x) /\ Stored(f, x, c) /\ \A k \in Handles : k # h => fh'[k] = fh[k]
  <2>1. x = [f EXCEPT !.pc = "store", !.got = c] /\ \A k \in Handles : k # h => fh'[k] = fh[k]
    BY <1>5, Becomes
  <2>2. x \in Handle
    BY <1>2, <2>1 DEF Handle, Pc
  <2>3. f \in Handle
    BY <1>2
  <2>4. Stored(f, x, c)
    BY <2>1, <2>3 DEF Handle, Stored, SameFile
  <2> HIDE DEF x, f
  <2>5. Done(x) = Done(f) /\ First(x) = First(f) /\ Edge(x) = Edge(f)
    BY <2>4 DEF Done, First, Edge, Stored
  <2>6. WriteShape(f) => WriteShape(x)
    BY <1>1, <2>4, <2>5 DEF WriteShape, Putting, Stored, SameFile
  <2>7. CutShape(f) => CutShape(x)
    BY <1>1, <2>4, <2>5 DEF CutShape, Putting, Stored, SameFile
  <2>8. c # Nil
    BY FileAssumption
  <2>9. /\ x.pc = "store" /\ x.inode \in Inodes /\ x.writable /\ x.ver # 0 /\ x.got # Nil
        /\ x.act = Nil => x.buf = <<>>
        /\ x.act # Nil => Len(x.buf) \in 1..SliceSize
        /\ \/ x.op.kind = "write" /\ WriteShape(x)
           \/ x.op.kind = "cut" /\ CutShape(x)
           \/ x.op.kind \in {"sync", "close"} /\ x.op \in FlushOp
        /\ Len(x.out.data) \in 1..SliceSize /\ x.out.idx # x.act /\ x.out \in [idx : Idx, data : Seq(Nat)]
        /\ x.op.kind # "cut" => x.act = Nil
    BY <1>2, <1>3, <2>4, <2>6, <2>7, <2>8 DEF Stored, SameFile
  <2>10. HandleShape(x)
    BY <2>9 DEF HandleShape, Busy, Opening, Putting
  <2> QED
    BY <2>1, <2>2, <2>4, <2>10 DEF Fits
<1>6. CASE chunk' = chunk /\ Become(h, Fail(f))
  <2>1. x = Fail(f) /\ \A k \in Handles : k # h => fh'[k] = fh[k]
    BY <1>6, Becomes
  <2>2. Fits(x) /\ Failed(f, x)
    BY <1>1, <2>1, FailedFits DEF Working
  <2> QED
    BY <1>1, <1>6, <2>1, <2>2
<1> QED
  BY <1>1, <1>4, <1>5, <1>6

LEMMA PutRowMoves ==
    ASSUME Typed, NEW h \in Handles, PutRow(h)
    PROVE  /\ Fits(fh'[h]) /\ \A g \in Handles : g # h => fh'[g] = fh[g]
           /\ fh[h].pc = "store"
           /\ \/ /\ vchunk' = [vchunk EXCEPT ![<<fh[h].ver, fh[h].out.idx>>] = fh[h].got]
                 /\ Put(fh[h], fh'[h]) /\ fh'[h].new = [fh[h].new EXCEPT ![fh[h].out.idx] = fh[h].got]
              \/ vchunk' = vchunk /\ Failed(fh[h], fh'[h])
<1> DEFINE f == fh[h]
           x == fh'[h]
           i == f.out.idx
           g == Renewed(f, i, f.got)
<1>1. f.pc = "store" /\ Fits(f)
  BY HandleFits DEF PutRow
<1>2. f \in Handle /\ i \in Idx /\ f.pc \in Putting /\ f.got \in Chunks
  BY <1>1, WorkingFacts DEF Working, Fits, Putting
<1>4. \/ vchunk' = [vchunk EXCEPT ![<<f.ver, i>>] = f.got] /\ Become(h, AfterPut(g))
      \/ vchunk' = vchunk /\ Become(h, Fail(f))
  BY DEF PutRow, Renewed
<1>5. CASE vchunk' = [vchunk EXCEPT ![<<f.ver, i>>] = f.got] /\ Become(h, AfterPut(g))
  <2>1. x = AfterPut(g) /\ \A k \in Handles : k # h => fh'[k] = fh[k]
    BY <1>5, Becomes
  <2>2. Fits(x) /\ Put(f, x) /\ x.new = [f.new EXCEPT ![i] = f.got]
    BY <1>1, <1>2, <2>1, PutFits
  <2> QED
    BY <1>1, <1>5, <2>1, <2>2
<1>6. CASE vchunk' = vchunk /\ Become(h, Fail(f))
  <2>1. x = Fail(f) /\ \A k \in Handles : k # h => fh'[k] = fh[k]
    BY <1>6, Becomes
  <2>2. Fits(x) /\ Failed(f, x)
    BY <1>1, <2>1, FailedFits DEF Working
  <2> QED
    BY <1>1, <1>6, <2>1, <2>2
<1> QED
  BY <1>4, <1>5, <1>6
-----------------------------------------------------------------------------
(* Truncating: the slices a file of n bytes has, and the one n cuts.       *)
Slices(n) == (n + SliceSize - 1) \div SliceSize

LEMMA CutFacts ==
    ASSUME NEW n \in Nat
    PROVE  \E q \in Nat, r \in Offsets :
                /\ q = n \div SliceSize /\ r = n % SliceSize /\ n = q * SliceSize + r
                /\ Slices(n) = (IF r = 0 THEN q ELSE q + 1) /\ Slices(n) \in Nat
<1>1. PICK q \in Nat, r \in 0..(SliceSize - 1) :
        q = n \div SliceSize /\ r = n % SliceSize /\ n = q * SliceSize + r
  BY SizeFacts, DivMod
<1>2. q * SliceSize \in Nat /\ (q + 1) * SliceSize = q * SliceSize + SliceSize /\ SliceSize \in Nat
  BY SizeFacts
<1>0. n = q * SliceSize + r
  BY <1>1
<1>3. r = 0 => Slices(n) = q
  <2>1. r = 0 => n + SliceSize - 1 = q * SliceSize + (SliceSize - 1)
    BY ONLY <1>0, <1>2, n \in Nat
  <2>2. SliceSize - 1 \in 0..(SliceSize - 1)
    BY SizeFacts
  <2>3. (q * SliceSize + (SliceSize - 1)) \div SliceSize = q
    BY <2>2, SizeFacts, DivUnique
  <2> QED
    BY ONLY <2>1, <2>3 DEF Slices
<1>4. r # 0 => Slices(n) = q + 1
  <2> SUFFICES ASSUME r # 0 PROVE Slices(n) = q + 1
    OBVIOUS
  <2>0. r \in Nat
    BY SizeFacts
  <2>1. n + SliceSize - 1 = (q + 1) * SliceSize + (r - 1)
    BY ONLY <1>0, <1>2, <2>0, n \in Nat
  <2>2. r - 1 \in 0..(SliceSize - 1) /\ q + 1 \in Nat
    BY SizeFacts
  <2>3. ((q + 1) * SliceSize + (r - 1)) \div SliceSize = q + 1
    BY <2>2, SizeFacts, DivUnique
  <2> QED
    BY ONLY <2>1, <2>3 DEF Slices
<1>5. Slices(n) \in Nat
  BY <1>3, <1>4
<1>6. n \div SliceSize = q /\ n % SliceSize = r
  BY <1>1
<1>7. Slices(n) = IF r = 0 THEN q ELSE q + 1
  BY <1>3, <1>4
<1>8. q \in Nat /\ r \in Offsets
  BY DEF Offsets
<1> QED
  BY <1>1, <1>5, <1>7, <1>8

(* What a truncation to n bytes leaves of a handle's slices.               *)
CutBuf(f, n) ==
    IF f.act = Nil \/ f.act >= Slices(n) THEN <<>>
    ELSE IF n % SliceSize # 0 /\ f.act = n \div SliceSize /\ n % SliceSize < Len(f.buf)
    THEN SubSeq(f.buf, 1, n % SliceSize) ELSE f.buf
CutAct(f, n) == IF f.act # Nil /\ f.act >= Slices(n) THEN Nil ELSE f.act
CutNew(f, n) == [i \in Idx |-> IF i >= Slices(n) THEN Nil ELSE f.new[i]]
Cut(f, x, n) ==
    /\ SameFile(f, x) /\ x.got = Nil /\ x.out = Nil
    /\ x.act = CutAct(f, n) /\ x.buf = CutBuf(f, n) /\ x.new = CutNew(f, n)

LEMMA CutTyped ==
    ASSUME NEW f, Fits(f), f.pc = "ready", f.writable, NEW n \in Nat, n < f.size
    PROVE  /\ CutAct(f, n) \in Idx \cup {Nil} /\ CutBuf(f, n) \in Seq(Nat) /\ CutNew(f, n) \in Rows
           /\ CutAct(f, n) = Nil => CutBuf(f, n) = <<>>
           /\ CutAct(f, n) # Nil => Len(CutBuf(f, n)) \in 1..SliceSize
           /\ n \div SliceSize \in Idx
           /\ n % SliceSize # 0 /\ CutAct(f, n) # Nil => CutAct(f, n) <= n \div SliceSize
           /\ n % SliceSize # 0 => \A i \in Idx : i > n \div SliceSize => CutNew(f, n)[i] = Nil
<1>1. /\ f \in Handle /\ f.act \in Idx \cup {Nil} /\ f.buf \in Seq(Nat) /\ f.new \in Rows
      /\ f.size \in 0..MaxSize
  BY DEF Fits, Handle
<1>2. /\ f.act = Nil => f.buf = <<>>
      /\ f.act # Nil => Len(f.buf) \in 1..SliceSize
  BY DEF Fits, HandleShape
<1>3. /\ n \div SliceSize \in Nat /\ n % SliceSize \in Nat /\ Slices(n) \in Nat
      /\ n % SliceSize # 0 => Slices(n) = n \div SliceSize + 1
      /\ n % SliceSize <= SliceSize
  <2>1. PICK q \in Nat, r \in Offsets :
            /\ q = n \div SliceSize /\ r = n % SliceSize /\ n = q * SliceSize + r
            /\ Slices(n) = (IF r = 0 THEN q ELSE q + 1) /\ Slices(n) \in Nat
    BY CutFacts
  <2>2. r \in Nat /\ r <= SliceSize
    BY SizeFacts DEF Offsets
  <2> QED
    BY <2>1, <2>2
<1>4. CutAct(f, n) \in Idx \cup {Nil} /\ CutNew(f, n) \in Rows
  BY <1>1 DEF CutAct, CutNew, Rows
<1>5. CutAct(f, n) # Nil => f.act \in Idx /\ CutAct(f, n) = f.act /\ f.act \in Nat /\ ~(f.act >= Slices(n))
  <2>1. CutAct(f, n) # Nil => CutAct(f, n) = f.act /\ f.act # Nil /\ ~(f.act >= Slices(n))
    BY DEF CutAct
  <2> QED
    BY <1>1, <2>1, IdxNat
<1>6. CutAct(f, n) = Nil => CutBuf(f, n) = <<>>
  BY DEF CutAct, CutBuf
<1>7. CutAct(f, n) # Nil => Len(CutBuf(f, n)) \in 1..SliceSize /\ CutBuf(f, n) \in Seq(Nat)
  <2> SUFFICES ASSUME CutAct(f, n) # Nil
               PROVE  Len(CutBuf(f, n)) \in 1..SliceSize /\ CutBuf(f, n) \in Seq(Nat)
    OBVIOUS
  <2>1. f.act # Nil /\ ~(f.act >= Slices(n)) /\ Len(f.buf) \in 1..SliceSize
    BY <1>2, <1>5, FileAssumption
  <2> DEFINE m == n % SliceSize
  <2>2. CASE m # 0 /\ f.act = n \div SliceSize /\ m < Len(f.buf)
    <3>1. CutBuf(f, n) = SubSeq(f.buf, 1, m)
      BY <2>1, <2>2 DEF CutBuf
    <3>2. m \in Nat /\ m <= Len(f.buf) /\ 1 <= m + 1 /\ m - 1 + 1 = m /\ m \in 1..SliceSize
      BY <1>3, <2>1, <2>2
    <3> HIDE DEF m
    <3>3. SubSeq(f.buf, 1, m) \in Seq(Nat) /\ Len(SubSeq(f.buf, 1, m)) = m - 1 + 1
      BY <1>1, <3>2, SubSeqBytes
    <3> QED
      BY <3>1, <3>2, <3>3
  <2>3. CASE ~(m # 0 /\ f.act = n \div SliceSize /\ m < Len(f.buf))
    <3>1. CutBuf(f, n) = f.buf
      BY <2>1, <2>3 DEF CutBuf
    <3> QED
      BY <1>1, <2>1, <3>1
  <2> QED
    BY <2>2, <2>3
<1>8. CutBuf(f, n) \in Seq(Nat)
  BY <1>6, <1>7, EmptySeq
<1>9. n \div SliceSize \in Idx
  <2>1. n < MaxSize
    BY <1>1, SizeFacts
  <2> QED
    BY <2>1, Place
<1>10. n % SliceSize # 0 /\ CutAct(f, n) # Nil => CutAct(f, n) <= n \div SliceSize
  BY <1>3, <1>5
<1>11. n % SliceSize # 0 => \A i \in Idx : i > n \div SliceSize => CutNew(f, n)[i] = Nil
  <2>1. \A i \in Idx : i \in Nat
    BY IdxNat
  <2>2. \A i \in Idx : n % SliceSize # 0 /\ i > n \div SliceSize => i >= Slices(n)
    BY <1>3, <2>1
  <2> QED
    BY <2>2 DEF CutNew
<1> QED
  BY <1>4, <1>6, <1>7, <1>8, <1>9, <1>10, <1>11

Plainly(f, x) ==
    /\ SameFile(f, x) /\ x.got = Nil /\ x.out = Nil /\ x.act = f.act /\ x.buf = f.buf /\ x.new = f.new

LEMMA TruncateMoves ==
    ASSUME Typed, NEW h \in Handles, NEW n \in 0..MaxSize, Truncate(h, n)
    PROVE  /\ Fits(fh'[h]) /\ \A g \in Handles : g # h => fh'[g] = fh[g]
           /\ fh[h].pc = "ready" /\ fh[h].writable /\ n # fh[h].size
           /\ n < fh[h].size /\ n % SliceSize # 0 =>
                MayTouch(fh[h], n \div SliceSize, n \div SliceSize)
           /\ \/ /\ n < fh[h].size /\ Cut(fh[h], fh'[h], n) /\ fh'[h].sure = fh[h].sure
                 /\ vchunk' = [x \in Version \X Idx |->
                                IF x[1] = fh[h].ver /\ x[2] >= Slices(n) THEN Nil ELSE vchunk[x]]
                 /\ \/ /\ n % SliceSize # 0 /\ fh'[h].act # n \div SliceSize
                       /\ fh'[h].pc = "cut" /\ fh'[h].op = [kind |-> "cut", size |-> n]
                       /\ fh'[h].size = fh[h].size /\ fh'[h].view = fh[h].view
                    \/ /\ n % SliceSize = 0 \/ fh'[h].act = n \div SliceSize
                       /\ fh'[h].pc = "ready" /\ fh'[h].size = n /\ fh'[h].view = Resize(fh[h].view, n)
              \/ /\ n < fh[h].size /\ vchunk' = vchunk /\ Cut(fh[h], fh'[h], n)
                 /\ fh'[h].pc = "ready" /\ fh'[h].sure = FALSE
              \/ /\ n > fh[h].size /\ vchunk' = vchunk /\ Plainly(fh[h], fh'[h])
                 /\ fh'[h].pc = "ready" /\ fh'[h].size = n /\ fh'[h].view = Resize(fh[h].view, n)
                 /\ fh'[h].sure = fh[h].sure
<1> DEFINE f == fh[h]
           x == fh'[h]
           o == [kind |-> "cut", size |-> n]
           k == f.calls + 1
           g == [f EXCEPT !.op = o, !.calls = k, !.act = CutAct(f, n), !.buf = CutBuf(f, n),
                          !.new = CutNew(f, n)]
           e == [f EXCEPT !.op = o, !.calls = k]
           c == [g EXCEPT !.pc = "cut"]
<1>1. /\ f \in Handle /\ HandleShape(f) /\ f.pc = "ready" /\ f.writable /\ f.calls < MaxCalls /\ n # f.size
      /\ Fits(f)
  BY HandleFits DEF Fits, Truncate
<1>0. f \in Handle
  BY <1>1
<1>2. /\ f.ver # 0 /\ f.out = Nil /\ f.got = Nil /\ f.inode \in Inodes
      /\ f.act = Nil => f.buf = <<>>
      /\ f.act # Nil => Len(f.buf) \in 1..SliceSize
  BY <1>1 DEF HandleShape, Opening, Putting
<1>3. n < f.size /\ n % SliceSize # 0 => MayTouch(f, n \div SliceSize, n \div SliceSize)
  BY DEF Truncate
<1>4. \/ /\ n < f.size
         /\ vchunk' = [y \in Version \X Idx |->
                        IF y[1] = f.ver /\ y[2] >= Slices(n) THEN Nil ELSE vchunk[y]]
         /\ Become(h, IF n % SliceSize # 0 /\ g.act # n \div SliceSize THEN c ELSE AfterCut(g))
      \/ n < f.size /\ vchunk' = vchunk /\ Become(h, Fail(g))
      \/ n > f.size /\ vchunk' = vchunk /\ Become(h, AfterCut(e))
  <2>1. g = [f EXCEPT !.op = o, !.calls = @ + 1,
                      !.act = IF @ # Nil /\ @ >= Slices(n) THEN Nil ELSE @,
                      !.buf = IF f.act = Nil \/ f.act >= Slices(n) THEN <<>>
                              ELSE IF n % SliceSize # 0 /\ f.act = n \div SliceSize /\ n % SliceSize < Len(@)
                              THEN SubSeq(@, 1, n % SliceSize) ELSE @,
                      !.new = [i \in Idx |-> IF i >= Slices(n) THEN Nil ELSE @[i]]]
    BY <1>0 DEF Handle, CutAct, CutBuf, CutNew
  <2>2. g.op = o /\ g.calls = k
    BY <1>0 DEF Handle
  <2> HIDE DEF g, o, k
  <2> QED
    BY <2>1, <2>2 DEF Truncate, Slices, o
<1>5. k \in 0..MaxCalls
  <2>1. f.calls \in 0..MaxCalls /\ MaxCalls \in Nat
    BY <1>0, FileAssumption DEF Handle
  <2> QED
    BY <1>1, <2>1
<1>6. o \in CutOp /\ o.kind = "cut" /\ o.size = n
  BY DEF CutOp
<1>7. n \in Nat
  BY SizeFacts
<1> HIDE DEF o, k
<1>8. /\ e \in Handle /\ SameFile(f, e) /\ e.op = o /\ e.act = f.act /\ e.buf = f.buf /\ e.new = f.new
      /\ e.out = Nil /\ e.got = Nil /\ e.sure = f.sure /\ e.view = f.view /\ e.size = f.size
  <2>1. e \in Handle
    BY <1>0, <1>5, <1>6 DEF Handle
  <2>2. /\ SameFile(f, e) /\ e.op = o /\ e.act = f.act /\ e.buf = f.buf /\ e.new = f.new
        /\ e.out = f.out /\ e.got = f.got /\ e.sure = f.sure /\ e.view = f.view /\ e.size = f.size
    BY <1>0 DEF Handle, SameFile
  <2> QED
    BY <1>2, <2>1, <2>2
<1>9. ASSUME n < f.size
      PROVE  /\ g \in Handle /\ Cut(f, g, n) /\ g.op = o /\ g.sure = f.sure /\ g.view = f.view
             /\ g.size = f.size
             /\ CutAct(f, n) = Nil => CutBuf(f, n) = <<>>
             /\ CutAct(f, n) # Nil => Len(CutBuf(f, n)) \in 1..SliceSize
  <2>1. /\ CutAct(f, n) \in Idx \cup {Nil} /\ CutBuf(f, n) \in Seq(Nat) /\ CutNew(f, n) \in Rows
        /\ CutAct(f, n) = Nil => CutBuf(f, n) = <<>>
        /\ CutAct(f, n) # Nil => Len(CutBuf(f, n)) \in 1..SliceSize
    BY <1>1, <1>7, <1>9, CutTyped
  <2>2. g \in Handle
    BY <1>0, <1>5, <1>6, <2>1 DEF Handle
  <2>3. /\ SameFile(f, g) /\ g.op = o /\ g.act = CutAct(f, n) /\ g.buf = CutBuf(f, n)
        /\ g.new = CutNew(f, n) /\ g.out = f.out /\ g.got = f.got /\ g.sure = f.sure
        /\ g.view = f.view /\ g.size = f.size
    BY <1>0 DEF Handle, SameFile
  <2> QED
    BY <1>2, <2>1, <2>2, <2>3 DEF Cut
<1>10. CASE /\ n < f.size
            /\ vchunk' = [y \in Version \X Idx |->
                            IF y[1] = f.ver /\ y[2] >= Slices(n) THEN Nil ELSE vchunk[y]]
            /\ Become(h, IF n % SliceSize # 0 /\ g.act # n \div SliceSize THEN c ELSE AfterCut(g))
  <2>1. /\ x = IF n % SliceSize # 0 /\ g.act # n \div SliceSize THEN c ELSE AfterCut(g)
        /\ \A j \in Handles : j # h => fh'[j] = fh[j]
    BY <1>10, Becomes
  <2>2. CASE n % SliceSize # 0 /\ g.act # n \div SliceSize
    <3>1. x = c
      BY <2>1, <2>2
    <3>0. /\ g \in Handle /\ Cut(f, g, n) /\ g.op = o /\ g.sure = f.sure /\ g.view = f.view
          /\ g.size = f.size
      BY <1>9, <1>10
    <3> HIDE DEF g
    <3>2. /\ c \in Handle /\ SameFile(g, c) /\ c.pc = "cut" /\ c.op = g.op /\ c.act = g.act
          /\ c.buf = g.buf /\ c.new = g.new /\ c.out = g.out /\ c.got = g.got /\ c.sure = g.sure
          /\ c.view = g.view /\ c.size = g.size
      <4>0. g \in Handle
        BY <3>0
      <4>1. c \in Handle
        BY <4>0 DEF Handle, Pc
      <4>2. /\ SameFile(g, c) /\ c.pc = "cut" /\ c.op = g.op /\ c.act = g.act
            /\ c.buf = g.buf /\ c.new = g.new /\ c.out = g.out /\ c.got = g.got /\ c.sure = g.sure
            /\ c.view = g.view /\ c.size = g.size
        BY <4>0 DEF Handle, SameFile
      <4> QED
        BY <4>1, <4>2
    <3> HIDE DEF c
    <3>3. Cut(f, x, n) /\ x.pc = "cut" /\ x.op = o /\ x.sure = f.sure /\ x.view = f.view /\ x.size = f.size
      BY <3>0, <3>1, <3>2 DEF Cut, SameFile
    <3>4. x \in Handle /\ x.act # n \div SliceSize
      BY <2>2, <3>1, <3>2
    <3> HIDE DEF x, f
    <3>5. x.act # Nil => x.act < n \div SliceSize
      <4>1. /\ n \div SliceSize \in Idx
            /\ CutAct(f, n) \in Idx \cup {Nil} /\ (CutAct(f, n) # Nil => CutAct(f, n) <= n \div SliceSize)
        BY <1>1, <1>7, <1>10, <2>2, CutTyped
      <4>2. x.act = CutAct(f, n)
        BY <3>3 DEF Cut
      <4> DEFINE j == n \div SliceSize
                 i == CutAct(f, n)
      <4>3. i # Nil => i \in Nat /\ j \in Nat /\ i <= j /\ i # j
        BY <3>4, <4>1, <4>2, IdxNat
      <4> HIDE DEF i, j
      <4>4. i # Nil => i < j
        BY <4>3
      <4> QED
        BY <4>2, <4>4 DEF i, j
    <3>6. \A i \in Idx : i > n \div SliceSize => x.new[i] = Nil
      BY <1>1, <1>7, <1>10, <2>2, <3>3, CutTyped DEF Cut
    <3>7. CutShape(x)
      <4>1. Edge(x) = n \div SliceSize /\ x.op \in CutOp /\ x.op.size = n
        BY <1>6, <3>3 DEF Edge
      <4> QED
        BY <1>10, <2>2, <3>3, <3>4, <3>5, <3>6, <4>1 DEF CutShape, Putting
    <3>8. /\ x.inode \in Inodes /\ x.writable /\ x.ver # 0 /\ x.out = Nil /\ x.got = Nil /\ x.op.kind = "cut"
          /\ x.act = Nil => x.buf = <<>>
          /\ x.act # Nil => Len(x.buf) \in 1..SliceSize
      BY <1>1, <1>2, <1>6, <1>9, <1>10, <3>3 DEF Cut, SameFile
    <3>9. HandleShape(x)
      BY <3>3, <3>7, <3>8 DEF HandleShape, Busy, Opening, Putting
    <3> QED
      BY <1>1, <1>3, <1>10, <2>1, <2>2, <3>3, <3>4, <3>9 DEF Fits, o, x, f
  <2>3. CASE ~(n % SliceSize # 0 /\ g.act # n \div SliceSize)
    <3>1. x = AfterCut(g)
      BY <2>1, <2>3
    <3>0. /\ g \in Handle /\ Cut(f, g, n) /\ g.op = o /\ g.sure = f.sure /\ g.view = f.view
          /\ g.size = f.size
      BY <1>9, <1>10
    <3> HIDE DEF g
    <3>2. /\ x \in Handle /\ SameFile(g, x) /\ x.new = g.new /\ x.act = g.act /\ x.buf = g.buf
          /\ x.out = g.out /\ x.got = g.got /\ x.sure = g.sure
          /\ x.pc = "ready" /\ x.size = n /\ x.view = Resize(f.view, n)
      BY <1>6, <3>0, <3>1, CutFields
    <3>3. Cut(f, x, n) /\ x.sure = f.sure
      BY <3>0, <3>2 DEF Cut, SameFile
    <3>4. ReadyShape(x)
      BY <1>1, <1>2, <1>9, <1>10, <3>2, <3>3 DEF Cut, SameFile, ReadyShape
    <3>5. Fits(x)
      BY <3>2, <3>4, ReadyFits
    <3>6. n % SliceSize = 0 \/ x.act = n \div SliceSize
      BY <2>3, <3>2
    <3> QED
      BY <1>1, <1>3, <1>10, <2>1, <3>2, <3>3, <3>5, <3>6
  <2> QED
    BY <2>2, <2>3
<1>11. CASE n < f.size /\ vchunk' = vchunk /\ Become(h, Fail(g))
  <2>1. x = Fail(g) /\ \A j \in Handles : j # h => fh'[j] = fh[j]
    BY <1>11, Becomes
  <2>2. g \in Handle /\ Cut(f, g, n) /\ g.op = o
    BY <1>9, <1>11
  <2> HIDE DEF g
  <2>3. g.op.kind # "close"
    BY <1>6, <2>2
  <2>4. x \in Handle /\ SameFile(g, x) /\ x.pc = "ready" /\ x.out = Nil /\ x.got = Nil
    BY <2>1, <2>2, <2>3, FailFields
  <2>5. x.act = g.act /\ x.buf = g.buf
    BY <2>1, <2>2, <2>3, FailFields
  <2>6. x.new = g.new /\ x.sure = FALSE
    BY <2>1, <2>2, <2>3, FailFields
  <2>7. Cut(f, x, n)
    BY <2>2, <2>4, <2>5, <2>6 DEF Cut, SameFile
  <2>8. ReadyShape(x)
    BY <1>1, <1>2, <1>9, <1>11, <2>4, <2>7 DEF Cut, SameFile, ReadyShape
  <2>9. Fits(x)
    BY <2>4, <2>8, ReadyFits
  <2> QED
    BY <1>1, <1>3, <1>11, <2>1, <2>4, <2>6, <2>7, <2>9
<1>12. CASE n > f.size /\ vchunk' = vchunk /\ Become(h, AfterCut(e))
  <2>1. x = AfterCut(e) /\ \A j \in Handles : j # h => fh'[j] = fh[j]
    BY <1>12, Becomes
  <2> HIDE DEF e
  <2>2. /\ x \in Handle /\ SameFile(e, x) /\ x.new = e.new /\ x.act = e.act /\ x.buf = e.buf
        /\ x.out = e.out /\ x.got = e.got /\ x.sure = e.sure
        /\ x.pc = "ready" /\ x.size = n /\ x.view = Resize(f.view, n)
    BY <1>6, <1>8, <2>1, CutFields
  <2>3. Plainly(f, x)
    BY <1>8, <2>2 DEF Plainly, SameFile
  <2>4. ReadyShape(x)
    BY <1>1, <1>2, <1>8, <2>2 DEF ReadyShape, SameFile
  <2>5. Fits(x)
    BY <2>2, <2>4, ReadyFits
  <2> QED
    BY <1>1, <1>3, <1>8, <1>12, <2>1, <2>2, <2>3, <2>5
<1> QED
  BY <1>4, <1>10, <1>11, <1>12

LEMMA TrimSliceMoves ==
    ASSUME Typed, NEW h \in Handles, TrimSlice(h)
    PROVE  /\ Fits(fh'[h]) /\ \A g \in Handles : g # h => fh'[g] = fh[g]
           /\ fh[h].pc = "cut" /\ fh[h].op.kind = "cut" /\ CutShape(fh[h]) /\ Edge(fh[h]) \in Idx
           /\ \/ /\ Readable(fh[h], Edge(fh[h])) /\ Len(Plain(fh[h], Edge(fh[h]))) <= fh[h].op.size % SliceSize
                 /\ Plainly(fh[h], fh'[h]) /\ fh'[h].pc = "ready" /\ fh'[h].size = fh[h].op.size
                 /\ fh'[h].view = Resize(fh[h].view, fh[h].op.size) /\ fh'[h].sure = fh[h].sure
              \/ /\ Readable(fh[h], Edge(fh[h])) /\ Len(Plain(fh[h], Edge(fh[h]))) > fh[h].op.size % SliceSize
                 /\ SameFile(fh[h], fh'[h]) /\ fh'[h].pc = "flush" /\ fh'[h].got = Nil
                 /\ fh'[h].new = fh[h].new /\ fh'[h].act = fh[h].act /\ fh'[h].buf = fh[h].buf
                 /\ fh'[h].op = fh[h].op /\ fh'[h].size = fh[h].size /\ fh'[h].view = fh[h].view
                 /\ fh'[h].sure = fh[h].sure /\ fh'[h].out.idx = Edge(fh[h])
                 /\ fh'[h].out.data = SubSeq(Plain(fh[h], Edge(fh[h])), 1, fh[h].op.size % SliceSize)
              \/ Failed(fh[h], fh'[h])
<1> DEFINE f == fh[h]
           x == fh'[h]
           edge == Edge(f)
           m == f.op.size % SliceSize
           s == Plain(f, edge)
           out == [idx |-> edge, data |-> SubSeq(s, 1, m)]
           t == [f EXCEPT !.pc = "flush", !.out = out]
<1>1. f.pc = "cut" /\ Fits(f)
  BY HandleFits DEF TrimSlice
<1>2. /\ f \in Handle /\ f.writable /\ f.ver # 0 /\ f.inode \in Inodes
      /\ f.act = Nil => f.buf = <<>>
      /\ f.act # Nil => Len(f.buf) \in 1..SliceSize
      /\ f.op.kind = "cut" /\ f.op \in CutOp /\ CutShape(f) /\ f.out = Nil /\ f.got = Nil
  BY <1>1, WorkingFacts DEF Working, Fits, CutShape
<1>3. edge \in Idx /\ m \in 1..SliceSize
  <2>1. f.op.size \in Nat /\ f.op.size < MaxSize
    <3>1. f.op.size \in 0..MaxSize /\ f.size \in 0..MaxSize /\ f.op.size < f.size
      BY <1>2 DEF CutShape, CutOp, Handle
    <3> QED
      BY <3>1, SizeFacts
  <2>2. PICK i \in Idx, r \in Offsets :
            i = f.op.size \div SliceSize /\ r = f.op.size % SliceSize /\ f.op.size = i * SliceSize + r
    BY <2>1, Place
  <2>3. edge = i /\ m = r
    BY <2>2 DEF Edge
  <2>4. m # 0
    BY <1>2 DEF CutShape
  <2> HIDE DEF m, edge
  <2> QED
    BY <2>3, <2>4, SizeFacts DEF Offsets
<1>4. \/ Readable(f, edge) /\ Len(s) <= m /\ Become(h, AfterCut(f))
      \/ Readable(f, edge) /\ Len(s) > m /\ Become(h, t)
      \/ Become(h, Fail(f))
  BY DEF TrimSlice, Edge
<1>0. f \in Handle
  BY <1>2
<1>5. CASE Readable(f, edge) /\ Len(s) <= m /\ Become(h, AfterCut(f))
  <2>1. x = AfterCut(f) /\ \A j \in Handles : j # h => fh'[j] = fh[j]
    BY <1>5, Becomes
  <2> HIDE DEF s, m
  <2>2. /\ x \in Handle /\ SameFile(f, x) /\ x.new = f.new /\ x.act = f.act /\ x.buf = f.buf
        /\ x.out = f.out /\ x.got = f.got /\ x.sure = f.sure
        /\ x.pc = "ready" /\ x.size = f.op.size /\ x.view = Resize(f.view, f.op.size)
    BY <1>2, <2>1, CutFields
  <2>3. ReadyShape(x) /\ Plainly(f, x)
    BY <1>2, <2>2 DEF ReadyShape, SameFile, Plainly
  <2>4. Fits(x)
    BY <2>2, <2>3, ReadyFits
  <2> QED
    BY <1>1, <1>2, <1>3, <1>5, <2>1, <2>2, <2>3, <2>4 DEF s, m
<1>6. CASE Readable(f, edge) /\ Len(s) > m /\ Become(h, t)
  <2>1. x = t /\ \A j \in Handles : j # h => fh'[j] = fh[j]
    BY <1>6, Becomes
  <2>2. s \in Seq(Nat) /\ Len(s) \in 0..SliceSize
    BY <1>2, <1>3, <1>6, PlainTyped
  <2>3. SubSeq(s, 1, m) \in Seq(Nat) /\ Len(SubSeq(s, 1, m)) = m
    <3>1. m \in Nat /\ m <= Len(s) /\ 1 <= m + 1 /\ m - 1 + 1 = m
      BY <1>3, <1>6, <2>2, SizeFacts
    <3> HIDE DEF m, s
    <3> QED
      BY <2>2, <3>1, SubSeqBytes
  <2>4. out \in [idx : Idx, data : Seq(Nat)] /\ out.idx = edge /\ out.data = SubSeq(s, 1, m)
    BY <1>3, <2>3
  <2> HIDE DEF out
  <2>5. x \in Handle
    BY <1>0, <2>1, <2>4 DEF Handle, Pc
  <2>6. /\ SameFile(f, x) /\ x.pc = "flush" /\ x.got = f.got /\ x.out = out
        /\ x.new = f.new /\ x.act = f.act /\ x.buf = f.buf
        /\ x.op = f.op /\ x.size = f.size /\ x.view = f.view /\ x.sure = f.sure
    BY <1>0, <2>1 DEF Handle, SameFile
  <2> HIDE DEF x, f, s, m
  <2>7. Edge(x) = edge /\ x.op.size % SliceSize = m /\ f.act # edge
    BY <1>2, <2>6 DEF Edge, m, CutShape
  <2>8. CutShape(x)
    BY <1>1, <1>2, <2>3, <2>4, <2>6, <2>7 DEF CutShape, Putting, m
  <2>9. /\ x.inode \in Inodes /\ x.writable /\ x.ver # 0 /\ x.got = Nil /\ x.op.kind = "cut"
        /\ x.act = Nil => x.buf = <<>>
        /\ x.act # Nil => Len(x.buf) \in 1..SliceSize
        /\ x.out \in [idx : Idx, data : Seq(Nat)] /\ Len(x.out.data) \in 1..SliceSize
        /\ x.out.idx # x.act
    BY <1>2, <1>3, <2>3, <2>4, <2>6, <2>7 DEF SameFile
  <2>10. HandleShape(x)
    BY <2>6, <2>8, <2>9 DEF HandleShape, Busy, Opening, Putting
  <2> QED
    BY <1>1, <1>2, <1>3, <1>6, <2>1, <2>4, <2>5, <2>6, <2>10 DEF Fits, x, f, s, m
<1>7. CASE Become(h, Fail(f))
  <2>1. x = Fail(f) /\ \A k \in Handles : k # h => fh'[k] = fh[k]
    BY <1>7, Becomes
  <2>2. Fits(x) /\ Failed(f, x)
    BY <1>1, <2>1, FailedFits DEF Working
  <2> QED
    BY <1>1, <1>2, <1>3, <2>1, <2>2
<1> QED
  BY <1>4, <1>5, <1>6, <1>7

LEMMA FlushActiveMoves ==
    ASSUME Typed, NEW h \in Handles, NEW kind \in {"sync", "close"}, FlushActive(h, kind)
    PROVE  /\ Fits(fh'[h]) /\ \A g \in Handles : g # h => fh'[g] = fh[g]
           /\ fh[h].pc = "ready" /\ fh[h].writable /\ SameFile(fh[h], fh'[h])
           /\ fh'[h].new = fh[h].new /\ fh'[h].size = fh[h].size /\ fh'[h].view = fh[h].view
           /\ fh'[h].sure = fh[h].sure /\ fh'[h].got = Nil /\ fh'[h].act = Nil
           /\ \/ fh[h].act = Nil /\ fh'[h].pc \in {"commit", "discard"}
              \/ /\ fh[h].act # Nil /\ fh'[h].pc = "flush" /\ fh'[h].op.kind \in {"sync", "close"}
                 /\ fh'[h].out.idx = fh[h].act /\ fh'[h].out.data = fh[h].buf
<1> DEFINE f == fh[h]
           x == fh'[h]
           o == [kind |-> kind]
           k == IF kind = "sync" THEN f.calls + 1 ELSE f.calls
           p == ClosePc(f)
           out == [idx |-> f.act, data |-> f.buf]
<1>1. /\ f \in Handle /\ HandleShape(f) /\ f.pc = "ready" /\ f.writable
      /\ kind = "sync" => f.calls < MaxCalls
  BY HandleFits DEF Fits, FlushActive
<1>0. f \in Handle
  BY <1>1
<1>2. /\ f.ver # 0 /\ f.out = Nil /\ f.got = Nil /\ f.inode \in Inodes
      /\ f.act = Nil => f.buf = <<>>
      /\ f.act # Nil => Len(f.buf) \in 1..SliceSize
  BY <1>1 DEF HandleShape, Opening, Putting
<1>3. k \in 0..MaxCalls
  <2>1. f.calls \in 0..MaxCalls /\ MaxCalls \in Nat
    BY <1>0, FileAssumption DEF Handle
  <2> QED
    BY <1>1, <2>1
<1>4. o \in FlushOp /\ o.kind = kind
  BY DEF FlushOp
<1>5. p \in {"commit", "discard"}
  BY DEF ClosePc
<1>6. \/ f.act = Nil /\ Become(h, [f EXCEPT !.op = o, !.calls = k, !.pc = p])
      \/ f.act # Nil /\ Become(h, [f EXCEPT !.op = o, !.calls = k, !.pc = "flush", !.out = out,
                                            !.act = Nil, !.buf = <<>>])
  BY <1>0 DEF FlushActive, Handle
<1> HIDE DEF o, k, p
<1>7. CASE f.act = Nil /\ Become(h, [f EXCEPT !.op = o, !.calls = k, !.pc = p])
  <2>1. x = [f EXCEPT !.op = o, !.calls = k, !.pc = p] /\ \A j \in Handles : j # h => fh'[j] = fh[j]
    BY <1>7, Becomes
  <2>2. x \in Handle
    BY <1>0, <1>3, <1>4, <1>5, <2>1 DEF Handle, Pc
  <2>3. /\ SameFile(f, x) /\ x.pc = p /\ x.op = o /\ x.new = f.new /\ x.size = f.size /\ x.view = f.view
        /\ x.sure = f.sure /\ x.got = f.got /\ x.act = f.act /\ x.buf = f.buf /\ x.out = f.out
    BY <1>0, <2>1 DEF Handle, SameFile
  <2>4. HandleShape(x)
    BY <1>1, <1>2, <1>4, <1>5, <1>7, <2>3 DEF HandleShape, Busy, Opening, Putting, SameFile
  <2> QED
    BY <1>1, <1>2, <1>5, <1>7, <2>1, <2>2, <2>3, <2>4 DEF Fits
<1>8. CASE f.act # Nil /\ Become(h, [f EXCEPT !.op = o, !.calls = k, !.pc = "flush", !.out = out,
                                            !.act = Nil, !.buf = <<>>])
  <2>1. /\ x = [f EXCEPT !.op = o, !.calls = k, !.pc = "flush", !.out = out, !.act = Nil, !.buf = <<>>]
        /\ \A j \in Handles : j # h => fh'[j] = fh[j]
    BY <1>8, Becomes
  <2>2. out \in [idx : Idx, data : Seq(Nat)] /\ out.idx = f.act /\ out.data = f.buf
    BY <1>0, <1>8 DEF Handle
  <2> HIDE DEF out
  <2> DEFINE e == <<>>
  <2>0. e \in Seq(Nat)
    BY EmptySeq
  <2>7. x = [f EXCEPT !.op = o, !.calls = k, !.pc = "flush", !.out = out, !.act = Nil, !.buf = e]
    BY <2>1
  <2> HIDE DEF e
  <2>8. /\ o \in WriteOp \cup CutOp \cup FlushOp \cup {Nil} /\ Nil \in Idx \cup {Nil}
        /\ out \in [idx : Idx, data : Seq(Nat)] \cup {Nil} /\ "flush" \in Pc
    BY <1>4, <2>2 DEF Pc
  <2>3. x \in Handle
    BY ONLY <1>0, <1>3, <2>0, <2>7, <2>8 DEF Handle
  <2>4. /\ SameFile(f, x) /\ x.pc = "flush" /\ x.op = o /\ x.new = f.new /\ x.size = f.size
        /\ x.view = f.view /\ x.sure = f.sure /\ x.got = f.got /\ x.act = Nil /\ x.buf = <<>>
        /\ x.out = out
    BY <1>0, <2>7 DEF Handle, SameFile, e
  <2> HIDE DEF x
  <2>5. HandleShape(x)
    BY <1>1, <1>2, <1>4, <1>8, <2>2, <2>4 DEF HandleShape, Busy, Opening, Putting, SameFile
  <2> QED
    BY <1>1, <1>2, <1>4, <1>8, <2>1, <2>2, <2>3, <2>4, <2>5 DEF Fits, x
<1> QED
  BY <1>6, <1>7, <1>8

(* The end of a handle.                                                    *)
LEMMA CloseMoves ==
    ASSUME Typed, NEW h \in Handles,
           FailOpen(h) \/ CloseReader(h) \/ Commit(h) \/ Discard(h)
    PROVE  /\ Fits(fh'[h]) /\ \A g \in Handles : g # h => fh'[g] = fh[g]
           /\ fh'[h] = Closed /\ fh[h].pc # "closed" /\ fh[h].inode \in Inodes
           /\ fh[h].pc \in {"commit", "discard"} =>
                fh[h].ver \in Version /\ fh[h].act = Nil /\ fh[h].writable
<1>1. Become(h, Closed)
  BY DEF FailOpen, CloseReader, Commit, Discard
<1>2. fh[h] \in Handle /\ HandleShape(fh[h])
  BY HandleFits DEF Fits
<1>3. fh[h].pc # "closed"
  BY DEF FailOpen, CloseReader, Commit, Discard
<1>4. fh[h].inode \in Inodes
  BY <1>2, <1>3 DEF HandleShape
<1>5. ASSUME fh[h].pc \in {"commit", "discard"}
      PROVE  fh[h].ver \in Version /\ fh[h].act = Nil /\ fh[h].writable
  <2>1. fh[h].ver # 0 /\ fh[h].act = Nil /\ fh[h].writable
    BY <1>2, <1>5 DEF HandleShape, Busy, Opening, Putting
  <2>2. fh[h].ver \in 0..MaxVersion
    BY <1>2 DEF Handle
  <2> QED
    BY <2>1, <2>2, SizeFacts DEF Version
<1> QED
  BY <1>1, <1>3, <1>4, <1>5, ClosedMoves
-----------------------------------------------------------------------------
(* What the steps of handles leave alone.                                  *)
SameRest   == purging' = purging /\ restoring' = restoring /\ crashes' = crashes
SameTables == /\ inode' = inode /\ vrow' = vrow /\ vchunk' = vchunk /\ nextVer' = nextVer
              /\ chunk' = chunk /\ text' = text /\ SameRest

Quiet(h) ==
    \/ LoadVersion(h) \/ LoadRows(h) \/ FailOpen(h) \/ WriteSlice(h) \/ TrimSlice(h) \/ CloseReader(h)
    \/ \E off \in 0..(MaxSize - 1), p \in Payloads : WriteAt(h, off, p)
    \/ \E kind \in {"sync", "close"} : FlushActive(h, kind)
Mapping(h) == InheritRows(h) \/ DropSlice(h) \/ PutRow(h) \/ \E n \in 0..MaxSize : Truncate(h, n)

LEMMA HandleActions ==
    ASSUME NEW h \in Handles, HandleCall(h) \/ HandleStep(h)
    PROVE  \/ \E i \in Inodes, w \in BOOLEAN : Open(h, i, w)
           \/ Quiet(h) \/ Mapping(h) \/ NewVersion(h) \/ StoreSlice(h) \/ Commit(h) \/ Discard(h)
  BY DEF HandleCall, HandleStep, Quiet, Mapping

LEMMA QuietFrame == ASSUME NEW h \in Handles, Quiet(h) PROVE SameTables
<1> USE DEF SameTables, SameRest, tables, unchangedByHandle
<1>1. LoadVersion(h) => SameTables
  BY DEF LoadVersion
<1>2. LoadRows(h) => SameTables
  BY DEF LoadRows
<1>3. FailOpen(h) => SameTables
  BY DEF FailOpen
<1>4. WriteSlice(h) => SameTables
  BY DEF WriteSlice
<1>5. TrimSlice(h) => SameTables
  BY DEF TrimSlice
<1>6. CloseReader(h) => SameTables
  BY DEF CloseReader
<1>7. ASSUME NEW off, NEW p, WriteAt(h, off, p) PROVE SameTables
  BY <1>7 DEF WriteAt
<1>8. ASSUME NEW kind, FlushActive(h, kind) PROVE SameTables
  BY <1>8 DEF FlushActive
<1> HIDE DEF SameTables, SameRest, tables, unchangedByHandle
<1> QED
  BY <1>1, <1>2, <1>3, <1>4, <1>5, <1>6, <1>7, <1>8 DEF Quiet

LEMMA MappingFrame ==
    ASSUME NEW h \in Handles, Mapping(h)
    PROVE  /\ inode' = inode /\ vrow' = vrow /\ nextVer' = nextVer
           /\ chunk' = chunk /\ text' = text /\ SameRest
<1> DEFINE G == /\ inode' = inode /\ vrow' = vrow /\ nextVer' = nextVer
                /\ chunk' = chunk /\ text' = text /\ SameRest
<1> USE DEF SameRest, unchangedByHandle
<1>1. InheritRows(h) => G
  BY DEF InheritRows
<1>2. DropSlice(h) => G
  BY DEF DropSlice
<1>3. PutRow(h) => G
  BY DEF PutRow
<1>4. ASSUME NEW n, Truncate(h, n) PROVE G
  BY <1>4 DEF Truncate
<1> HIDE DEF SameRest, unchangedByHandle
<1> QED
  BY <1>1, <1>2, <1>3, <1>4 DEF Mapping

LEMMA OtherFrames ==
    ASSUME NEW h \in Handles
    PROVE  /\ \A i \in Inodes, w \in BOOLEAN : Open(h, i, w) =>
                /\ vrow' = vrow /\ vchunk' = vchunk /\ nextVer' = nextVer
                /\ chunk' = chunk /\ text' = text /\ SameRest
           /\ NewVersion(h) =>
                inode' = inode /\ vchunk' = vchunk /\ chunk' = chunk /\ text' = text /\ SameRest
           /\ StoreSlice(h) =>
                /\ inode' = inode /\ vrow' = vrow /\ vchunk' = vchunk /\ nextVer' = nextVer
                /\ text' = text /\ SameRest
           /\ Commit(h) => vchunk' = vchunk /\ nextVer' = nextVer /\ chunk' = chunk /\ SameRest
           /\ Discard(h) =>
                /\ inode' = inode /\ vchunk' = vchunk /\ nextVer' = nextVer
                /\ chunk' = chunk /\ text' = text /\ SameRest
<1> USE DEF SameRest, unchangedByHandle, tables
<1>1. ASSUME NEW i \in Inodes, NEW w \in BOOLEAN, Open(h, i, w)
      PROVE  /\ vrow' = vrow /\ vchunk' = vchunk /\ nextVer' = nextVer
             /\ chunk' = chunk /\ text' = text /\ SameRest
  BY <1>1 DEF Open
<1>2. NewVersion(h) =>
        inode' = inode /\ vchunk' = vchunk /\ chunk' = chunk /\ text' = text /\ SameRest
  BY DEF NewVersion
<1>3. StoreSlice(h) =>
        /\ inode' = inode /\ vrow' = vrow /\ vchunk' = vchunk /\ nextVer' = nextVer
        /\ text' = text /\ SameRest
  BY DEF StoreSlice
<1>4. Commit(h) => vchunk' = vchunk /\ nextVer' = nextVer /\ chunk' = chunk /\ SameRest
  BY DEF Commit
<1>5. Discard(h) =>
        /\ inode' = inode /\ vchunk' = vchunk /\ nextVer' = nextVer
        /\ chunk' = chunk /\ text' = text /\ SameRest
  BY DEF Discard
<1> HIDE DEF SameRest, unchangedByHandle, tables
<1> QED
  BY <1>1, <1>2, <1>3, <1>4, <1>5

(* Every step of a handle replaces its record.                             *)
LEMMA HandleBecomes ==
    ASSUME NEW h \in Handles, HandleCall(h) \/ HandleStep(h)
    PROVE  \E x : Become(h, x)
<1>1. ASSUME NEW i \in Inodes, NEW w \in BOOLEAN, Open(h, i, w) PROVE \E x : Become(h, x)
  BY <1>1 DEF Open
<1>2. LoadVersion(h) => \E x : Become(h, x)
  BY DEF LoadVersion
<1>3. LoadRows(h) => \E x : Become(h, x)
  BY DEF LoadRows
<1>4. NewVersion(h) => \E x : Become(h, x)
  BY DEF NewVersion
<1>5. InheritRows(h) => \E x : Become(h, x)
  BY DEF InheritRows
<1>6. FailOpen(h) \/ CloseReader(h) \/ Commit(h) \/ Discard(h) => \E x : Become(h, x)
  BY DEF FailOpen, CloseReader, Commit, Discard
<1>7. ASSUME NEW off, NEW p, WriteAt(h, off, p) PROVE \E x : Become(h, x)
  BY <1>7 DEF WriteAt
<1>8. WriteSlice(h) => \E x : Become(h, x)
  BY DEF WriteSlice
<1>9. DropSlice(h) => \E x : Become(h, x)
  BY DEF DropSlice
<1>10. StoreSlice(h) => \E x : Become(h, x)
  BY DEF StoreSlice
<1>11. PutRow(h) => \E x : Become(h, x)
  BY DEF PutRow
<1>12. ASSUME NEW n, Truncate(h, n) PROVE \E x : Become(h, x)
  BY <1>12 DEF Truncate
<1>13. TrimSlice(h) => \E x : Become(h, x)
  BY DEF TrimSlice
<1>14. ASSUME NEW kind, FlushActive(h, kind) PROVE \E x : Become(h, x)
  BY <1>14 DEF FlushActive
<1> QED
  BY <1>1, <1>2, <1>3, <1>4, <1>5, <1>6, <1>7, <1>8, <1>9, <1>10, <1>11, <1>12, <1>13, <1>14
     DEF HandleCall, HandleStep
-----------------------------------------------------------------------------
(* Types are kept.                                                         *)
Tables ==
    /\ inode \in [Inodes -> [state : {"absent", "live", "deleted", "gone"}, ver : 0..MaxVersion]]
    /\ vrow \in [Version -> [inode : Inodes, size : 0..MaxSize] \cup {Nil}]
    /\ vchunk \in [Version \X Idx -> Chunks \cup {Nil}]
    /\ nextVer \in 1..(MaxVersion + 1)
    /\ chunk \in [Chunks -> Seq(Nat) \cup {Nil}]
    /\ \A c \in Chunks : chunk[c] # Nil => Len(chunk[c]) \in 1..SliceSize
    /\ purging \subseteq Inodes /\ restoring \subseteq Version \X Inodes
    /\ text \in [Version -> Text \cup {Nil}]
    /\ crashes \in 0..MaxCrash
HandlesFit == fh \in [Handles -> Handle] /\ \A h \in Handles : HandleShape(fh[h])

LEMMA TypedParts == (Typed <=> Tables /\ HandlesFit) /\ (Typed' <=> Tables' /\ HandlesFit')
<1>1. Typed <=> Tables /\ HandlesFit
  BY Zenon DEF Typed, Tables, HandlesFit
<1>2. Typed' <=> Tables' /\ HandlesFit'
  BY Zenon DEF Typed, Tables, HandlesFit
<1> QED
  BY <1>1, <1>2

LEMMA HandleStepFits ==
    ASSUME Typed, NEW h \in Handles, HandleCall(h) \/ HandleStep(h)
    PROVE  /\ Fits(fh'[h]) /\ HandlesFit'
           /\ \A k \in Handles : k # h => fh'[k] = fh[k]
<1> DEFINE G == Fits(fh'[h]) /\ \A k \in Handles : k # h => fh'[k] = fh[k]
<1>1. ASSUME NEW i \in Inodes, NEW w \in BOOLEAN, Open(h, i, w) PROVE G
  BY <1>1, OpenMoves
<1>2. LoadVersion(h) => G
  BY LoadVersionMoves
<1>3. LoadRows(h) => G
  BY LoadRowsMoves
<1>4. NewVersion(h) => G
  BY NewVersionMoves
<1>5. InheritRows(h) => G
  BY InheritRowsMoves
<1>6. FailOpen(h) \/ CloseReader(h) \/ Commit(h) \/ Discard(h) => G
  BY CloseMoves
<1>7. ASSUME NEW off \in 0..(MaxSize - 1), NEW p \in Payloads, WriteAt(h, off, p) PROVE G
  BY <1>7, WriteAtMoves
<1>8. WriteSlice(h) => G
  BY WriteSliceMoves
<1>9. DropSlice(h) => G
  BY DropSliceMoves
<1>10. StoreSlice(h) => G
  BY StoreSliceMoves
<1>11. PutRow(h) => G
  BY PutRowMoves
<1>12. ASSUME NEW n \in 0..MaxSize, Truncate(h, n) PROVE G
  BY <1>12, TruncateMoves
<1>13. TrimSlice(h) => G
  BY TrimSliceMoves
<1>14. ASSUME NEW kind \in {"sync", "close"}, FlushActive(h, kind) PROVE G
  BY <1>14, FlushActiveMoves
<1> HIDE DEF G
<1>15. G
  BY <1>1, <1>2, <1>3, <1>4, <1>5, <1>6, <1>7, <1>8, <1>9, <1>10, <1>11, <1>12, <1>13, <1>14
     DEF HandleCall, HandleStep
<1>16. fh \in [Handles -> Handle] /\ \A k \in Handles : HandleShape(fh[k])
  BY DEF Typed
<1>17. PICK x : fh' = [fh EXCEPT ![h] = x]
  BY HandleBecomes DEF Become
<1>18. fh' = [k \in Handles |-> fh'[k]]
  BY <1>16, <1>17
<1>19. \A k \in Handles : fh'[k] \in Handle /\ HandleShape(fh'[k])
  BY <1>15, <1>16 DEF G, Fits
<1>20. fh' \in [Handles -> Handle]
  BY <1>18, <1>19
<1> QED
  BY <1>15, <1>19, <1>20 DEF G, HandlesFit

LEMMA ContentsTyped ==
    ASSUME Typed, NEW v \in Version
    PROVE  Contents(RowsOf(v)) \in [Idx -> Seq(Nat)]
<1> SUFFICES ASSUME NEW i \in Idx
             PROVE  (IF RowsOf(v)[i] = Nil \/ chunk[RowsOf(v)[i]] = Nil THEN <<>>
                     ELSE chunk[RowsOf(v)[i]]) \in Seq(Nat)
  BY DEF Contents
<1>1. RowsOf(v)[i] \in Chunks \cup {Nil}
  BY RowsTyped DEF Rows
<1>2. RowsOf(v)[i] # Nil => chunk[RowsOf(v)[i]] \in Seq(Nat) \cup {Nil}
  BY <1>1 DEF Typed
<1> QED
  BY <1>2, EmptySeq

LEMMA FlatBytes ==
    ASSUME NEW s \in [Idx -> Seq(Nat)], NEW n \in 0..MaxSize
    PROVE  /\ Flat(s, n) \in Seq(Nat) /\ Len(Flat(s, n)) = n
           /\ \A k \in Nat : k < n => Flat(s, n)[k + 1] = Byte(s[k \div SliceSize], k % SliceSize)
<1>1. n \in Nat /\ n <= MaxSize
  BY SizeFacts
<1>2. ASSUME NEW k \in 1..n PROVE Byte(s[(k - 1) \div SliceSize], (k - 1) % SliceSize) \in Nat
  <2>1. k - 1 \in Nat /\ k - 1 < MaxSize
    BY <1>1, SizeFacts
  <2>2. PICK i \in Idx, r \in Offsets :
            i = (k - 1) \div SliceSize /\ r = (k - 1) % SliceSize /\ k - 1 = i * SliceSize + r
    BY <2>1, Place
  <2>3. r \in Nat /\ s[i] \in Seq(Nat)
    BY IdxNat
  <2>4. Byte(s[i], r) \in Nat
    BY <2>3, ByteNat
  <2> QED
    BY <2>2, <2>4
<1>3. Flat(s, n) \in [1..n -> Nat]
  BY <1>2 DEF Flat
<1>4. Flat(s, n) \in Seq(Nat) /\ Len(Flat(s, n)) = n
  BY <1>1, <1>3, SeqOfLength
<1>5. ASSUME NEW k \in Nat, k < n PROVE Flat(s, n)[k + 1] = Byte(s[k \div SliceSize], k % SliceSize)
  <2>1. k + 1 \in 1..n /\ k + 1 - 1 = k
    BY <1>1, <1>5
  <2>2. Flat(s, n)[k + 1] = Byte(s[(k + 1 - 1) \div SliceSize], (k + 1 - 1) % SliceSize)
    BY <2>1 DEF Flat
  <2> QED
    BY <2>1, <2>2
<1> QED
  BY <1>4, <1>5

LEMMA HandleStepTables ==
    ASSUME Typed, NEW h \in Handles, HandleCall(h) \/ HandleStep(h)
    PROVE  Tables'
<1>0. Tables
  BY TypedParts
<1>1. CASE Quiet(h)
  <2>1. SameTables
    BY <1>1, QuietFrame
  <2> QED
    BY <1>0, <2>1 DEF SameTables, SameRest, Tables
<1>2. CASE Mapping(h)
  <2>1. /\ inode' = inode /\ vrow' = vrow /\ nextVer' = nextVer
        /\ chunk' = chunk /\ text' = text /\ SameRest
    BY <1>2, MappingFrame
  <2>2. vchunk \in [Version \X Idx -> Chunks \cup {Nil}]
    BY DEF Typed
  <2>3. ASSUME InheritRows(h) PROVE vchunk' \in [Version \X Idx -> Chunks \cup {Nil}]
    <3>1. fh[h].old \in Rows
      BY HandleFits DEF Fits, Handle
    <3>2. vchunk' = [y \in Version \X Idx |-> IF y[1] = fh[h].ver THEN fh[h].old[y[2]] ELSE vchunk[y]]
      BY <2>3 DEF InheritRows
    <3> QED
      BY <2>2, <3>1, <3>2 DEF Rows
  <2>4. ASSUME DropSlice(h) PROVE vchunk' \in [Version \X Idx -> Chunks \cup {Nil}]
    <3>1. vchunk' = [vchunk EXCEPT ![<<fh[h].ver, fh[h].out.idx>>] = Nil] \/ vchunk' = vchunk
      BY <2>4, DropSliceMoves
    <3> QED
      BY <2>2, <3>1
  <2>5. ASSUME PutRow(h) PROVE vchunk' \in [Version \X Idx -> Chunks \cup {Nil}]
    <3>1. vchunk' = [vchunk EXCEPT ![<<fh[h].ver, fh[h].out.idx>>] = fh[h].got] \/ vchunk' = vchunk
      BY <2>5, PutRowMoves
    <3>2. fh[h].got \in Chunks \cup {Nil}
      BY HandleFits DEF Fits, Handle
    <3> QED
      BY <2>2, <3>1, <3>2
  <2>6. ASSUME NEW n \in 0..MaxSize, Truncate(h, n) PROVE vchunk' \in [Version \X Idx -> Chunks \cup {Nil}]
    <3>1. \/ vchunk' = [x \in Version \X Idx |->
                            IF x[1] = fh[h].ver /\ x[2] >= Slices(n) THEN Nil ELSE vchunk[x]]
          \/ vchunk' = vchunk
      BY <2>6, TruncateMoves
    <3> QED
      BY <2>2, <3>1
  <2>7. vchunk' \in [Version \X Idx -> Chunks \cup {Nil}]
    BY <1>2, <2>3, <2>4, <2>5, <2>6 DEF Mapping
  <2> QED
    BY <1>0, <2>1, <2>7 DEF SameRest, Tables
<1>3. ASSUME NEW i \in Inodes, NEW w \in BOOLEAN, Open(h, i, w) PROVE Tables'
  <2>1. inode' \in [Inodes -> [state : {"absent", "live", "deleted", "gone"}, ver : 0..MaxVersion]]
    BY <1>3, OpenMoves
  <2>2. /\ vrow' = vrow /\ vchunk' = vchunk /\ nextVer' = nextVer
        /\ chunk' = chunk /\ text' = text /\ SameRest
    BY <1>3, OtherFrames
  <2> QED
    BY <1>0, <2>1, <2>2 DEF SameRest, Tables
<1>4. CASE NewVersion(h)
  <2>1. inode' = inode /\ vchunk' = vchunk /\ chunk' = chunk /\ text' = text /\ SameRest
    BY <1>4, OtherFrames
  <2>2. /\ nextVer \in Version /\ nextVer' = nextVer + 1 /\ fh[h].inode \in Inodes
        /\ vrow' = [vrow EXCEPT ![nextVer] = [inode |-> fh[h].inode, size |-> fh[h].size]]
    BY <1>4, NewVersionMoves
  <2>3. nextVer' \in 1..(MaxVersion + 1)
    BY <2>2, SizeFacts DEF Version
  <2>4. fh[h].size \in 0..MaxSize
    BY HandleFits DEF Fits, Handle
  <2>5. vrow' \in [Version -> [inode : Inodes, size : 0..MaxSize] \cup {Nil}]
    BY <2>2, <2>4 DEF Typed
  <2> QED
    BY <1>0, <2>1, <2>3, <2>5 DEF SameRest, Tables
<1>5. CASE StoreSlice(h)
  <2>1. /\ inode' = inode /\ vrow' = vrow /\ vchunk' = vchunk /\ nextVer' = nextVer
        /\ text' = text /\ SameRest
    BY <1>5, OtherFrames
  <2>2. \/ \E c \in Chunks : chunk' = [chunk EXCEPT ![c] = fh[h].out.data]
        \/ chunk' = chunk
    BY <1>5, StoreSliceMoves
  <2>3. fh[h].out.data \in Seq(Nat) /\ Len(fh[h].out.data) \in 1..SliceSize
    <3>1. Fits(fh[h]) /\ fh[h].pc = "flush"
      BY <1>5, HandleFits DEF StoreSlice
    <3> QED
      BY <3>1, WorkingFacts DEF Working, Putting
  <2>4. /\ chunk \in [Chunks -> Seq(Nat) \cup {Nil}]
        /\ \A c \in Chunks : chunk[c] # Nil => Len(chunk[c]) \in 1..SliceSize
    BY DEF Typed
  <2> DEFINE d == fh[h].out.data
  <2>5. d \in Seq(Nat) /\ Len(d) \in 1..SliceSize
    BY <2>3
  <2> HIDE DEF d
  <2>6. ASSUME NEW c \in Chunks, chunk' = [chunk EXCEPT ![c] = d]
        PROVE  /\ chunk' \in [Chunks -> Seq(Nat) \cup {Nil}]
               /\ \A b \in Chunks : chunk'[b] # Nil => Len(chunk'[b]) \in 1..SliceSize
    <3>1. chunk' \in [Chunks -> Seq(Nat) \cup {Nil}]
      BY <2>4, <2>5, <2>6
    <3>2. \A b \in Chunks : chunk'[b] = IF b = c THEN d ELSE chunk[b]
      BY <2>4, <2>6
    <3> QED
      BY <2>4, <2>5, <3>1, <3>2
  <2>7. /\ chunk' \in [Chunks -> Seq(Nat) \cup {Nil}]
        /\ \A b \in Chunks : chunk'[b] # Nil => Len(chunk'[b]) \in 1..SliceSize
    BY <2>2, <2>4, <2>6 DEF d
  <2> QED
    BY <1>0, <2>1, <2>7 DEF SameRest, Tables
<1>6. CASE Commit(h)
  <2>1. vchunk' = vchunk /\ nextVer' = nextVer /\ chunk' = chunk /\ SameRest
    BY <1>6, OtherFrames
  <2> DEFINE f == fh[h]
  <2>2. \/ /\ vrow' = [vrow EXCEPT ![f.ver] = IF @ = Nil THEN Nil ELSE [@ EXCEPT !.size = f.size]]
           /\ inode' = [inode EXCEPT ![f.inode].ver = IF inode[f.inode].state = "gone" THEN @
                                                      ELSE f.ver]
           /\ text' = [text EXCEPT ![f.ver] = Promised(f)]
        \/ vrow' = vrow /\ inode' = inode /\ text' = text
    BY <1>6 DEF Commit
  <2>3. f.ver \in Version /\ f.ver \in 0..MaxVersion /\ f.size \in 0..MaxSize /\ f.inode \in Inodes
    BY <1>6, CloseMoves, HandleFits DEF Fits, Handle, Commit
  <2>4. Promised(f) \in Text
    <3>1. f.view \in Seq(Nat) /\ f.sure \in BOOLEAN
      BY HandleFits DEF Fits, Handle
    <3>2. Flat(Contents(RowsOf(f.ver)), f.size) \in Seq(Nat)
      <4>1. Contents(RowsOf(f.ver)) \in [Idx -> Seq(Nat)]
        BY <2>3, ContentsTyped
      <4> QED
        BY <2>3, <4>1, FlatBytes
    <3> QED
      BY <3>1, <3>2 DEF Promised, Text
  <2> DEFINE q == Promised(f)
  <2>5. inode' \in [Inodes -> [state : {"absent", "live", "deleted", "gone"}, ver : 0..MaxVersion]]
    <3>1. inode \in [Inodes -> [state : {"absent", "live", "deleted", "gone"}, ver : 0..MaxVersion]]
      BY DEF Typed
    <3>2. f.inode \in Inodes /\ f.ver \in 0..MaxVersion
      BY <2>3
    <3>3. \/ inode' = [inode EXCEPT ![f.inode].ver = IF inode[f.inode].state = "gone" THEN @ ELSE f.ver]
          \/ inode' = inode
      BY <2>2
    <3> DEFINE i == f.inode
               w == IF inode[i].state = "gone" THEN inode[i].ver ELSE f.ver
    <3>4. i \in Inodes /\ w \in 0..MaxVersion
      BY <3>1, <3>2
    <3>5. inode' = [inode EXCEPT ![i] = [inode[i] EXCEPT !.ver = w]] \/ inode' = inode
      BY <3>1, <3>2, <3>3
    <3> HIDE DEF w, i
    <3>6. [inode[i] EXCEPT !.ver = w] \in [state : {"absent", "live", "deleted", "gone"}, ver : 0..MaxVersion]
      BY <3>1, <3>4
    <3> QED
      BY <3>1, <3>4, <3>5, <3>6
  <2>6. vrow' \in [Version -> [inode : Inodes, size : 0..MaxSize] \cup {Nil}]
    <3>1. vrow \in [Version -> [inode : Inodes, size : 0..MaxSize] \cup {Nil}]
      BY DEF Typed
    <3> QED
      BY <2>2, <2>3, <3>1
  <2> HIDE DEF q
  <2>7. text' \in [Version -> Text \cup {Nil}]
    <3>1. text' = [text EXCEPT ![f.ver] = q] \/ text' = text
      BY <2>2 DEF q
    <3>2. q \in Text
      BY <2>4 DEF q
    <3> QED
      BY <2>3, <3>1, <3>2 DEF Typed
  <2> QED
    BY <1>0, <2>1, <2>5, <2>6, <2>7 DEF SameRest, Tables
<1>7. CASE Discard(h)
  <2>1. /\ inode' = inode /\ vchunk' = vchunk /\ nextVer' = nextVer
        /\ chunk' = chunk /\ text' = text /\ SameRest
    BY <1>7, OtherFrames
  <2>2. vrow' = [vrow EXCEPT ![fh[h].ver] = Nil] \/ vrow' = vrow
    BY <1>7 DEF Discard
  <2>3. vrow' \in [Version -> [inode : Inodes, size : 0..MaxSize] \cup {Nil}]
    BY <2>2 DEF Typed
  <2> QED
    BY <1>0, <2>1, <2>3 DEF SameRest, Tables
<1> QED
  BY <1>1, <1>2, <1>3, <1>4, <1>5, <1>6, <1>7, HandleActions

(* The steps that are not a handle's.                                      *)
Retention ==
    \/ \E i \in Inodes : markDeleted(i) \/ Restore(i) \/ deletedInode(i) \/ purgeInode(i) \/ trimVersions(i)
    \/ \E v \in Version : FindVersion(v)
    \/ \E r \in restoring : RestoreVersion(r[1], r[2])
    \/ \E c \in Chunks : GarbageCollect(c)

LEMMA NextCases ==
    ASSUME Next
    PROVE  (\E h \in Handles : HandleCall(h) \/ HandleStep(h)) \/ Retention \/ Crash
  BY DEF Next, Retention

LEMMA DropTyped ==
    ASSUME Tables, NEW D, DropVersions(D)
    PROVE  /\ vrow' \in [Version -> [inode : Inodes, size : 0..MaxSize] \cup {Nil}]
           /\ vchunk' \in [Version \X Idx -> Chunks \cup {Nil}]
           /\ chunk' \in [Chunks -> Seq(Nat) \cup {Nil}]
           /\ \A c \in Chunks : chunk'[c] # Nil => Len(chunk'[c]) \in 1..SliceSize
           /\ text' \in [Version -> Text \cup {Nil}]
<1>1. vrow' \in [Version -> [inode : Inodes, size : 0..MaxSize] \cup {Nil}]
  <2>1. vrow' = [v \in Version |-> IF v \in D THEN Nil ELSE vrow[v]]
    BY DEF DropVersions
  <2>2. vrow \in [Version -> [inode : Inodes, size : 0..MaxSize] \cup {Nil}]
    BY DEF Tables
  <2> QED
    BY <2>1, <2>2
<1>2. vchunk' \in [Version \X Idx -> Chunks \cup {Nil}]
  <2>1. vchunk' = [y \in Version \X Idx |-> IF y[1] \in D THEN Nil ELSE vchunk[y]]
    BY DEF DropVersions
  <2>2. vchunk \in [Version \X Idx -> Chunks \cup {Nil}]
    BY DEF Tables
  <2> QED
    BY <2>1, <2>2
<1>3. text' \in [Version -> Text \cup {Nil}]
  <2>1. text' = [v \in Version |-> IF v \in D THEN Nil ELSE text[v]]
    BY DEF DropVersions
  <2>2. text \in [Version -> Text \cup {Nil}]
    BY DEF Tables
  <2> QED
    BY <2>1, <2>2
<1>4. chunk' \in [Chunks -> Seq(Nat) \cup {Nil}]
      /\ \A c \in Chunks : chunk'[c] # Nil => Len(chunk'[c]) \in 1..SliceSize
  <2> DEFINE S == {c \in Chunks : /\ \E v \in D, x \in Idx : vchunk[v, x] = c
                                  /\ \A v \in Version \ D, x \in Idx : vchunk[v, x] # c}
  <2>1. chunk' = [c \in Chunks |-> IF c \in S THEN Nil ELSE chunk[c]]
    BY DEF DropVersions
  <2>2. chunk \in [Chunks -> Seq(Nat) \cup {Nil}]
        /\ \A c \in Chunks : chunk[c] # Nil => Len(chunk[c]) \in 1..SliceSize
    BY DEF Tables
  <2> HIDE DEF S
  <2>3. \A c \in Chunks : chunk'[c] = IF c \in S THEN Nil ELSE chunk[c]
    BY <2>1
  <2>4. chunk' \in [Chunks -> Seq(Nat) \cup {Nil}]
    BY <2>1, <2>2
  <2> QED
    BY <2>2, <2>3, <2>4
<1> QED
  BY <1>1, <1>2, <1>3, <1>4

LEMMA RetentionTyped == ASSUME Typed, Retention PROVE Typed'
<1>0. Tables /\ HandlesFit
  BY TypedParts
<1> DEFINE T == [state : {"absent", "live", "deleted", "gone"}, ver : 0..MaxVersion]
<1>1. inode \in [Inodes -> T]
  BY <1>0 DEF Tables
<1>2. ASSUME NEW i \in Inodes, markDeleted(i) \/ Restore(i) PROVE Tables' /\ fh' = fh
  <2>1. /\ vrow' = vrow /\ vchunk' = vchunk /\ nextVer' = nextVer /\ chunk' = chunk
        /\ fh' = fh /\ purging' = purging /\ restoring' = restoring /\ text' = text /\ crashes' = crashes
    BY <1>2 DEF markDeleted, Restore
  <2>2. inode' = [inode EXCEPT ![i].state = "deleted"] \/ inode' = [inode EXCEPT ![i].state = "live"]
    BY <1>2 DEF markDeleted, Restore
  <2>3. inode' \in [Inodes -> T]
    BY <1>1, <2>2
  <2> QED
    BY <1>0, <2>1, <2>3 DEF Tables
<1>3. ASSUME NEW i \in Inodes, deletedInode(i) PROVE Tables' /\ fh' = fh
  <2>1. /\ inode' = inode /\ vrow' = vrow /\ vchunk' = vchunk /\ nextVer' = nextVer /\ chunk' = chunk
        /\ fh' = fh /\ restoring' = restoring /\ text' = text /\ crashes' = crashes
    BY <1>3 DEF deletedInode, tables
  <2>2. purging' \subseteq Inodes
    BY <1>0, <1>3 DEF deletedInode, Tables
  <2> QED
    BY <1>0, <2>1, <2>2 DEF Tables
<1>4. ASSUME NEW i \in Inodes, purgeInode(i) PROVE Tables' /\ fh' = fh
  <2>1. /\ nextVer' = nextVer /\ fh' = fh /\ restoring' = restoring /\ crashes' = crashes
    BY <1>4 DEF purgeInode
  <2>2. purging' \subseteq Inodes
    BY <1>0, <1>4 DEF purgeInode, Tables
  <2>3. inode' \in [Inodes -> T]
    <3>1. inode' = [inode EXCEPT ![i].state = "gone"]
      BY <1>4 DEF purgeInode
    <3> QED
      BY <1>1, <3>1
  <2>4. DropVersions(VersionsOf(i))
    BY <1>4 DEF purgeInode
  <2> HIDE DEF T
  <2> QED
    BY <1>0, <2>1, <2>2, <2>3, <2>4, DropTyped DEF Tables, T
<1>5. ASSUME NEW i \in Inodes, trimVersions(i) PROVE Tables' /\ fh' = fh
  <2>1. /\ inode' = inode /\ nextVer' = nextVer /\ fh' = fh /\ purging' = purging
        /\ restoring' = restoring /\ crashes' = crashes
    BY <1>5 DEF trimVersions
  <2>2. \E D : DropVersions(D)
    BY <1>5 DEF trimVersions
  <2> QED
    BY <1>0, <2>1, <2>2, DropTyped DEF Tables
<1>6. ASSUME NEW v \in Version, FindVersion(v) PROVE Tables' /\ fh' = fh
  <2>1. /\ inode' = inode /\ vrow' = vrow /\ vchunk' = vchunk /\ nextVer' = nextVer /\ chunk' = chunk
        /\ fh' = fh /\ purging' = purging /\ text' = text /\ crashes' = crashes
    BY <1>6 DEF FindVersion, tables
  <2>2. vrow[v] # Nil /\ restoring' = {<<v, vrow[v].inode>>}
    BY <1>6 DEF FindVersion
  <2>3. vrow[v].inode \in Inodes
    BY <1>0, <2>2 DEF Tables
  <2>4. restoring' \subseteq Version \X Inodes
    BY <2>2, <2>3
  <2> QED
    BY <1>0, <2>1, <2>4 DEF Tables
<1>7. ASSUME NEW r \in restoring, RestoreVersion(r[1], r[2]) PROVE Tables' /\ fh' = fh
  <2>1. /\ vrow' = vrow /\ vchunk' = vchunk /\ nextVer' = nextVer /\ chunk' = chunk
        /\ fh' = fh /\ purging' = purging /\ text' = text /\ crashes' = crashes
    BY <1>7 DEF RestoreVersion
  <2>2. r \in Version \X Inodes
    BY <1>0 DEF Tables
  <2> DEFINE v == r[1]
             i == r[2]
  <2>3. v \in Version /\ i \in Inodes
    BY <2>2
  <2>4. v \in 0..MaxVersion
    BY <2>3, SizeFacts DEF Version
  <2>5. /\ inode' = [inode EXCEPT ![i].ver = IF inode[i].state = "gone" THEN @ ELSE v]
        /\ restoring' = restoring \ {<<v, i>>}
    BY <1>7 DEF RestoreVersion
  <2> HIDE DEF v, i
  <2> DEFINE w == IF inode[i].state = "gone" THEN inode[i].ver ELSE v
  <2>6. w \in 0..MaxVersion
    BY <1>1, <2>3, <2>4
  <2>7. inode' = [inode EXCEPT ![i] = [inode[i] EXCEPT !.ver = w]]
    BY <1>1, <2>3, <2>5
  <2> HIDE DEF w
  <2>8. inode' \in [Inodes -> T]
    BY <1>1, <2>3, <2>6, <2>7
  <2>9. restoring' \subseteq Version \X Inodes
    BY <1>0, <2>5 DEF Tables
  <2> QED
    BY <1>0, <2>1, <2>8, <2>9 DEF Tables
<1>8. ASSUME NEW c \in Chunks, GarbageCollect(c) PROVE Tables' /\ fh' = fh
  <2>1. /\ inode' = inode /\ vrow' = vrow /\ vchunk' = vchunk /\ nextVer' = nextVer
        /\ fh' = fh /\ purging' = purging /\ restoring' = restoring /\ text' = text /\ crashes' = crashes
    BY <1>8 DEF GarbageCollect, tables
  <2>2. chunk' = [chunk EXCEPT ![c] = Nil]
    BY <1>8 DEF GarbageCollect
  <2>3. chunk \in [Chunks -> Seq(Nat) \cup {Nil}]
        /\ \A b \in Chunks : chunk[b] # Nil => Len(chunk[b]) \in 1..SliceSize
    BY <1>0 DEF Tables
  <2>4. chunk' \in [Chunks -> Seq(Nat) \cup {Nil}]
        /\ \A b \in Chunks : chunk'[b] # Nil => Len(chunk'[b]) \in 1..SliceSize
    BY <2>2, <2>3
  <2> QED
    BY <1>0, <2>1, <2>4 DEF Tables
<1>9. Tables' /\ fh' = fh
  BY <1>2, <1>3, <1>4, <1>5, <1>6, <1>7, <1>8 DEF Retention
<1> QED
  BY <1>0, <1>9, TypedParts DEF HandlesFit

LEMMA TypedInit == ASSUME Init PROVE Typed
<1>1. Tables
  <2>1. /\ 0 \in 0..MaxVersion /\ 1 \in 1..(MaxVersion + 1) /\ 0 \in 0..MaxCrash
    BY FileAssumption
  <2> QED
    BY <2>1 DEF Init, Tables
<1>2. HandlesFit
  BY ClosedTyped DEF Init, HandlesFit
<1> QED
  BY <1>1, <1>2, TypedParts

LEMMA TypedStep == ASSUME Typed, [Next]_vars PROVE Typed'
<1>1. ASSUME NEW h \in Handles, HandleCall(h) \/ HandleStep(h) PROVE Typed'
  <2>1. Tables'
    BY <1>1, HandleStepTables
  <2>2. HandlesFit'
    BY <1>1, HandleStepFits
  <2> QED
    BY <2>1, <2>2, TypedParts
<1>2. CASE Retention
  BY <1>2, RetentionTyped
<1>3. CASE Crash
  <2>1. Tables /\ HandlesFit
    BY TypedParts
  <2>2. /\ inode' = inode /\ vrow' = vrow /\ vchunk' = vchunk /\ nextVer' = nextVer /\ chunk' = chunk
        /\ text' = text /\ purging' = {} /\ restoring' = {}
    BY <1>3 DEF Crash, tables
  <2>3. fh' = [h \in Handles |-> Closed]
    BY <1>3 DEF Crash
  <2>4. crashes' \in 0..MaxCrash
    <3>1. crashes' = crashes + 1 /\ crashes < MaxCrash /\ crashes \in 0..MaxCrash /\ MaxCrash \in Nat
      BY <1>3, <2>1, FileAssumption DEF Crash, Tables
    <3> QED
      BY <3>1
  <2>5. HandlesFit'
    BY <2>3, ClosedTyped DEF HandlesFit
  <2>6. Tables'
    BY <2>1, <2>2, <2>4 DEF Tables
  <2> QED
    BY <2>5, <2>6, TypedParts
<1>4. CASE UNCHANGED vars
  <2>1. Tables /\ HandlesFit
    BY TypedParts
  <2>2. /\ inode' = inode /\ vrow' = vrow /\ vchunk' = vchunk /\ nextVer' = nextVer /\ chunk' = chunk
        /\ text' = text /\ purging' = purging /\ restoring' = restoring /\ crashes' = crashes
        /\ fh' = fh
    BY <1>4 DEF vars, tables
  <2> QED
    BY <2>1, <2>2, TypedParts DEF Tables, HandlesFit
<1> QED
  BY <1>1, <1>2, <1>3, <1>4, NextCases

(* Every row, chunk and handle keeps its shape, whatever overlaps.         *)
THEOREM FilesTypeCorrect == Spec => []TypeOK
<1>1. ASSUME Typed PROVE TypeOK
  <2>1. \A i \in Inodes : inode[i].state \in {"absent", "live", "deleted", "gone"}
                          /\ inode[i].ver \in 0..MaxVersion
    BY <1>1 DEF Typed
  <2>2. \A v \in Version : vrow[v] # Nil => vrow[v].inode \in Inodes /\ vrow[v].size \in 0..MaxSize
    BY <1>1 DEF Typed
  <2>3. \A v \in Version, i \in Idx : vchunk[v, i] \in Chunks \cup {Nil}
    BY <1>1, RowsTyped DEF Rows
  <2>4. ASSUME NEW h \in Handles
        PROVE  /\ fh[h].pc \in Pc /\ fh[h].calls \in 0..MaxCalls /\ fh[h].size \in 0..MaxSize
               /\ Len(fh[h].buf) \in 0..SliceSize
               /\ fh[h].pc # "closed" => fh[h].inode \in Inodes
               /\ fh[h].pc \in {"flush", "store"} => fh[h].out.idx \in Idx
    <3>1. fh[h] \in Handle /\ HandleShape(fh[h])
      BY <1>1, HandleFits DEF Fits
    <3>2. fh[h].pc \in Pc /\ fh[h].calls \in 0..MaxCalls /\ fh[h].size \in 0..MaxSize
      BY <3>1 DEF Handle
    <3>3. /\ fh[h].pc # "closed" => fh[h].inode \in Inodes
          /\ fh[h].pc \in {"flush", "store"} => fh[h].out \in [idx : Idx, data : Seq(Nat)]
          /\ fh[h].act = Nil => fh[h].buf = <<>>
          /\ fh[h].act # Nil => Len(fh[h].buf) \in 1..SliceSize
      BY <3>1 DEF HandleShape, Putting
    <3>4. fh[h].act = Nil => Len(fh[h].buf) \in 0..SliceSize
      <4>1. fh[h].act = Nil => Len(fh[h].buf) = 0
        BY <3>3, EmptySeq
      <4> QED
        BY <4>1, SizeFacts
    <3>5. fh[h].act # Nil => Len(fh[h].buf) \in 0..SliceSize
      BY <3>3
    <3> QED
      BY <3>2, <3>3, <3>4, <3>5
  <2>5. nextVer \in 1..(MaxVersion + 1)
    BY <1>1 DEF Typed
  <2>6. \A c \in Chunks : chunk[c] # Nil => Len(chunk[c]) \in 1..SliceSize
    BY <1>1 DEF Typed
  <2>7. purging \subseteq Inodes /\ restoring \subseteq Version \X Inodes /\ crashes \in 0..MaxCrash
    BY <1>1 DEF Typed
  <2> QED
    BY <2>1, <2>2, <2>3, <2>4, <2>5, <2>6, <2>7 DEF TypeOK
<1> QED
  BY <1>1, TypedInit, TypedStep, PTL DEF Spec
=============================================================================
