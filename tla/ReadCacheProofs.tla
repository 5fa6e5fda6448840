--------------------------- MODULE ReadCacheProofs ---------------------------
(***************************************************************************)
(* Theorems about ReadCache, for every value of its constants.             *)
(***************************************************************************)
EXTENDS ReadCache, FiniteSetTheorems, WellFoundedInduction, TLAPS

(* Every variable has its type; only a row with a copy has a path.         *)
ReaderPc    == {"idle", "load", "read", "failed", "update", "insert", "bump", "copy", "save"}
ReaderState == [pc : ReaderPc, chunk : Chunks \cup {0}, gen : Nat, disks : SUBSET Disks,
                entry : Row \cup {Nil}, data : Values \cup {Nil}, disk : Disks \cup {0},
                path : 0..MaxPath, sure : BOOLEAN]
WriterState == [pc : {"idle", "drop", "write"}, chunk : Chunks \cup {0}, files : SUBSET Path]
GoneState   == [pc : {"idle", "files", "rows"}, disk : Disks \cup {0}, files : SUBSET Path]

TablesTyped ==
    /\ cdisk \subseteq Disks
    /\ src \in [Chunks -> Values \cup {Nil}] /\ gen \in [Chunks -> Nat]
    /\ cache \in [Chunks -> Row \cup {Nil}]
    /\ copy \in [Path -> Copy \cup {Nil}] /\ junk \subseteq Path
    /\ rows \in 0..MaxRow /\ writes \in 0..MaxWrite
ReadersTyped ==
    /\ rd \in [Readers -> ReaderState]
    /\ \A r \in Readers :
        /\ rd[r].pc # "idle" => rd[r].chunk \in Chunks
        /\ rd[r].pc \in {"update", "copy"} => rd[r].data \in Values
        /\ rd[r].pc \in {"insert", "copy", "save"} => rd[r].disk \in Disks
        /\ rd[r].pc \in {"copy", "save"} => Hot(rd[r].entry)
        /\ rd[r].pc = "save" => rd[r].path \in Path
OthersTyped ==
    /\ wr \in WriterState /\ (wr.pc # "idle" => wr.chunk \in Chunks)
    /\ gone \in GoneState
    /\ cold # Nil => cold \subseteq Row
RowsShaped ==
    LET shaped(e) == e.cached <=> e.path # 0 IN
    /\ \A c \in Chunks : cache[c] # Nil => shaped(cache[c])
    /\ \A r \in Readers : rd[r].entry # Nil => shaped(rd[r].entry)
    /\ cold # Nil => \A e \in cold : shaped(e)
Typed == TablesTyped /\ ReadersTyped /\ OthersTyped /\ RowsShaped
-----------------------------------------------------------------------------
(* NoStaleHit is not inductive: whether the row a reader saves is current  *)
(* depends on what the reader has read, and whether a write ends with the  *)
(* row gone on what it found.                                              *)
Makes(x) == x.pc \in {"read", "update", "copy", "save"} /\ Hot(x.entry)
MakesCurrent(x) == Makes(x) =>
    /\ x.pc \in {"update", "copy"} => x.data = src[x.chunk]
    /\ x.pc = "save" =>
        /\ src[x.chunk] # Nil
        /\ copy[x.path] # Nil => copy[x.path].data = src[x.chunk]
SureCurrent(x) == x.sure /\ x.pc # "idle" =>
    /\ ~Writing(x.chunk)
    /\ x.pc \in {"load", "read"} => x.gen = gen[x.chunk]
    /\ x.pc = "read" /\ Hit(x.entry) /\ copy[x.entry.path] # Nil =>
            copy[x.entry.path].data = src[x.chunk]
    /\ x.pc \in {"update", "failed"} => x.data = src[x.chunk]
ReadersCurrent == \A r \in Readers : MakesCurrent(rd[r]) /\ SureCurrent(rd[r])
DroppedFirst ==
    /\ wr.pc = "write" => ~Hit(cache[wr.chunk])
    /\ \A c \in Chunks : src[c] = Nil => ~Hit(cache[c])
PromoteAllowed == \A r \in Readers : Promoting(r) => ~Writing(rd[r].chunk)
FreshInv == Typed /\ PromoteAllowed /\ NoStaleHit /\ DroppedFirst /\ ReadersCurrent

DiskAllowed == \A r \in Readers : rd[r].pc \in {"copy", "save"} => rd[r].disk \in cdisk
ReachInv == Typed /\ DiskAllowed /\ CopiesReachable

(* The ids of rows name them: a row that was read under an id and is still *)
(* there is the same row, but for its count.                               *)
RowAllowed == \A r \in Readers : Promoting(r) =>
            /\ \A q \in Readers \ {r} : ~(Promoting(q) /\ rd[q].chunk = rd[r].chunk)
            /\ cache[rd[r].chunk] # Nil /\ cache[rd[r].chunk].id = rd[r].entry.id
            /\ cold # Nil => \A e \in cold : e.id # rd[r].entry.id
IdsGiven ==
    /\ \A c \in Chunks : cache[c] # Nil => cache[c].id <= rows
    /\ \A c, d \in Chunks : cache[c] # Nil /\ cache[d] # Nil /\ c # d => cache[c].id # cache[d].id
    /\ cold # Nil => \A e \in cold : e.id <= rows
ColdSame ==
    cold # Nil => \A e \in cold, c \in Chunks :
        cache[c] # Nil /\ cache[c].id = e.id => FileOf(e) = FileOf(cache[c])
PromotesUncached == \A r \in Readers : Promoting(r) => ~Hit(cache[rd[r].chunk])
IdleNoFiles ==
    /\ wr.pc = "idle" => wr.files = {}
    /\ gone.pc = "idle" => gone.files = {}
DropsAll ==
    /\ wr.pc = "drop" => FileOf(cache[wr.chunk]) \subseteq wr.files
    /\ wr.pc = "write" => \A p \in wr.files : p \in junk \/ copy[p] = Nil
DiskCopies ==
    /\ \A c \in Chunks : Hit(cache[c]) /\ copy[cache[c].path] # Nil =>
            copy[cache[c].path].disk = cache[c].disk
    /\ \A r \in Readers : rd[r].pc = "save" /\ copy[rd[r].path] # Nil =>
            copy[rd[r].path].disk = rd[r].disk
    /\ gone.pc = "rows" => \A p \in gone.files : copy[p] = Nil
Accounts ==
    IdsGiven /\ ColdSame /\ PromotesUncached /\ IdleNoFiles /\ DropsAll /\ DiskCopies /\ CopiesAccounted
AccountInv == Typed /\ PromoteAllowed /\ RowAllowed /\ Accounts
-----------------------------------------------------------------------------
(* Facts about the constants and the helpers.                              *)
LEMMA ConstantFacts ==
    /\ Chunks \subseteq Nat /\ Disks \subseteq Nat /\ Threshold \in Nat
    /\ MaxRow \in Nat /\ MaxPath \in Nat /\ MaxWrite \in Nat
    /\ Nil \notin Values /\ Nil \notin Row /\ Nil \notin Copy
  BY CacheAssumption, SentinelAssumption

(* pickCacheDisk finds a disk for every chunk: numbering the disks by how  *)
(* many are smaller is one to one, so each number below their count is     *)
(* taken.                                                                  *)
LEMMA OrderedFinds ==
    ASSUME NEW D \in SUBSET Disks, NEW n \in 0..(Cardinality(D) - 1)
    PROVE  Ordered(n, D) \in D
<1> DEFINE below(d) == {e \in D : e < d}
           rank == [d \in D |-> Cardinality(below(d))]
           N == 0..(Cardinality(D) - 1)
<1>1. IsFiniteSet(D) /\ D \subseteq Nat
  BY CacheAssumption, FS_Subset
<1>2. Cardinality(D) \in Nat
  BY <1>1, FS_CardinalityType
<1>3. ASSUME NEW d \in D
      PROVE  IsFiniteSet(below(d)) /\ rank[d] \in N
  <2>1. below(d) \subseteq D \ {d}
    BY <1>1
  <2>2. IsFiniteSet(D \ {d}) /\ Cardinality(D \ {d}) = Cardinality(D) - 1
    BY <1>1, FS_RemoveElement
  <2>3. IsFiniteSet(below(d)) /\ Cardinality(below(d)) <= Cardinality(D) - 1
    BY <2>1, <2>2, FS_Subset
  <2>4. Cardinality(below(d)) \in Nat
    BY <2>3, FS_CardinalityType
  <2> QED
    BY <1>2, <2>3, <2>4
<1>4. ASSUME NEW d \in D, NEW e \in D, d < e
      PROVE  rank[d] # rank[e]
  <2>1. below(d) \subseteq below(e) /\ d \in below(e) /\ d \notin below(d)
    <3>1. ASSUME NEW x \in below(d)
          PROVE  x \in below(e)
      <4>1. x \in Nat /\ d \in Nat /\ e \in Nat /\ x < d
        BY <1>1, <3>1
      <4> QED
        BY <1>4, <4>1
    <3>2. d \in below(e)
      BY <1>4
    <3>3. d \notin below(d)
      <4>1. d \in Nat
        BY <1>1
      <4> QED
        BY <4>1
    <3> QED
      BY <3>1, <3>2, <3>3, Zenon
  <2>2. IsFiniteSet(below(e))
    BY <1>3
  <2>3. Cardinality(below(d)) # Cardinality(below(e))
    BY <2>1, <2>2, FS_Subset
  <2> QED
    BY <2>3
<1>5. rank \in Injection(D, N)
  <2>1. rank \in [D -> N]
    BY <1>3
  <2>2. \A d, e \in D : d # e => rank[d] # rank[e]
    BY <1>1, <1>4
  <2> QED
    BY <2>1, <2>2 DEF Injection, IsInjective
<1>6. IsFiniteSet(N) /\ Cardinality(N) = Cardinality(D)
  BY <1>2, FS_Interval
<1>7. rank \in Surjection(D, N)
  BY <1>5, <1>6, FS_Injection
<1>8. PICK d \in D : Cardinality(below(d)) = n
  BY <1>7 DEF Surjection
<1> QED
  BY <1>8 DEF Ordered

LEMMA PickTyped ==
    ASSUME NEW D \in SUBSET Disks, D # {}, NEW c \in Chunks
    PROVE  PickCacheDisk(D, c) \in D
<1>1. IsFiniteSet(D) /\ c \in Nat
  BY CacheAssumption, FS_Subset
<1>2. Cardinality(D) \in Nat \ {0}
  BY <1>1, FS_CardinalityType, FS_EmptySet
<1>3. c % Cardinality(D) \in 0..(Cardinality(D) - 1)
  BY <1>1, <1>2
<1> QED
  BY <1>3, OrderedFinds DEF PickCacheDisk

(* Every set of naturals that is not empty has a least element.            *)
LEMMA LeastNatural ==
    ASSUME NEW S \in SUBSET Nat, S # {}
    PROVE  \E m \in S : \A n \in S : m <= n
<1> DEFINE R == OpToRel(<, Nat)
<1>1. IsWellFoundedOn(R, Nat)
  BY NatLessThanWellFounded
<1>2. \A x, y \in Nat : x < y => <<x, y>> \in R
  BY DEF OpToRel
<1> HIDE DEF R
<1>3. PICK m \in S : \A n \in S : <<n, m>> \notin R
  BY <1>1, WFMin
<1>4. ASSUME NEW n \in S
      PROVE  m <= n
  <2>1. m \in Nat /\ n \in Nat
    OBVIOUS
  <2>2. ~(n < m)
    BY <1>2, <1>3, <2>1
  <2> QED
    BY <2>1, <2>2
<1> QED
  BY <1>4

(* A free path is found when there is one, and nobody uses it.             *)
LEMMA LeastPath ==
    ASSUME Path \ Used # {}
    PROVE  Min(Path \ Used) \in Path \ Used
<1>1. Path \ Used \subseteq Nat
  BY DEF Path
<1>2. PICK p \in Path \ Used : \A q \in Path \ Used : p <= q
  BY <1>1, LeastNatural
<1> QED
  BY <1>2 DEF Min

LEMMA FileOfTyped ==
    ASSUME NEW e, e # Nil => e \in Row /\ (e.cached <=> e.path # 0)
    PROVE  FileOf(e) \subseteq Path
  BY ConstantFacts DEF FileOf, Hit, Row, Path
-----------------------------------------------------------------------------
(* Type correctness.                                                       *)

LEMMA InitTyped == Init => Typed
  BY ConstantFacts DEF Init, Typed, TablesTyped, ReadersTyped, OthersTyped, RowsShaped, NoRead, NoWr,
     NoGone, ReaderState, ReaderPc, WriterState, GoneState

LEMMA NoReadTyped == NoRead \in ReaderState /\ NoRead.pc = "idle" /\ NoRead.entry = Nil
  BY ConstantFacts DEF NoRead, ReaderState, ReaderPc

(* A step of one reader that only sets its record.                         *)
LEMMA ReaderTyped ==
    ASSUME Typed, NEW r \in Readers, NEW x \in ReaderState, Reader(r, x),
           x.pc # "idle" => x.chunk \in Chunks,
           x.pc \in {"update", "copy"} => x.data \in Values,
           x.pc \in {"insert", "copy", "save"} => x.disk \in Disks,
           x.pc \in {"copy", "save"} => Hot(x.entry),
           x.pc = "save" => x.path \in Path,
           x.entry # Nil => (x.entry.cached <=> x.entry.path # 0)
    PROVE  /\ ReadersTyped'
           /\ \A q \in Readers : rd'[q].entry # Nil => (rd'[q].entry.cached <=> rd'[q].entry.path # 0)
<1>1. /\ rd' \in [Readers -> ReaderState]
      /\ \A q \in Readers : rd'[q] = IF q = r THEN x ELSE rd[q]
  BY DEF Typed, ReadersTyped, Reader
<1> QED
  BY <1>1 DEF Typed, ReadersTyped, RowsShaped, Hot

LEMMA ReadStepTyped ==
    ASSUME Typed, NEW r \in Readers,
           \/ \E c \in Chunks : LoadChunk(r, c)
           \/ LoadCaches(r) \/ ReadData(r) \/ Return(r) \/ ChooseDisk(r)
    PROVE  Typed'
<1> USE ConstantFacts
<1>r. rd[r] \in ReaderState
  BY DEF Typed, ReadersTyped
<1>o. ASSUME OnlyReaders, ReadersTyped', 
             \A q \in Readers : rd'[q].entry # Nil => (rd'[q].entry.cached <=> rd'[q].entry.path # 0)
      PROVE  Typed'
  BY <1>o DEF Typed, TablesTyped, OthersTyped, RowsShaped, OnlyReaders
<1>1. CASE \E c \in Chunks : LoadChunk(r, c)
  <2>1. PICK c \in Chunks : LoadChunk(r, c)
    BY <1>1
  <2> DEFINE x == [NoRead EXCEPT !.pc = "load", !.chunk = c, !.gen = gen[c],
                                !.disks = cdisk, !.sure = ~Writing(c)]
  <2>2. x \in ReaderState /\ x.pc = "load" /\ x.chunk = c /\ x.entry = Nil
    <3>1. (~Writing(c)) \in BOOLEAN
      BY DEF Writing
    <3>2. gen[c] \in Nat /\ cdisk \in SUBSET Disks /\ 0 \in 0..MaxPath
      BY DEF Typed, TablesTyped
    <3> QED
      BY <3>1, <3>2 DEF NoRead, ReaderState, ReaderPc
  <2>3. Reader(r, x) /\ OnlyReaders
    BY <2>1 DEF LoadChunk
  <2> HIDE DEF x
  <2> QED
    BY <1>o, <2>2, <2>3, ReaderTyped
<1>2. CASE LoadCaches(r)
  <2> DEFINE e == cache[rd[r].chunk]
             x == [rd[r] EXCEPT !.pc = "read", !.entry = e,
                               !.disks = IF Hit(e) THEN @ \cap {e.disk} ELSE {}]
  <2>1. rd[r].pc = "load" /\ rd[r].chunk \in Chunks
    BY <1>2 DEF LoadCaches, Typed, ReadersTyped
  <2>2. e \in Row \cup {Nil} /\ (e # Nil => (e.cached <=> e.path # 0))
    BY <2>1 DEF Typed, TablesTyped, RowsShaped
  <2>3. x \in ReaderState /\ x.pc = "read" /\ x.chunk = rd[r].chunk /\ x.entry = e
    BY <1>r, <2>2 DEF ReaderState, ReaderPc
  <2>4. Reader(r, x) /\ OnlyReaders
    BY <1>2 DEF LoadCaches
  <2> HIDE DEF x, e
  <2> QED
    BY <1>o, <2>1, <2>2, <2>3, <2>4, ReaderTyped
<1>3. CASE ReadData(r)
  <2> DEFINE x == [rd[r] EXCEPT !.pc = IF Data(rd[r]) = Nil THEN "failed" ELSE "update",
                               !.data = Data(rd[r]), !.gen = 0, !.disks = {}]
  <2>1. rd[r].pc = "read" /\ rd[r].chunk \in Chunks
    BY <1>3 DEF ReadData, Typed, ReadersTyped
  <2>2. rd[r].entry # Nil => rd[r].entry \in Row /\ (rd[r].entry.cached <=> rd[r].entry.path # 0)
    BY <1>r DEF ReaderState, Typed, RowsShaped
  <2>3. Data(rd[r]) \in Values \cup {Nil}
    <3>1. Cached(rd[r]) \in Values \cup {Nil}
      BY <2>2 DEF Cached, Hit, Row, Path, Copy, Typed, TablesTyped
    <3>2. Source(rd[r]) \in Values \cup {Nil}
      BY <2>1 DEF Source, Typed, TablesTyped
    <3> QED
      BY <3>1, <3>2 DEF Data
  <2>4. /\ x \in ReaderState /\ x.pc \in {"failed", "update"} /\ x.chunk = rd[r].chunk
        /\ x.pc = "update" => x.data \in Values
        /\ x.entry = rd[r].entry
    BY <1>r, <2>3 DEF ReaderState, ReaderPc
  <2>5. Reader(r, x) /\ OnlyReaders
    BY <1>3 DEF ReadData
  <2> HIDE DEF x
  <2> QED
    BY <1>o, <2>1, <2>2, <2>4, <2>5, ReaderTyped
<1>4. CASE Return(r)
  BY <1>o, <1>4, NoReadTyped, ReaderTyped DEF Return
<1>5. CASE ChooseDisk(r)
  <2> DEFINE x    == rd[r]
             next == [NoRead EXCEPT !.chunk = x.chunk, !.disk = PickCacheDisk(cdisk, x.chunk)]
             y == IF cdisk = {} THEN NoRead
                     ELSE IF x.entry = Nil THEN [next EXCEPT !.pc = "insert"]
                     ELSE IF ~Hot(x.entry) THEN [next EXCEPT !.pc = "bump"]
                     ELSE [next EXCEPT !.pc = "copy", !.entry = x.entry, !.data = x.data]
  <2>1. x.pc = "update" /\ x.chunk \in Chunks /\ x.data \in Values
    BY <1>5 DEF ChooseDisk, Typed, ReadersTyped
  <2>2. x.entry # Nil => x.entry \in Row /\ (x.entry.cached <=> x.entry.path # 0)
    BY <1>r DEF ReaderState, Typed, RowsShaped
  <2>3. cdisk # {} => PickCacheDisk(cdisk, x.chunk) \in Disks
    BY <2>1, PickTyped DEF Typed, TablesTyped
  <2>4. /\ y \in ReaderState /\ y.pc \in {"idle", "insert", "bump", "copy"}
        /\ y.pc # "idle" => y.chunk \in Chunks /\ y.disk \in Disks
        /\ y.pc = "copy" => Hot(y.entry) /\ y.data \in Values
        /\ y.entry # Nil => y.entry = x.entry
    BY <2>1, <2>2, <2>3, NoReadTyped DEF NoRead, ReaderState, ReaderPc, Hot
  <2>5. Reader(r, y) /\ OnlyReaders
    BY <1>5 DEF ChooseDisk
  <2> HIDE DEF y
  <2> QED
    BY <1>o, <2>2, <2>4, <2>5, ReaderTyped
<1> QED
  BY <1>1, <1>2, <1>3, <1>4, <1>5

LEMMA CopyStepTyped ==
    ASSUME Typed, NEW r \in Readers,
           WriteCopy(r) \/ SavePromoted(r) \/ InsertRow(r) \/ Bump(r)
    PROVE  Typed'
<1> USE ConstantFacts
<1>r. rd[r] \in ReaderState
  BY DEF Typed, ReadersTyped
<1>e. rd[r].entry # Nil => rd[r].entry \in Row /\ (rd[r].entry.cached <=> rd[r].entry.path # 0)
  BY <1>r DEF ReaderState, Typed, RowsShaped
<1>n. ASSUME Reader(r, NoRead)
      PROVE  /\ ReadersTyped'
             /\ \A q \in Readers : rd'[q].entry # Nil => (rd'[q].entry.cached <=> rd'[q].entry.path # 0)
  BY <1>n, NoReadTyped, ReaderTyped
<1>1. CASE WriteCopy(r)
  <2>1. rd[r].pc = "copy" /\ rd[r].data \in Values /\ rd[r].disk \in Disks /\ Hot(rd[r].entry)
        /\ rd[r].chunk \in Chunks
    BY <1>1 DEF WriteCopy, Typed, ReadersTyped
  <2>2. CASE Reader(r, NoRead) /\ UNCHANGED copy
    BY <1>1, <1>n, <2>2 DEF WriteCopy, Typed, TablesTyped, OthersTyped, RowsShaped
  <2>3. CASE ~(Reader(r, NoRead) /\ UNCHANGED copy)
    <3> DEFINE p == Min(Path \ Used)
               x == [rd[r] EXCEPT !.pc = "save", !.path = p, !.data = Nil]
    <3>1. /\ Path \ Used # {}
          /\ copy' = [copy EXCEPT ![p] = [data |-> rd[r].data, disk |-> rd[r].disk]]
          /\ Reader(r, x)
      BY <1>1, <2>3 DEF WriteCopy
    <3>2. p \in Path
      BY <3>1, LeastPath
    <3> HIDE DEF p
    <3>3. x \in ReaderState /\ x.pc = "save" /\ x.chunk = rd[r].chunk /\ x.disk = rd[r].disk
          /\ x.entry = rd[r].entry /\ x.path = p
      <4>1. p \in 0..MaxPath
        BY <3>2 DEF Path
      <4> QED
        BY <1>r, <4>1 DEF ReaderState, ReaderPc
    <3>4. copy' \in [Path -> Copy \cup {Nil}]
      <4>1. [data |-> rd[r].data, disk |-> rd[r].disk] \in Copy
        BY <2>1 DEF Copy
      <4> QED
        BY <3>1, <3>2, <4>1 DEF Typed, TablesTyped
    <3> HIDE DEF x
    <3>5. /\ ReadersTyped'
          /\ \A q \in Readers : rd'[q].entry # Nil => (rd'[q].entry.cached <=> rd'[q].entry.path # 0)
      BY <1>e, <2>1, <3>1, <3>2, <3>3, ReaderTyped
    <3> QED
      BY <1>1, <3>4, <3>5 DEF WriteCopy, Typed, TablesTyped, OthersTyped, RowsShaped
  <2> QED
    BY <2>2, <2>3
<1>2. CASE SavePromoted(r)
  <2>1. /\ rd[r].pc = "save" /\ rd[r].path \in Path /\ rd[r].disk \in Disks
        /\ Hot(rd[r].entry) /\ rd[r].chunk \in Chunks
    BY <1>2 DEF SavePromoted, Typed, ReadersTyped
  <2>2. Promoted(rd[r]) \in Row /\ (Promoted(rd[r]).cached <=> Promoted(rd[r]).path # 0)
    <3> DEFINE e == rd[r].entry
    <3>1. e \in Row /\ rd[r].path \in 0..MaxPath /\ rd[r].path # 0
      BY <1>e, <2>1 DEF Hot, Path
    <3>2. Promoted(rd[r]) = [e EXCEPT !.path = rd[r].path, !.disk = rd[r].disk, !.cached = TRUE]
      BY DEF Promoted
    <3> HIDE DEF e
    <3> QED
      BY <2>1, <3>1, <3>2 DEF Row
  <2>3. \/ UNCHANGED cache
        \/ cache' = [cache EXCEPT ![rd[r].chunk] = Promoted(rd[r])]
    BY <1>2 DEF SavePromoted
  <2>4. /\ cache' \in [Chunks -> Row \cup {Nil}]
        /\ \A c \in Chunks : cache'[c] # Nil => (cache'[c].cached <=> cache'[c].path # 0)
    BY <2>1, <2>2, <2>3 DEF Typed, TablesTyped, RowsShaped
  <2> QED
    BY <1>2, <1>n, <2>4 DEF SavePromoted, Typed, TablesTyped, OthersTyped, RowsShaped
<1>3. CASE InsertRow(r)
  <2>1. rd[r].pc = "insert" /\ rd[r].disk \in Disks /\ rd[r].chunk \in Chunks
    BY <1>3 DEF InsertRow, Typed, ReadersTyped
  <2> DEFINE e == [id |-> rows + 1, disk |-> rd[r].disk, path |-> 0, count |-> 1, cached |-> FALSE]
  <2>2. \/ UNCHANGED <<cache, rows>>
        \/ rows < MaxRow /\ rows' = rows + 1 /\ cache' = [cache EXCEPT ![rd[r].chunk] = e]
    BY <1>3 DEF InsertRow
  <2>3. rows < MaxRow => e \in Row
    BY <2>1 DEF Row, Typed, TablesTyped
  <2>4. /\ cache' \in [Chunks -> Row \cup {Nil}] /\ rows' \in 0..MaxRow
        /\ \A c \in Chunks : cache'[c] # Nil => (cache'[c].cached <=> cache'[c].path # 0)
    <3>1. ~e.cached /\ e.path = 0
      OBVIOUS
    <3> HIDE DEF e
    <3> QED
      BY <2>1, <2>2, <2>3, <3>1 DEF Typed, TablesTyped, RowsShaped
  <2> QED
    BY <1>3, <1>n, <2>4 DEF InsertRow, Typed, TablesTyped, OthersTyped, RowsShaped
<1>4. CASE Bump(r)
  <2>1. rd[r].pc = "bump" /\ rd[r].chunk \in Chunks
    BY <1>4 DEF Bump, Typed, ReadersTyped
  <2> DEFINE b == rd[r].chunk
             e == [cache[b] EXCEPT !.count = IF @ > Threshold THEN @ ELSE @ + 1]
  <2>2. cache' = IF cache[b] = Nil THEN cache ELSE [cache EXCEPT ![b] = e]
    BY <1>4 DEF Bump
  <2>3. cache[b] # Nil => e \in Row /\ e.path = cache[b].path /\ e.cached = cache[b].cached
    BY <2>1 DEF Row, Typed, TablesTyped
  <2>4. /\ cache' \in [Chunks -> Row \cup {Nil}]
        /\ \A c \in Chunks : cache'[c] # Nil => (cache'[c].cached <=> cache'[c].path # 0)
    BY <2>1, <2>2, <2>3 DEF Typed, TablesTyped, RowsShaped
  <2> QED
    BY <1>4, <1>n, <2>4 DEF Bump, Typed, TablesTyped, OthersTyped, RowsShaped
<1> QED
  BY <1>1, <1>2, <1>3, <1>4

(* Only whether they are sure changes for the readers of the chunk.        *)
LEMMA DisturbTyped ==
    ASSUME Typed, NEW c, Disturb(c)
    PROVE  /\ ReadersTyped'
           /\ \A r \in Readers : rd'[r].entry # Nil => (rd'[r].entry.cached <=> rd'[r].entry.path # 0)
<1>1. \A r \in Readers : rd[r] \in ReaderState
  BY DEF Typed, ReadersTyped
<1>2. \A r \in Readers : [rd[r] EXCEPT !.sure = FALSE] \in ReaderState
  BY <1>1 DEF ReaderState
<1>3. rd' \in [Readers -> ReaderState]
  BY <1>1, <1>2 DEF Disturb
<1>4. \A r \in Readers :
        /\ rd'[r].pc = rd[r].pc /\ rd'[r].chunk = rd[r].chunk /\ rd'[r].data = rd[r].data
        /\ rd'[r].disk = rd[r].disk /\ rd'[r].entry = rd[r].entry /\ rd'[r].path = rd[r].path
  BY <1>1 DEF Disturb, ReaderState
<1> QED
  BY <1>3, <1>4 DEF Typed, ReadersTyped, RowsShaped

LEMMA WriteStepTyped ==
    ASSUME Typed,
           \/ \E c \in Chunks : StartWrite(c) \/ Release(c)
           \/ \E v \in Values : WriteFile(v) \/ \E c \in Chunks : Reuse(c, v)
           \/ DropRows
    PROVE  Typed'
<1> USE ConstantFacts
<1>f. \A c \in Chunks : FileOf(cache[c]) \subseteq Path
  BY FileOfTyped DEF Typed, TablesTyped, RowsShaped
<1>w. wr \in WriterState
  BY DEF Typed, OthersTyped
<1>1. ASSUME NEW c \in Chunks, StartWrite(c)
      PROVE  Typed'
  <2>1. wr' \in WriterState /\ wr'.chunk = c
    BY <1>f, <1>1 DEF StartWrite, WriterState
  <2>2. writes' \in 0..MaxWrite
    BY <1>1 DEF StartWrite, Typed, TablesTyped
  <2>3. Disturb(c)
    BY <1>1 DEF StartWrite
  <2> QED
    BY <1>1, <2>1, <2>2, <2>3, DisturbTyped DEF StartWrite, Typed, TablesTyped, OthersTyped, RowsShaped
<1>2. ASSUME NEW c \in Chunks, Release(c)
      PROVE  Typed'
  <2>1. /\ src' \in [Chunks -> Values \cup {Nil}] /\ gen' \in [Chunks -> Nat]
        /\ junk' \subseteq Path /\ writes' \in 0..MaxWrite
    BY <1>f, <1>2 DEF Release, Typed, TablesTyped
  <2>2. cache' \in [Chunks -> Row \cup {Nil}] /\ \A b \in Chunks : cache'[b] # Nil => cache'[b] = cache[b]
    BY <1>2 DEF Release, Dropped, Typed, TablesTyped
  <2>3. Disturb(c)
    BY <1>2 DEF Release
  <2> QED
    BY <1>2, <2>1, <2>2, <2>3, DisturbTyped DEF Release, Typed, TablesTyped, OthersTyped, RowsShaped
<1>3. ASSUME NEW v \in Values, WriteFile(v)
      PROVE  Typed'
  BY <1>3 DEF WriteFile, Typed, TablesTyped, OthersTyped, ReadersTyped, RowsShaped, NoWr, WriterState
<1>4. ASSUME NEW v \in Values, NEW c \in Chunks, Reuse(c, v)
      PROVE  Typed'
  <2>1. Disturb(c) /\ src' \in [Chunks -> Values \cup {Nil}]
    BY <1>4 DEF Reuse, Typed, TablesTyped
  <2> QED
    BY <1>4, <2>1, DisturbTyped DEF Reuse, Typed, TablesTyped, OthersTyped, RowsShaped
<1>5. CASE DropRows
  <2>1. wr' \in WriterState /\ wr'.chunk = wr.chunk /\ wr.pc # "idle"
    BY <1>5, <1>w DEF DropRows, WriterState
  <2>2. junk' \subseteq Path
    BY <1>5, <1>w DEF DropRows, WriterState, Typed, TablesTyped
  <2>3. cache' \in [Chunks -> Row \cup {Nil}] /\ \A b \in Chunks : cache'[b] # Nil => cache'[b] = cache[b]
    BY <1>5 DEF DropRows, Typed, TablesTyped
  <2> QED
    BY <1>5, <2>1, <2>2, <2>3 DEF DropRows, Typed, TablesTyped, OthersTyped, ReadersTyped, RowsShaped
<1> QED
  BY <1>1, <1>2, <1>3, <1>4, <1>5

LEMMA CleanStepTyped ==
    ASSUME Typed,
           \/ SelectCold \/ EvictCold
           \/ \E p \in Path : DeleteCopy(p)
           \/ \E d \in Disks : DeleteCacheDisk(d)
           \/ DeleteFiles \/ DeleteRows
    PROVE  Typed'
<1> USE ConstantFacts
<1>f. \A c \in Chunks : FileOf(cache[c]) \subseteq Path
  BY FileOfTyped DEF Typed, TablesTyped, RowsShaped
<1>g. gone \in GoneState
  BY DEF Typed, OthersTyped
<1>1. CASE SelectCold
  BY <1>1 DEF SelectCold, Typed, TablesTyped, OthersTyped, ReadersTyped, RowsShaped
<1>2. CASE EvictCold
  <2>1. EvictedFiles \subseteq Path
    BY <1>2, FileOfTyped DEF EvictCold, EvictedFiles, Typed, OthersTyped, RowsShaped
  <2>2. cache' \in [Chunks -> Row \cup {Nil}] /\ \A b \in Chunks : cache'[b] # Nil => cache'[b] = cache[b]
    BY <1>2 DEF EvictCold, Typed, TablesTyped
  <2> QED
    BY <1>2, <2>1, <2>2 DEF EvictCold, Typed, TablesTyped, OthersTyped, ReadersTyped, RowsShaped
<1>3. ASSUME NEW p \in Path, DeleteCopy(p)
      PROVE  Typed'
  BY <1>3 DEF DeleteCopy, Typed, TablesTyped, OthersTyped, ReadersTyped, RowsShaped
<1>4. ASSUME NEW d \in Disks, DeleteCacheDisk(d)
      PROVE  Typed'
  <2>1. gone' \in GoneState
    BY <1>f, <1>4 DEF DeleteCacheDisk, GoneState
  <2> QED
    BY <1>4, <2>1 DEF DeleteCacheDisk, Typed, TablesTyped, OthersTyped, ReadersTyped, RowsShaped
<1>5. CASE DeleteFiles
  <2>1. gone' \in GoneState
    BY <1>g, <1>5 DEF DeleteFiles, GoneState
  <2>2. copy' \in [Path -> Copy \cup {Nil}]
    BY <1>5 DEF DeleteFiles, Typed, TablesTyped
  <2> QED
    BY <1>5, <2>1, <2>2 DEF DeleteFiles, Typed, TablesTyped, OthersTyped, ReadersTyped, RowsShaped
<1>6. CASE DeleteRows
  <2>1. gone' \in GoneState
    BY <1>6 DEF DeleteRows, NoGone, GoneState
  <2>2. cache' \in [Chunks -> Row \cup {Nil}] /\ \A b \in Chunks : cache'[b] # Nil => cache'[b] = cache[b]
    BY <1>6 DEF DeleteRows, Typed, TablesTyped
  <2> QED
    BY <1>6, <2>1, <2>2 DEF DeleteRows, Typed, TablesTyped, OthersTyped, ReadersTyped, RowsShaped
<1> QED
  BY <1>1, <1>2, <1>3, <1>4, <1>5, <1>6

LEMMA NextTyped == Typed /\ [Next]_vars => Typed'
<1> SUFFICES ASSUME Typed, [Next]_vars
             PROVE  Typed'
  OBVIOUS
<1>1. CASE UNCHANGED vars
  BY <1>1 DEF vars, Typed, TablesTyped, OthersTyped, ReadersTyped, RowsShaped
<1> QED
  BY <1>1, ReadStepTyped, CopyStepTyped, WriteStepTyped, CleanStepTyped DEF Next

(* Rows, copies, readers, the cleaner and the disks keep the shape the     *)
(* code gives them, also where statements of several of them interleave.   *)
THEOREM CacheTypeCorrect == Spec => []TypeOK
<1>1. Typed => TypeOK
  BY DEF Typed, TablesTyped, TypeOK
<1> QED
  BY <1>1, InitTyped, NextTyped, PTL DEF Spec
-----------------------------------------------------------------------------
(* Rows name disks that are there.                                         *)

LEMMA InitReach == Init => ReachInv
  BY InitTyped DEF Init, ReachInv, DiskAllowed, CopiesReachable, NoRead, Hit

LEMMA ReachKept ==
    ASSUME ReachInv, [Next]_vars, "disk" \notin Overlaps
    PROVE  ReachInv'
<1>1. Typed'
  BY NextTyped DEF ReachInv
<1>2. DiskAllowed'
  BY DEF ReachInv, DiskAllowed, Next, Allowed, vars
<1> SUFFICES CopiesReachable'
  BY <1>1, <1>2 DEF ReachInv
<1>3. ASSUME UNCHANGED <<cache, cdisk>>
      PROVE  CopiesReachable'
  BY <1>3 DEF ReachInv, CopiesReachable
<1>4. ASSUME UNCHANGED cdisk, \A c \in Chunks : cache'[c] # Nil => cache'[c] = cache[c]
      PROVE  CopiesReachable'
  BY <1>4 DEF ReachInv, CopiesReachable, Hit
<1>5. CASE \E r \in Readers : SavePromoted(r)
  <2>1. PICK r \in Readers : SavePromoted(r)
    BY <1>5
  <2>2. rd[r].disk \in cdisk /\ rd[r].chunk \in Chunks /\ rd[r].entry \in Row
    BY <2>1 DEF SavePromoted, ReachInv, DiskAllowed, Typed, ReadersTyped, ReaderState, Hot
  <2>3. Promoted(rd[r]).disk = rd[r].disk
    BY <2>2 DEF Promoted, Row
  <2> QED
    BY <2>1, <2>2, <2>3 DEF SavePromoted, ReachInv, CopiesReachable, Typed, TablesTyped, Hit
<1>6. CASE \E r \in Readers : InsertRow(r)
  <2>1. PICK r \in Readers : InsertRow(r)
    BY <1>6
  <2>2. \A c \in Chunks : cache'[c] = cache[c] \/ ~cache'[c].cached
    BY <2>1 DEF InsertRow, ReachInv, Typed, TablesTyped
  <2> QED
    BY <2>1, <2>2 DEF InsertRow, ReachInv, CopiesReachable, Hit
<1>7. CASE \E r \in Readers : Bump(r)
  <2>1. PICK r \in Readers : Bump(r)
    BY <1>7
  <2>2. \A c \in Chunks : cache'[c] = cache[c] \/
            /\ cache[c] # Nil
            /\ cache'[c].disk = cache[c].disk /\ cache'[c].cached = cache[c].cached
    BY <2>1 DEF Bump, ReachInv, Typed, TablesTyped, Row
  <2> QED
    BY <2>1, <2>2 DEF Bump, ReachInv, CopiesReachable, Hit
<1>8. CASE DeleteRows
  BY <1>8 DEF DeleteRows, ReachInv, CopiesReachable, Hit
<1>9. CASE \/ \E r \in Readers : \/ \E c \in Chunks : LoadChunk(r, c)
                                 \/ LoadCaches(r) \/ ReadData(r) \/ Return(r) \/ ChooseDisk(r)
                                 \/ WriteCopy(r)
           \/ \E c \in Chunks : StartWrite(c)
           \/ \E v \in Values : WriteFile(v) \/ \E c \in Chunks : Reuse(c, v)
           \/ SelectCold \/ \E p \in Path : DeleteCopy(p)
           \/ \E d \in Disks : DeleteCacheDisk(d)
           \/ DeleteFiles \/ UNCHANGED vars
  BY <1>3, <1>9 DEF LoadChunk, LoadCaches, ReadData, Return, ChooseDisk, WriteCopy, OnlyReaders,
     StartWrite, WriteFile, Reuse, SelectCold, DeleteCopy, DeleteCacheDisk, DeleteFiles, vars
<1>10. CASE DropRows \/ EvictCold \/ \E c \in Chunks : Release(c)
  BY <1>4, <1>10 DEF DropRows, EvictCold, Release, Dropped, ReachInv, Typed, TablesTyped
<1> QED
  BY <1>5, <1>6, <1>7, <1>8, <1>9, <1>10 DEF Next

(* A row never says a copy is on a disk that is gone, as long as no cache  *)
(* disk is deleted while a reader puts a copy on it.                       *)
THEOREM CopiesStayReachable ==
    ASSUME "disk" \notin Overlaps PROVE Spec => []CopiesReachable
<1>1. ReachInv => CopiesReachable
  BY DEF ReachInv
<1>2. ReachInv /\ [Next]_vars => ReachInv'
  BY ReachKept
<1> QED
  BY <1>1, <1>2, InitReach, PTL DEF Spec
-----------------------------------------------------------------------------
(* What reads can hit is current.                                          *)

LEMMA InitFresh == Init => FreshInv
  BY InitTyped DEF Init, FreshInv, PromoteAllowed, NoStaleHit, DroppedFirst, ReadersCurrent,
     Promoting, MakesCurrent, Makes, SureCurrent, NoRead, NoWr, Hit

(* A step of one reader that changes no table and no copy.                 *)
LEMMA ReaderFresh ==
    ASSUME FreshInv, NEW r \in Readers, NEW x, Reader(r, x),
           UNCHANGED <<src, gen, cache, copy, wr>>, MakesCurrent(x), SureCurrent(x)
    PROVE  NoStaleHit' /\ DroppedFirst' /\ ReadersCurrent'
<1>1. \A q \in Readers : rd'[q] = IF q = r THEN x ELSE rd[q]
  BY DEF Reader, FreshInv, Typed, ReadersTyped
<1>2. ASSUME NEW q \in Readers
      PROVE  MakesCurrent(rd[q])' /\ SureCurrent(rd[q])'
  <2>1. MakesCurrent(rd[q]) /\ SureCurrent(rd[q])
    BY DEF FreshInv, ReadersCurrent
  <2>2. CASE q = r
    BY <1>1, <2>2 DEF MakesCurrent, Makes, SureCurrent, Writing, Hot, Hit
  <2>3. CASE q # r
    BY <1>1, <2>1, <2>3 DEF MakesCurrent, Makes, SureCurrent, Writing, Hot, Hit
  <2> QED
    BY <2>2, <2>3
<1> QED
  BY <1>2 DEF FreshInv, ReadersCurrent, NoStaleHit, DroppedFirst, Writing

LEMMA ReadStepFresh ==
    ASSUME FreshInv, NEW r \in Readers,
           \/ \E c \in Chunks : LoadChunk(r, c)
           \/ LoadCaches(r) \/ ReadData(r) \/ Return(r) \/ ChooseDisk(r)
    PROVE  NoStaleHit' /\ DroppedFirst' /\ ReadersCurrent'
<1>r. /\ rd[r] \in ReaderState /\ (rd[r].pc # "idle" => rd[r].chunk \in Chunks)
      /\ MakesCurrent(rd[r]) /\ SureCurrent(rd[r])
  BY DEF FreshInv, Typed, ReadersTyped, ReadersCurrent
<1>n. MakesCurrent(NoRead) /\ SureCurrent(NoRead)
  BY DEF MakesCurrent, Makes, SureCurrent, NoRead
<1>o. ASSUME NEW x, Reader(r, x), OnlyReaders, MakesCurrent(x), SureCurrent(x)
      PROVE  NoStaleHit' /\ DroppedFirst' /\ ReadersCurrent'
  BY <1>o, ReaderFresh DEF OnlyReaders
<1>1. ASSUME NEW c \in Chunks, LoadChunk(r, c)
      PROVE  NoStaleHit' /\ DroppedFirst' /\ ReadersCurrent'
  <2> DEFINE x == [NoRead EXCEPT !.pc = "load", !.chunk = c, !.gen = gen[c],
                                !.disks = cdisk, !.sure = ~Writing(c)]
  <2>1. x.pc = "load" /\ x.chunk = c /\ x.gen = gen[c] /\ (x.sure => ~Writing(c))
    BY DEF NoRead
  <2>2. Reader(r, x) /\ OnlyReaders
    BY <1>1 DEF LoadChunk
  <2> HIDE DEF x
  <2>3. MakesCurrent(x) /\ SureCurrent(x)
    BY <2>1 DEF MakesCurrent, Makes, SureCurrent
  <2> QED
    BY <1>o, <2>2, <2>3
<1>2. CASE LoadCaches(r)
  <2> DEFINE e == cache[rd[r].chunk]
             x == [rd[r] EXCEPT !.pc = "read", !.entry = e,
                               !.disks = IF Hit(e) THEN @ \cap {e.disk} ELSE {}]
  <2>1. rd[r].pc = "load" /\ rd[r].chunk \in Chunks
    BY <1>r, <1>2 DEF LoadCaches
  <2>2. /\ x.pc = "read" /\ x.chunk = rd[r].chunk /\ x.entry = e /\ x.sure = rd[r].sure
        /\ x.gen = rd[r].gen
    BY <1>r DEF ReaderState
  <2>3. Reader(r, x) /\ OnlyReaders
    BY <1>2 DEF LoadCaches
  <2> HIDE DEF x
  <2>4. MakesCurrent(x)
    BY <2>2 DEF MakesCurrent
  <2>5. SureCurrent(x)
    BY <1>r, <2>1, <2>2 DEF SureCurrent, FreshInv, NoStaleHit
  <2> QED
    BY <1>o, <2>3, <2>4, <2>5
<1>3. CASE ReadData(r)
  <2> DEFINE x == [rd[r] EXCEPT !.pc = IF Data(rd[r]) = Nil THEN "failed" ELSE "update",
                               !.data = Data(rd[r]), !.gen = 0, !.disks = {}]
  <2>1. rd[r].pc = "read" /\ rd[r].chunk \in Chunks
    BY <1>r, <1>3 DEF ReadData
  <2>2. /\ x.pc = (IF Data(rd[r]) = Nil THEN "failed" ELSE "update") /\ x.chunk = rd[r].chunk
        /\ x.entry = rd[r].entry /\ x.sure = rd[r].sure /\ x.data = Data(rd[r])
    BY <1>r DEF ReaderState
  <2>3. Reader(r, x) /\ OnlyReaders
    BY <1>3 DEF ReadData
  <2> HIDE DEF x
  <2>4. MakesCurrent(x)
    <3>1. Hot(rd[r].entry) => Data(rd[r]) = Source(rd[r])
      BY DEF Data, Cached, Hot, Hit
    <3>2. Source(rd[r]) # Nil => Source(rd[r]) = src[rd[r].chunk]
      BY DEF Source
    <3> QED
      BY <2>2, <3>1, <3>2 DEF MakesCurrent, Makes
  <2>5. rd[r].sure => Data(rd[r]) = src[rd[r].chunk]
    BY <1>r, <2>1 DEF SureCurrent, Data, Cached, Source
  <2>6. SureCurrent(x)
    BY <1>r, <2>1, <2>2, <2>5 DEF SureCurrent
  <2> QED
    BY <1>o, <2>3, <2>4, <2>6
<1>4. CASE Return(r)
  BY <1>n, <1>o, <1>4 DEF Return
<1>5. CASE ChooseDisk(r)
  <2> DEFINE x    == rd[r]
             next == [NoRead EXCEPT !.chunk = x.chunk, !.disk = PickCacheDisk(cdisk, x.chunk)]
             y == IF cdisk = {} THEN NoRead
                     ELSE IF x.entry = Nil THEN [next EXCEPT !.pc = "insert"]
                     ELSE IF ~Hot(x.entry) THEN [next EXCEPT !.pc = "bump"]
                     ELSE [next EXCEPT !.pc = "copy", !.entry = x.entry, !.data = x.data]
  <2>1. x.pc = "update"
    BY <1>5 DEF ChooseDisk
  <2>2. /\ y.sure = FALSE /\ y.pc \in {"idle", "insert", "bump", "copy"}
        /\ y.pc = "copy" => y.entry = x.entry /\ y.data = x.data /\ y.chunk = x.chunk
    BY DEF NoRead
  <2>3. Reader(r, y) /\ OnlyReaders
    BY <1>5 DEF ChooseDisk
  <2> HIDE DEF y
  <2>4. MakesCurrent(y) /\ SureCurrent(y)
    BY <1>r, <2>1, <2>2 DEF MakesCurrent, Makes, SureCurrent
  <2> QED
    BY <1>o, <2>3, <2>4
<1> QED
  BY <1>1, <1>2, <1>3, <1>4, <1>5

LEMMA CopyStepFresh ==
    ASSUME FreshInv, NEW r \in Readers,
           WriteCopy(r) \/ SavePromoted(r) \/ InsertRow(r) \/ Bump(r)
    PROVE  NoStaleHit' /\ DroppedFirst' /\ ReadersCurrent'
<1>r. /\ rd[r] \in ReaderState /\ (rd[r].pc # "idle" => rd[r].chunk \in Chunks)
      /\ rd \in [Readers -> ReaderState]
      /\ \A q \in Readers : MakesCurrent(rd[q]) /\ SureCurrent(rd[q])
  BY DEF FreshInv, Typed, ReadersTyped, ReadersCurrent
<1>n. MakesCurrent(NoRead) /\ SureCurrent(NoRead)
  BY DEF MakesCurrent, Makes, SureCurrent, NoRead
(* The rows of the readers' chunks do not matter to what they hold.        *)
<1>o. ASSUME Reader(r, NoRead), UNCHANGED <<src, gen, copy, wr>>
      PROVE  ReadersCurrent'
  <2>1. \A q \in Readers : rd'[q] = IF q = r THEN NoRead ELSE rd[q]
    BY <1>r, <1>o DEF Reader
  <2> SUFFICES ASSUME NEW q \in Readers
               PROVE  MakesCurrent(rd[q])' /\ SureCurrent(rd[q])'
    BY DEF ReadersCurrent
  <2>2. CASE q = r
    BY <2>1, <2>2 DEF MakesCurrent, Makes, SureCurrent, NoRead
  <2>3. CASE q # r
    BY <1>r, <1>o, <2>1, <2>3 DEF MakesCurrent, Makes, SureCurrent, Writing, Hot, Hit
  <2> QED
    BY <2>2, <2>3
(* A row that cannot be hit is as good as none.                            *)
<1>u. ASSUME UNCHANGED <<src, copy, wr>>,
             \A c \in Chunks : Hit(cache'[c]) => Hit(cache[c]) /\ cache'[c].path = cache[c].path
      PROVE  NoStaleHit' /\ DroppedFirst'
  BY <1>u DEF FreshInv, NoStaleHit, DroppedFirst, Writing, Typed, OthersTyped
<1>1. CASE WriteCopy(r)
  <2>1. CASE Reader(r, NoRead) /\ UNCHANGED copy
    BY <1>1, <1>o, <1>u, <2>1 DEF WriteCopy
  <2>2. CASE ~(Reader(r, NoRead) /\ UNCHANGED copy)
    <3> DEFINE p == Min(Path \ Used)
               x == [rd[r] EXCEPT !.pc = "save", !.path = p, !.data = Nil]
               f == [data |-> rd[r].data, disk |-> rd[r].disk]
    <3>1. /\ Path \ Used # {} /\ copy' = [copy EXCEPT ![p] = f] /\ Reader(r, x)
          /\ rd[r].pc = "copy" /\ UNCHANGED <<src, gen, cache, wr>>
      BY <1>1, <2>2 DEF WriteCopy
    <3>2. p \in Path \ Used
      BY <3>1, LeastPath
    <3> HIDE DEF p
    <3>3. \A b \in Path : copy'[b] = IF b = p THEN f ELSE copy[b]
      BY <3>1, <3>2 DEF FreshInv, Typed, TablesTyped
    <3>4. /\ x.pc = "save" /\ x.path = p /\ x.chunk = rd[r].chunk /\ x.entry = rd[r].entry
          /\ x.sure = rd[r].sure
      BY <1>r DEF ReaderState
    <3>5. \A q \in Readers : rd'[q] = IF q = r THEN x ELSE rd[q]
      BY <1>r, <3>1 DEF Reader
    <3> HIDE DEF x
    <3>6. /\ \A c \in Chunks : cache[c] # Nil => cache[c].path # p
          /\ \A q \in Readers : rd[q].path # p /\ (rd[q].entry # Nil => rd[q].entry.path # p)
      BY <3>2 DEF Used
    <3>7. NoStaleHit' /\ DroppedFirst'
      <4>1. \A c \in Chunks : Hit(cache[c]) => cache[c].path \in Path
        BY ConstantFacts DEF FreshInv, Typed, TablesTyped, RowsShaped, Hit, Row, Path
      <4> QED
        BY <3>1, <3>3, <3>6, <4>1 DEF FreshInv, NoStaleHit, DroppedFirst, Writing, Hit
    <3>8. ASSUME NEW q \in Readers
          PROVE  MakesCurrent(rd[q])' /\ SureCurrent(rd[q])'
      <4>1. CASE q = r
        <5>1. Hot(rd[r].entry) /\ rd[r].data \in Values /\ rd[r].chunk \in Chunks
          BY <3>1 DEF FreshInv, Typed, ReadersTyped
        <5>2. rd[r].data = src[rd[r].chunk] /\ src[rd[r].chunk] # Nil
          BY <1>r, <3>1, <5>1, ConstantFacts DEF MakesCurrent, Makes
        <5>3. MakesCurrent(rd[q])'
          BY <3>1, <3>2, <3>3, <3>4, <3>5, <4>1, <5>2 DEF MakesCurrent
        <5>4. SureCurrent(rd[q])'
          BY <1>r, <3>1, <3>4, <3>5, <4>1 DEF SureCurrent, Writing
        <5> QED
          BY <5>3, <5>4
      <4>2. CASE q # r
        <5>1. rd'[q] = rd[q]
          BY <3>5, <4>2
        <5>2. /\ rd[q].pc = "save" => rd[q].path \in Path
              /\ Hit(rd[q].entry) => rd[q].entry.path \in Path
          BY <1>r, ConstantFacts DEF FreshInv, Typed, ReadersTyped, RowsShaped, Hit, Row, Path, ReaderState
        <5>3. /\ rd[q].pc = "save" => copy'[rd[q].path] = copy[rd[q].path]
              /\ Hit(rd[q].entry) => copy'[rd[q].entry.path] = copy[rd[q].entry.path]
          BY <3>3, <3>6, <5>2 DEF Hit
        <5> QED
          BY <1>r, <3>1, <5>1, <5>3 DEF MakesCurrent, Makes, SureCurrent, Writing
      <4> QED
        BY <4>1, <4>2
    <3> QED
      BY <3>7, <3>8 DEF ReadersCurrent
  <2> QED
    BY <2>1, <2>2
<1>2. CASE SavePromoted(r)
  <2>1. /\ rd[r].pc = "save" /\ rd[r].chunk \in Chunks /\ Hot(rd[r].entry) /\ rd[r].entry \in Row
        /\ Reader(r, NoRead) /\ UNCHANGED <<src, gen, copy, wr>>
    BY <1>2 DEF SavePromoted, FreshInv, Typed, ReadersTyped, ReaderState, Hot
  <2>2. /\ src[rd[r].chunk] # Nil /\ ~Writing(rd[r].chunk)
        /\ copy[rd[r].path] # Nil => copy[rd[r].path].data = src[rd[r].chunk]
    BY <1>r, <2>1 DEF MakesCurrent, Makes, FreshInv, PromoteAllowed, Promoting
  <2>3. Promoted(rd[r]).path = rd[r].path
    BY <2>1 DEF Promoted, Row
  <2>4. \A c \in Chunks : cache'[c] = cache[c] \/ (c = rd[r].chunk /\ cache'[c] = Promoted(rd[r]))
    BY <1>2, <2>1 DEF SavePromoted, FreshInv, Typed, TablesTyped
  <2>5. NoStaleHit'
    BY <2>1, <2>2, <2>3, <2>4 DEF FreshInv, NoStaleHit, Writing
  <2>6. DroppedFirst'
    BY <2>1, <2>2, <2>4 DEF FreshInv, DroppedFirst, Writing, Typed, OthersTyped
  <2> QED
    BY <1>o, <2>1, <2>5, <2>6
<1>3. CASE InsertRow(r)
  <2>1. \A c \in Chunks : cache'[c] = cache[c] \/ ~cache'[c].cached
    BY <1>3 DEF InsertRow, FreshInv, Typed, TablesTyped
  <2> QED
    BY <1>3, <1>o, <1>u, <2>1 DEF InsertRow, Hit
<1>4. CASE Bump(r)
  <2>1. \A c \in Chunks : cache'[c] = cache[c] \/
            /\ cache[c] # Nil
            /\ cache'[c].path = cache[c].path /\ cache'[c].cached = cache[c].cached
    BY <1>4 DEF Bump, FreshInv, Typed, TablesTyped, Row
  <2> QED
    BY <1>4, <1>o, <1>u, <2>1 DEF Bump, Hit
<1> QED
  BY <1>1, <1>2, <1>3, <1>4

LEMMA Disturbed ==
    ASSUME Typed, NEW c, Disturb(c), NEW r \in Readers
    PROVE  /\ rd'[r].pc = rd[r].pc /\ rd'[r].chunk = rd[r].chunk /\ rd'[r].data = rd[r].data
           /\ rd'[r].disk = rd[r].disk /\ rd'[r].entry = rd[r].entry /\ rd'[r].path = rd[r].path
           /\ rd'[r].gen = rd[r].gen
           /\ rd'[r].sure => rd[r].sure /\ (rd[r].pc # "idle" => rd[r].chunk # c)
<1>1. rd[r] \in ReaderState
  BY DEF Typed, ReadersTyped
<1> QED
  BY <1>1 DEF Disturb, ReaderState

LEMMA WriteStepFresh ==
    ASSUME FreshInv, AllowedStep, "promote" \notin Overlaps,
           \/ \E c \in Chunks : StartWrite(c) \/ Release(c)
           \/ \E v \in Values : WriteFile(v) \/ \E c \in Chunks : Reuse(c, v)
           \/ DropRows
    PROVE  NoStaleHit' /\ DroppedFirst' /\ ReadersCurrent'
<1> USE ConstantFacts
<1>r. \A q \in Readers : MakesCurrent(rd[q]) /\ SureCurrent(rd[q])
  BY DEF FreshInv, ReadersCurrent
<1>t. /\ src \in [Chunks -> Values \cup {Nil}] /\ gen \in [Chunks -> Nat]
      /\ cache \in [Chunks -> Row \cup {Nil}] /\ wr \in WriterState
      /\ (wr.pc # "idle" => wr.chunk \in Chunks)
      /\ \A q \in Readers : /\ rd[q].pc # "idle" => rd[q].chunk \in Chunks
                            /\ rd[q].pc \in {"update", "copy"} => rd[q].data # Nil
  BY DEF FreshInv, Typed, TablesTyped, OthersTyped, ReadersTyped
<1>1. ASSUME NEW c \in Chunks, StartWrite(c)
      PROVE  NoStaleHit' /\ DroppedFirst' /\ ReadersCurrent'
  <2>1. /\ wr.pc = "idle" /\ UNCHANGED <<src, gen, cache, copy>> /\ Disturb(c)
        /\ wr'.pc \in {"write", "drop"} /\ (wr'.pc = "write" => cache[c] = Nil) /\ wr'.chunk = c
    BY <1>1 DEF StartWrite
  <2>2. NoStaleHit' /\ DroppedFirst'
    BY <2>1 DEF FreshInv, NoStaleHit, DroppedFirst, Writing, Hit
  <2>3. ASSUME NEW q \in Readers
        PROVE  MakesCurrent(rd[q])' /\ SureCurrent(rd[q])'
    <3>1. MakesCurrent(rd[q])'
      BY <1>r, <2>1, Disturbed DEF FreshInv, MakesCurrent, Makes, Hot
    <3>2. SureCurrent(rd[q])'
      BY <1>r, <2>1, Disturbed DEF FreshInv, SureCurrent, Writing, Hit
    <3> QED
      BY <3>1, <3>2
  <2> QED
    BY <2>2, <2>3 DEF ReadersCurrent
<1>2. ASSUME NEW c \in Chunks, Release(c)
      PROVE  NoStaleHit' /\ DroppedFirst' /\ ReadersCurrent'
  <2>1. /\ ~Writing(c) /\ UNCHANGED <<copy, wr>> /\ Disturb(c)
        /\ \A b \in Chunks : src'[b] = IF b = c THEN Nil ELSE src[b]
        /\ \A b \in Chunks : gen'[b] = IF b = c THEN gen[b] + 1 ELSE gen[b]
        /\ \A b \in Chunks : cache'[b] = IF b = c THEN Nil ELSE cache[b]
    BY <1>2, <1>t DEF Release, Dropped
  <2>2. NoStaleHit' /\ DroppedFirst'
    BY <1>t, <2>1 DEF FreshInv, NoStaleHit, DroppedFirst, Writing, Hit
  <2>3. \A q \in Readers : Makes(rd[q]) => rd[q].chunk # c
    <3>1. gen'[c] # gen[c]
      BY <1>t, <2>1
    <3> QED
      BY <3>1 DEF AllowedStep, Makes, Promoting
  <2>4. ASSUME NEW q \in Readers
        PROVE  MakesCurrent(rd[q])' /\ SureCurrent(rd[q])'
    <3> DEFINE x == rd[q]
    <3>0. /\ MakesCurrent(x) /\ SureCurrent(x)
          /\ x.pc # "idle" => x.chunk \in Chunks
          /\ x.pc \in {"update", "copy"} => x.data # Nil
      BY <1>r, <1>t
    <3>d. /\ rd'[q].pc = x.pc /\ rd'[q].chunk = x.chunk /\ rd'[q].data = x.data
          /\ rd'[q].entry = x.entry /\ rd'[q].path = x.path /\ rd'[q].gen = x.gen
          /\ rd'[q].sure => x.sure /\ (x.pc # "idle" => x.chunk # c)
      BY <2>1, Disturbed DEF FreshInv
    <3>m. Makes(x) => x.chunk # c
      BY <2>3
    <3> HIDE DEF x
    <3>1. MakesCurrent(rd[q])'
      BY <2>1, <3>m, <3>0, <3>d DEF MakesCurrent, Makes, Hot
    <3>2. SureCurrent(rd[q])'
      BY <2>1, <3>0, <3>d DEF SureCurrent, Writing, Hit
    <3> QED
      BY <3>1, <3>2
  <2> QED
    BY <2>2, <2>4 DEF ReadersCurrent
<1>3. ASSUME NEW v \in Values, WriteFile(v)
      PROVE  NoStaleHit' /\ DroppedFirst' /\ ReadersCurrent'
  <2>1. /\ wr.pc = "write" /\ wr'.pc = "idle" /\ UNCHANGED <<gen, cache, copy, rd>>
        /\ \A b \in Chunks : src'[b] = IF b = wr.chunk THEN v ELSE src[b]
    BY <1>3, <1>t DEF WriteFile, NoWr
  <2>2. NoStaleHit' /\ DroppedFirst'
    BY <1>t, <2>1 DEF FreshInv, NoStaleHit, DroppedFirst, Writing
  <2>3. ASSUME NEW q \in Readers
        PROVE  MakesCurrent(rd[q])' /\ SureCurrent(rd[q])'
    <3>1. Makes(rd[q]) => rd[q].chunk # wr.chunk
      BY <2>1 DEF FreshInv, PromoteAllowed, Promoting, Makes, Writing
    <3>2. MakesCurrent(rd[q])'
      BY <1>r, <1>t, <2>1, <3>1 DEF MakesCurrent, Makes, Hot
    <3>3. SureCurrent(rd[q])'
      BY <1>r, <1>t, <2>1 DEF SureCurrent, Writing, Hit
    <3> QED
      BY <3>2, <3>3
  <2> QED
    BY <2>2, <2>3 DEF ReadersCurrent
<1>4. ASSUME NEW v \in Values, NEW c \in Chunks, Reuse(c, v)
      PROVE  NoStaleHit' /\ DroppedFirst' /\ ReadersCurrent'
  <2>1. /\ src[c] = Nil /\ UNCHANGED <<gen, cache, copy, wr>> /\ Disturb(c)
        /\ \A b \in Chunks : src'[b] = IF b = c THEN v ELSE src[b]
    BY <1>4, <1>t DEF Reuse
  <2>2. NoStaleHit' /\ DroppedFirst'
    BY <1>t, <2>1 DEF FreshInv, NoStaleHit, DroppedFirst, Writing
  <2>3. ASSUME NEW q \in Readers
        PROVE  MakesCurrent(rd[q])' /\ SureCurrent(rd[q])'
    <3> DEFINE x == rd[q]
    <3>0. /\ MakesCurrent(x) /\ SureCurrent(x)
          /\ x.pc # "idle" => x.chunk \in Chunks
          /\ x.pc \in {"update", "copy"} => x.data # Nil
      BY <1>r, <1>t
    <3>d. /\ rd'[q].pc = x.pc /\ rd'[q].chunk = x.chunk /\ rd'[q].data = x.data
          /\ rd'[q].entry = x.entry /\ rd'[q].path = x.path /\ rd'[q].gen = x.gen
          /\ rd'[q].sure => x.sure /\ (x.pc # "idle" => x.chunk # c)
      BY <2>1, Disturbed DEF FreshInv
    <3> HIDE DEF x
    <3>1. MakesCurrent(rd[q])'
      BY <2>1, <3>0, <3>d DEF MakesCurrent, Makes, Hot
    <3>2. SureCurrent(rd[q])'
      BY <2>1, <3>0, <3>d DEF SureCurrent, Writing, Hit
    <3> QED
      BY <3>1, <3>2
  <2> QED
    BY <2>2, <2>3 DEF ReadersCurrent
<1>5. CASE DropRows
  <2>1. /\ wr.pc = "drop" /\ wr'.pc = "write" /\ wr'.chunk = wr.chunk
        /\ UNCHANGED <<src, gen, copy, rd>>
        /\ \A b \in Chunks : cache'[b] = IF b = wr.chunk THEN Nil ELSE cache[b]
    BY <1>5, <1>t DEF DropRows, WriterState
  <2>2. NoStaleHit' /\ DroppedFirst'
    BY <1>t, <2>1 DEF FreshInv, NoStaleHit, DroppedFirst, Writing, Hit
  <2>3. ASSUME NEW q \in Readers
        PROVE  MakesCurrent(rd[q])' /\ SureCurrent(rd[q])'
    BY <1>r, <2>1 DEF MakesCurrent, Makes, SureCurrent, Writing, Hit, Hot
  <2> QED
    BY <2>2, <2>3 DEF ReadersCurrent
<1> QED
  BY <1>1, <1>2, <1>3, <1>4, <1>5

(* The cleaner and DeleteCacheDisk only take rows and copies away.         *)
LEMMA OnlyLess ==
    ASSUME Typed,
           \/ SelectCold \/ EvictCold
           \/ \E p \in Path : DeleteCopy(p)
           \/ \E d \in Disks : DeleteCacheDisk(d)
           \/ DeleteFiles \/ DeleteRows
    PROVE  /\ UNCHANGED <<src, gen, rd, wr>>
           /\ \A c \in Chunks : cache'[c] = cache[c] \/ cache'[c] = Nil
           /\ \A p \in Path : copy'[p] = copy[p] \/ copy'[p] = Nil
  BY DEF Typed, TablesTyped, SelectCold, EvictCold, DeleteCopy, DeleteCacheDisk, DeleteFiles,
     DeleteRows

LEMMA CleanStepFresh ==
    ASSUME FreshInv,
           \/ SelectCold \/ EvictCold
           \/ \E p \in Path : DeleteCopy(p)
           \/ \E d \in Disks : DeleteCacheDisk(d)
           \/ DeleteFiles \/ DeleteRows
    PROVE  NoStaleHit' /\ DroppedFirst' /\ ReadersCurrent'
<1> USE ConstantFacts
<1>1. /\ UNCHANGED <<src, gen, rd, wr>>
      /\ \A c \in Chunks : cache'[c] = cache[c] \/ cache'[c] = Nil
      /\ \A p \in Path : copy'[p] = copy[p] \/ copy'[p] = Nil
  BY OnlyLess DEF FreshInv
<1>2. /\ \A c \in Chunks : Hit(cache[c]) => cache[c].path \in Path
      /\ wr.pc # "idle" => wr.chunk \in Chunks
      /\ \A q \in Readers : /\ rd[q].pc = "save" => rd[q].path \in Path
                            /\ Hit(rd[q].entry) => rd[q].entry.path \in Path
  BY DEF FreshInv, Typed, TablesTyped, OthersTyped, ReadersTyped, RowsShaped, Hit, Row, Path,
     ReaderState
<1>3. NoStaleHit' /\ DroppedFirst'
  BY <1>1, <1>2 DEF FreshInv, NoStaleHit, DroppedFirst, Writing, Hit
<1>4. ASSUME NEW q \in Readers
      PROVE  MakesCurrent(rd[q])' /\ SureCurrent(rd[q])'
  <2>1. MakesCurrent(rd[q]) /\ SureCurrent(rd[q])
    BY DEF FreshInv, ReadersCurrent
  <2> QED
    BY <1>1, <1>2, <2>1 DEF MakesCurrent, Makes, SureCurrent, Writing, Hit, Hot
<1> QED
  BY <1>3, <1>4 DEF ReadersCurrent

LEMMA FreshKept ==
    ASSUME FreshInv, [Next]_vars, "promote" \notin Overlaps
    PROVE  FreshInv'
<1>1. Typed'
  BY NextTyped DEF FreshInv
<1>2. PromoteAllowed'
  BY DEF FreshInv, PromoteAllowed, Promoting, Writing, Next, Allowed, vars
<1>3. NoStaleHit' /\ DroppedFirst' /\ ReadersCurrent'
  <2>1. CASE UNCHANGED vars
    BY <2>1 DEF vars, FreshInv, NoStaleHit, DroppedFirst, ReadersCurrent, MakesCurrent, Makes,
       SureCurrent, Writing
  <2> QED
    BY <2>1, ReadStepFresh, CopyStepFresh, WriteStepFresh, CleanStepFresh DEF Next
<1> QED
  BY <1>1, <1>2, <1>3 DEF FreshInv

(* A copy that reads can hit is the content of the chunk, as long as no    *)
(* chunk is written or released while a reader makes a copy of what it has *)
(* read: dropCaches and dropCacheRows come in time.                        *)
THEOREM NeverStaleHit ==
    ASSUME "promote" \notin Overlaps PROVE Spec => []NoStaleHit
<1>1. FreshInv => NoStaleHit
  BY DEF FreshInv
<1>2. FreshInv /\ [Next]_vars => FreshInv'
  BY FreshKept
<1> QED
  BY <1>1, <1>2, InitFresh, PTL DEF Spec

(* A read no write or release overlaps returns the content of the chunk,   *)
(* whichever copies the cleaner and DeleteCacheDisk take away under it.    *)
THEOREM ReadsAreCurrent ==
    ASSUME "promote" \notin Overlaps PROVE Spec => []ReadsCurrent
<1>1. FreshInv => ReadsCurrent
  BY DEF FreshInv, ReadersCurrent, SureCurrent, ReadsCurrent
<1>2. FreshInv /\ [Next]_vars => FreshInv'
  BY FreshKept
<1> QED
  BY <1>1, <1>2, InitFresh, PTL DEF Spec
-----------------------------------------------------------------------------
(* No copy is lost.                                                        *)

LEMMA InitAccount == Init => Accounts /\ RowAllowed /\ PromoteAllowed
  BY ConstantFacts DEF Init, Accounts, RowAllowed, PromoteAllowed, Promoting, IdsGiven, ColdSame,
     PromotesUncached, IdleNoFiles, DropsAll, DiskCopies, CopiesAccounted, NoRead, NoWr, NoGone, Hit

LEMMA ReadStepAccount ==
    ASSUME AccountInv, NEW r \in Readers,
           \/ \E c \in Chunks : LoadChunk(r, c)
           \/ LoadCaches(r) \/ ReadData(r) \/ Return(r) \/ ChooseDisk(r)
    PROVE  Accounts'
<1>1. OnlyReaders /\ rd[r].pc # "save"
  BY DEF LoadChunk, LoadCaches, ReadData, Return, ChooseDisk
<1>2. \A q \in Readers \ {r} : rd'[q] = rd[q]
  BY DEF LoadChunk, LoadCaches, ReadData, Return, ChooseDisk, Reader, AccountInv, Typed, ReadersTyped
<1>3. /\ rd'[r].pc # "save"
      /\ Promoting(r)' => ~Hit(cache[rd'[r].chunk])
  <2>1. /\ rd[r] \in ReaderState /\ rd \in [Readers -> ReaderState]
        /\ Promoting(r) => ~Hit(cache[rd[r].chunk])
    BY DEF AccountInv, Typed, ReadersTyped, Accounts, PromotesUncached
  <2>2. CASE \E c \in Chunks : LoadChunk(r, c)
    <3>1. rd'[r].pc = "load"
      BY <2>1, <2>2 DEF LoadChunk, Reader, NoRead
    <3> QED
      BY <3>1 DEF Promoting
  <2>3. CASE LoadCaches(r)
    <3>1. rd'[r].pc = "read" /\ rd'[r].chunk = rd[r].chunk /\ rd'[r].entry = cache[rd[r].chunk]
      BY <2>1, <2>3 DEF LoadCaches, Reader, ReaderState
    <3> QED
      BY <3>1 DEF Promoting, Hot, Hit
  <2>4. CASE ReadData(r)
    <3>1. /\ rd[r].pc = "read" /\ rd'[r].pc \in {"failed", "update"} /\ rd'[r].chunk = rd[r].chunk
          /\ rd'[r].entry = rd[r].entry
      BY <2>1, <2>4 DEF ReadData, Reader, ReaderState
    <3> QED
      BY <2>1, <3>1 DEF Promoting, Hot
  <2>5. CASE Return(r)
    BY <2>1, <2>5 DEF Return, Reader, NoRead, Promoting
  <2>6. CASE ChooseDisk(r)
    <3>1. /\ rd[r].pc = "update" /\ rd'[r].pc \in {"idle", "insert", "bump", "copy"}
          /\ rd'[r].pc = "copy" => rd'[r].chunk = rd[r].chunk /\ rd'[r].entry = rd[r].entry
      BY <2>1, <2>6 DEF ChooseDisk, Reader, NoRead
    <3> QED
      BY <2>1, <3>1 DEF Promoting, Hot
  <2> QED
    BY <2>2, <2>3, <2>4, <2>5, <2>6
<1>4. PromotesUncached'
  <2> SUFFICES ASSUME NEW q \in Readers, Promoting(q)'
               PROVE  ~Hit(cache'[rd'[q].chunk])
    BY DEF PromotesUncached, Hit
  <2>1. UNCHANGED cache
    BY <1>1 DEF OnlyReaders
  <2>2. CASE q = r
    BY <1>3, <2>1, <2>2
  <2>3. CASE q # r
    BY <1>2, <2>1, <2>3 DEF AccountInv, Accounts, PromotesUncached, Promoting, Hot
  <2> QED
    BY <2>2, <2>3
<1> QED
  BY <1>1, <1>2, <1>3, <1>4 DEF AccountInv, Accounts, OnlyReaders, IdsGiven, ColdSame, IdleNoFiles,
     DropsAll, DiskCopies, CopiesAccounted

(* What the steps that change the rows leave of Accounts.                  *)
LEMMA CopyStepAccount ==
    ASSUME AccountInv, NEW r \in Readers,
           WriteCopy(r) \/ SavePromoted(r) \/ InsertRow(r) \/ Bump(r)
    PROVE  Accounts'
<1> USE ConstantFacts
<1>t. /\ cache \in [Chunks -> Row \cup {Nil}] /\ rd \in [Readers -> ReaderState]
      /\ copy \in [Path -> Copy \cup {Nil}] /\ rows \in Nat
      /\ (rd[r].pc # "idle" => rd[r].chunk \in Chunks)
      /\ \A c \in Chunks : cache[c] # Nil => cache[c].path \in 0..MaxPath /\ cache[c].id \in Nat
      /\ cold # Nil => \A e \in cold : e \in Row /\ e.id \in Nat
      /\ \A c \in Chunks : cache[c] # Nil => (cache[c].cached <=> cache[c].path # 0)
  BY DEF AccountInv, Typed, TablesTyped, ReadersTyped, OthersTyped, RowsShaped, Row
<1>o. ASSUME Reader(r, NoRead)
      PROVE  /\ \A q \in Readers : rd'[q] = IF q = r THEN NoRead ELSE rd[q]
             /\ \A q \in Readers : rd'[q].pc = "save" => q # r
             /\ \A q \in Readers : Promoting(q)' => q # r /\ Promoting(q)
  BY <1>o, <1>t DEF Reader, NoRead, Promoting, Hot
<1>s. ASSUME rd[r].pc # "save", Reader(r, NoRead),
             UNCHANGED <<cdisk, copy, junk, wr, cold, gone>>,
             \A c \in Chunks : FileOf(cache'[c]) = FileOf(cache[c]) /\ (Hit(cache'[c]) <=> Hit(cache[c])),
             \A c \in Chunks : Hit(cache[c]) =>
                cache'[c].path = cache[c].path /\ cache'[c].disk = cache[c].disk
      PROVE  PromotesUncached' /\ IdleNoFiles' /\ DropsAll' /\ DiskCopies' /\ CopiesAccounted'
  <2>1. PromotesUncached'
    <3> SUFFICES ASSUME NEW q \in Readers, Promoting(q)'
                 PROVE  ~Hit(cache'[rd'[q].chunk])
      BY DEF PromotesUncached, Hit
    <3>1. q # r /\ Promoting(q) /\ rd'[q] = rd[q] /\ rd[q].chunk \in Chunks
      BY <1>s, <1>o DEF Promoting, AccountInv, Typed, ReadersTyped
    <3> QED
      BY <1>s, <3>1 DEF AccountInv, Accounts, PromotesUncached
  <2>2. IdleNoFiles' /\ DropsAll'
    <3>1. wr.pc # "idle" => wr.chunk \in Chunks
      BY DEF AccountInv, Typed, OthersTyped
    <3>2. wr.pc = "drop" => FileOf(cache'[wr.chunk]) \subseteq wr.files
      BY <1>s, <3>1 DEF AccountInv, Accounts, DropsAll
    <3>3. (wr.pc = "drop" => FileOf(cache[wr.chunk]) \subseteq wr.files)' 
      BY <1>s, <3>2 DEF FileOf, Hit
    <3> QED
      BY <1>s, <3>3 DEF AccountInv, Accounts, IdleNoFiles, DropsAll
  <2>3. DiskCopies'
    <3>1. \A c \in Chunks : Hit(cache'[c]) /\ copy'[cache'[c].path] # Nil =>
              copy'[cache'[c].path].disk = cache'[c].disk
      BY <1>s DEF AccountInv, Accounts, DiskCopies
    <3>2. \A q \in Readers : rd'[q].pc = "save" => rd'[q] = rd[q]
      BY <1>s, <1>o
    <3> QED
      BY <1>s, <3>1, <3>2 DEF AccountInv, Accounts, DiskCopies, Hit
  <2>4. CopiesAccounted'
    <3> SUFFICES ASSUME NEW b \in Path, copy'[b] # Nil, copy'[b].disk \in cdisk'
                 PROVE  \/ \E c \in Chunks : cache'[c] # Nil /\ cache'[c].path = b
                        \/ b \in junk' \cup wr'.files \cup gone'.files
                        \/ \E q \in Readers : rd'[q].pc = "save" /\ rd'[q].path = b
      BY DEF CopiesAccounted
    <3>1. ASSUME NEW c \in Chunks, cache[c] # Nil, cache[c].path = b
          PROVE  cache'[c] # Nil /\ cache'[c].path = b
      BY <1>s, <1>t, <3>1 DEF Hit, Path
    <3>2. \A q \in Readers : rd[q].pc = "save" => rd'[q] = rd[q]
      BY <1>s, <1>o
    <3>3. \/ \E c \in Chunks : cache[c] # Nil /\ cache[c].path = b
          \/ b \in junk \cup wr.files \cup gone.files
          \/ \E q \in Readers : rd[q].pc = "save" /\ rd[q].path = b
      BY <1>s DEF AccountInv, Accounts, CopiesAccounted
    <3> QED
      BY <1>s, <3>1, <3>2, <3>3
  <2> QED
    BY <2>1, <2>2, <2>3, <2>4
<1>1. CASE WriteCopy(r)
  <2>1. CASE Reader(r, NoRead) /\ UNCHANGED copy
    <3>1. /\ rd[r].pc = "copy"
          /\ UNCHANGED <<cdisk, src, gen, cache, copy, junk, wr, cold, gone, rows>>
      BY <1>1, <2>1 DEF WriteCopy
    <3> QED
      BY <2>1, <3>1, <1>s DEF AccountInv, Accounts, IdsGiven, ColdSame, FileOf, Hit
  <2>2. CASE ~(Reader(r, NoRead) /\ UNCHANGED copy)
    <3> DEFINE p == Min(Path \ Used)
               x == [rd[r] EXCEPT !.pc = "save", !.path = p, !.data = Nil]
               f == [data |-> rd[r].data, disk |-> rd[r].disk]
    <3>1. /\ Path \ Used # {} /\ copy' = [copy EXCEPT ![p] = f] /\ Reader(r, x)
          /\ rd[r].pc = "copy" /\ UNCHANGED <<cdisk, cache, junk, wr, cold, gone, rows>>
      BY <1>1, <2>2 DEF WriteCopy
    <3>2. p \in Path \ Used
      BY <3>1, LeastPath
    <3>3. f # Nil /\ f.disk = rd[r].disk
      <4>1. f \in Copy
        BY <3>1 DEF AccountInv, Typed, ReadersTyped, Copy
      <4> QED
        BY <4>1
    <3> HIDE DEF p
    <3>4. \A b \in Path : copy'[b] = IF b = p THEN f ELSE copy[b]
      BY <1>t, <3>1, <3>2
    <3> HIDE DEF f
    <3>5. /\ x.pc = "save" /\ x.path = p /\ x.chunk = rd[r].chunk /\ x.entry = rd[r].entry
          /\ x.disk = rd[r].disk
      BY <1>t DEF ReaderState
    <3>6. \A q \in Readers : rd'[q] = IF q = r THEN x ELSE rd[q]
      BY <1>t, <3>1 DEF Reader
    <3> HIDE DEF x
    <3>7. /\ \A c \in Chunks : cache[c] # Nil => cache[c].path # p
          /\ \A q \in Readers : rd[q].path # p
          /\ p \notin wr.files \cup gone.files
      BY <3>2 DEF Used
    <3>8. \A q \in Readers : Promoting(q)' => Promoting(q) /\ rd'[q].chunk = rd[q].chunk
      BY <3>1, <3>5, <3>6 DEF Promoting, Hot
    <3>9. IdsGiven' /\ ColdSame' /\ PromotesUncached' /\ IdleNoFiles'
      BY <3>1, <3>8 DEF AccountInv, Accounts, IdsGiven, ColdSame, PromotesUncached, IdleNoFiles,
         Hit, FileOf
    <3>10. DropsAll'
      <4>1. wr.files \subseteq Path
        BY DEF AccountInv, Typed, OthersTyped, WriterState
      <4> QED
        BY <3>1, <3>4, <3>7, <4>1 DEF AccountInv, Accounts, DropsAll, FileOf, Hit
    <3>11. DiskCopies'
      <4>1. \A c \in Chunks : Hit(cache[c]) => cache[c].path \in Path /\ cache[c].path # p
        BY <1>t, <3>7 DEF Hit, Path
      <4>2. \A q \in Readers : rd[q].pc = "save" => rd[q].path \in Path
        BY DEF AccountInv, Typed, ReadersTyped
      <4>3. gone.files \subseteq Path
        BY DEF AccountInv, Typed, OthersTyped, GoneState
      <4>4. \A q \in Readers : rd'[q].pc = "save" /\ copy'[rd'[q].path] # Nil =>
                copy'[rd'[q].path].disk = rd'[q].disk
        <5> SUFFICES ASSUME NEW q \in Readers, rd'[q].pc = "save", copy'[rd'[q].path] # Nil
                     PROVE  copy'[rd'[q].path].disk = rd'[q].disk
          OBVIOUS
        <5>1. CASE q = r
          BY <3>2, <3>3, <3>4, <3>5, <3>6, <5>1
        <5>2. CASE q # r
          BY <3>4, <3>6, <3>7, <4>2, <5>2 DEF AccountInv, Accounts, DiskCopies
        <5> QED
          BY <5>1, <5>2
      <4>5. \A c \in Chunks : Hit(cache'[c]) /\ copy'[cache'[c].path] # Nil =>
                copy'[cache'[c].path].disk = cache'[c].disk
        BY <3>1, <3>4, <4>1 DEF AccountInv, Accounts, DiskCopies
      <4>6. gone'.pc = "rows" => \A b \in gone'.files : copy'[b] = Nil
        BY <3>1, <3>4, <3>7, <4>3 DEF AccountInv, Accounts, DiskCopies
      <4> QED
        BY <4>4, <4>5, <4>6 DEF DiskCopies, Hit
    <3>12. CopiesAccounted'
      <4> SUFFICES ASSUME NEW b \in Path, copy'[b] # Nil, copy'[b].disk \in cdisk'
                   PROVE  \/ \E c \in Chunks : cache'[c] # Nil /\ cache'[c].path = b
                          \/ b \in junk' \cup wr'.files \cup gone'.files
                          \/ \E q \in Readers : rd'[q].pc = "save" /\ rd'[q].path = b
        BY DEF CopiesAccounted
      <4>1. CASE b = p
        BY <3>5, <3>6, <4>1
      <4>2. CASE b # p
        <5>1. \/ \E c \in Chunks : cache[c] # Nil /\ cache[c].path = b
              \/ b \in junk \cup wr.files \cup gone.files
              \/ \E q \in Readers : rd[q].pc = "save" /\ rd[q].path = b
          BY <3>1, <3>4, <4>2 DEF AccountInv, Accounts, CopiesAccounted
        <5> QED
          BY <3>1, <3>6, <5>1
      <4> QED
        BY <4>1, <4>2
    <3> QED
      BY <3>9, <3>10, <3>11, <3>12 DEF Accounts
  <2> QED
    BY <2>1, <2>2
<1>2. CASE SavePromoted(r)
  <2> DEFINE c0 == rd[r].chunk
             e  == Promoted(rd[r])
  <2>1. /\ rd[r].pc = "save" /\ c0 \in Chunks /\ Hot(rd[r].entry) /\ rd[r].entry \in Row
        /\ Reader(r, NoRead) /\ UNCHANGED <<cdisk, copy, junk, wr, cold, gone, rows>>
        /\ rd[r].path \in Path
    BY <1>2 DEF SavePromoted, AccountInv, Typed, ReadersTyped, ReaderState, Hot
  <2>2. /\ cache[c0] # Nil /\ cache[c0].id = rd[r].entry.id
        /\ \A q \in Readers \ {r} : ~(Promoting(q) /\ rd[q].chunk = c0)
        /\ cold # Nil => \A x \in cold : x.id # rd[r].entry.id
        /\ ~Hit(cache[c0]) /\ ~Writing(c0)
    BY <2>1 DEF AccountInv, RowAllowed, Promoting, Accounts, PromotesUncached, PromoteAllowed
  <2>3. e.path = rd[r].path /\ e.disk = rd[r].disk /\ e.id = cache[c0].id /\ e \in Row
    <3>1. rd[r].path \in 0..MaxPath /\ rd[r].disk \in Disks
      BY <1>t, <2>1 DEF ReaderState, AccountInv, Typed, ReadersTyped
    <3> QED
      BY <2>1, <2>2, <3>1 DEF Promoted, Row
  <2>4. \A c \in Chunks : cache'[c] = IF c = c0 THEN e ELSE cache[c]
    BY <1>2, <1>t, <2>2 DEF SavePromoted
  <2> HIDE DEF e, c0
  <2>5. IdsGiven'
    <3>1. \A c \in Chunks : cache'[c] # Nil => cache[c] # Nil /\ cache'[c].id = cache[c].id
      BY <2>2, <2>3, <2>4
    <3> QED
      BY <2>1, <3>1 DEF AccountInv, Accounts, IdsGiven
  <2>6. ColdSame'
    BY <2>1, <2>2, <2>3, <2>4 DEF AccountInv, Accounts, ColdSame, FileOf, Hit
  <2>7. PromotesUncached'
    <3> SUFFICES ASSUME NEW q \in Readers, Promoting(q)'
                 PROVE  ~Hit(cache'[rd'[q].chunk])
      BY DEF PromotesUncached, Hit
    <3>1. q # r /\ Promoting(q) /\ rd'[q] = rd[q] /\ rd[q].chunk \in Chunks
      BY <1>o, <2>1 DEF Promoting, AccountInv, Typed, ReadersTyped
    <3>2. rd[q].chunk # c0
      BY <2>2, <3>1
    <3> QED
      BY <2>4, <3>1, <3>2 DEF AccountInv, Accounts, PromotesUncached
  <2>8. IdleNoFiles' /\ DropsAll'
    <3>1. wr.pc # "idle" => wr.chunk \in Chunks /\ wr.chunk # c0
      BY <2>2 DEF Writing, AccountInv, Typed, OthersTyped
    <3> QED
      BY <2>1, <2>4, <3>1 DEF AccountInv, Accounts, IdleNoFiles, DropsAll, FileOf, Hit
  <2>9. DiskCopies'
    <3>1. copy[rd[r].path] # Nil => copy[rd[r].path].disk = rd[r].disk
      BY <2>1 DEF AccountInv, Accounts, DiskCopies
    <3>2. \A c \in Chunks : Hit(cache'[c]) /\ copy'[cache'[c].path] # Nil =>
              copy'[cache'[c].path].disk = cache'[c].disk
      BY <2>1, <2>3, <2>4, <3>1 DEF AccountInv, Accounts, DiskCopies
    <3>3. \A q \in Readers : rd'[q].pc = "save" => rd'[q] = rd[q]
      BY <1>o, <2>1
    <3> QED
      BY <2>1, <3>2, <3>3 DEF AccountInv, Accounts, DiskCopies, Hit
  <2>10. CopiesAccounted'
    <3> SUFFICES ASSUME NEW b \in Path, copy'[b] # Nil, copy'[b].disk \in cdisk'
                 PROVE  \/ \E c \in Chunks : cache'[c] # Nil /\ cache'[c].path = b
                        \/ b \in junk' \cup wr'.files \cup gone'.files
                        \/ \E q \in Readers : rd'[q].pc = "save" /\ rd'[q].path = b
      BY DEF CopiesAccounted
    <3>1. CASE \E c \in Chunks : cache[c] # Nil /\ cache[c].path = b
      <4>1. PICK c \in Chunks : cache[c] # Nil /\ cache[c].path = b
        BY <3>1
      <4>2. b # 0
        BY DEF Path
      <4>3. c # c0
        BY <1>t, <2>2, <4>1, <4>2 DEF Hit
      <4> QED
        BY <2>4, <4>1, <4>3
    <3>2. CASE \E q \in Readers : rd[q].pc = "save" /\ rd[q].path = b
      <4>1. PICK q \in Readers : rd[q].pc = "save" /\ rd[q].path = b
        BY <3>2
      <4>2. CASE q = r
        <5>1. c0 \in Chunks /\ cache'[c0] = e /\ e # Nil /\ e.path = b
          BY <2>1, <2>3, <2>4, <4>1, <4>2
        <5> QED
          BY <5>1
      <4>3. CASE q # r
        BY <1>o, <2>1, <4>1, <4>3
      <4> QED
        BY <4>2, <4>3
    <3> QED
      BY <2>1, <3>1, <3>2 DEF AccountInv, Accounts, CopiesAccounted
  <2> QED
    BY <2>5, <2>6, <2>7, <2>8, <2>9, <2>10 DEF Accounts
<1>4. CASE InsertRow(r)
  <2> DEFINE e == [id |-> rows + 1, disk |-> rd[r].disk, path |-> 0, count |-> 1, cached |-> FALSE]
  <2>1. /\ rd[r].pc # "save" /\ Reader(r, NoRead) /\ UNCHANGED <<cdisk, copy, junk, wr, cold, gone>>
        /\ \/ UNCHANGED <<cache, rows>>
           \/ /\ cache[rd[r].chunk] = Nil /\ rows' = rows + 1 /\ rd[r].chunk \in Chunks
              /\ \A c \in Chunks : cache'[c] = IF c = rd[r].chunk THEN e ELSE cache[c]
    BY <1>4, <1>t DEF InsertRow
  <2>2. ~e.cached /\ e.id = rows + 1
    OBVIOUS
  <2> HIDE DEF e
  <2>3. IdsGiven' /\ ColdSame'
    <3>1. CASE UNCHANGED <<cache, rows>>
      BY <2>1, <3>1 DEF AccountInv, Accounts, IdsGiven, ColdSame, FileOf, Hit
    <3>2. CASE ~UNCHANGED <<cache, rows>>
      <4>1. IdsGiven /\ ColdSame
        BY DEF AccountInv, Accounts
      <4>2. IdsGiven'
        BY <1>t, <2>1, <2>2, <3>2, <4>1 DEF IdsGiven
      <4>3. ColdSame'
        <5> SUFFICES ASSUME cold # Nil, NEW x \in cold, NEW c \in Chunks, cache'[c] # Nil,
                            cache'[c].id = x.id
                     PROVE  FileOf(x) = FileOf(cache'[c])
          BY <2>1 DEF ColdSame, FileOf, Hit
        <5>1. x.id \in Nat /\ x.id <= rows
          BY <1>t, <4>1 DEF IdsGiven
        <5>2. cache'[c] = cache[c]
          BY <1>t, <2>1, <2>2, <3>2, <5>1
        <5> QED
          BY <4>1, <5>2 DEF ColdSame
      <4> QED
        BY <4>2, <4>3
    <3> QED
      BY <3>1, <3>2
  <2>4. \A c \in Chunks : FileOf(cache'[c]) = FileOf(cache[c]) /\ (Hit(cache'[c]) <=> Hit(cache[c]))
    BY <2>1, <2>2 DEF FileOf, Hit
  <2>5. \A c \in Chunks : Hit(cache[c]) =>
            cache'[c].path = cache[c].path /\ cache'[c].disk = cache[c].disk
    BY <2>1, <2>2 DEF Hit
  <2> QED
    BY <1>s, <2>1, <2>3, <2>4, <2>5 DEF Accounts
<1>5. CASE Bump(r)
  <2>1. /\ rd[r].pc # "save" /\ Reader(r, NoRead) /\ UNCHANGED <<cdisk, copy, junk, wr, cold, gone, rows>>
        /\ \A c \in Chunks : cache'[c] = cache[c] \/
              /\ cache[c] # Nil /\ cache'[c] # Nil
              /\ cache'[c].path = cache[c].path /\ cache'[c].cached = cache[c].cached
              /\ cache'[c].id = cache[c].id /\ cache'[c].disk = cache[c].disk
    <3>1. Typed'
      BY <1>5, CopyStepTyped DEF AccountInv
    <3>2. \A c \in Chunks : cache[c] # Nil => [cache[c] EXCEPT !.count = IF @ > Threshold THEN @ ELSE @ + 1] \in Row
      BY <1>t DEF Row
    <3> QED
      BY <1>5, <1>t, <3>2 DEF Bump, Row
  <2>2. IdsGiven' /\ ColdSame'
    <3>1. IdsGiven'
      BY <2>1 DEF AccountInv, Accounts, IdsGiven
    <3>2. ColdSame'
      BY <2>1 DEF AccountInv, Accounts, ColdSame, FileOf, Hit
    <3> QED
      BY <3>1, <3>2
  <2>3. \A c \in Chunks : FileOf(cache'[c]) = FileOf(cache[c]) /\ (Hit(cache'[c]) <=> Hit(cache[c]))
    BY <2>1 DEF FileOf, Hit
  <2>4. \A c \in Chunks : Hit(cache[c]) =>
            cache'[c].path = cache[c].path /\ cache'[c].disk = cache[c].disk
    BY <2>1 DEF Hit
  <2> QED
    BY <1>s, <2>1, <2>2, <2>3, <2>4 DEF Accounts
<1> QED
  BY <1>1, <1>2, <1>4, <1>5

(* Rows and copies that go, with nothing else that counts for a copy that  *)
(* stays.                                                                  *)
LEMMA LessAccount ==
    ASSUME Accounts,
           UNCHANGED <<rd, rows>>, cdisk' \subseteq cdisk,
           \A c \in Chunks : cache'[c] = cache[c] \/ cache'[c] = Nil,
           \A p \in Path : copy'[p] = copy[p] \/ copy'[p] = Nil,
           \A p \in Path : copy'[p] # Nil /\ copy'[p].disk \in cdisk' =>
                /\ \A c \in Chunks : cache[c] # Nil /\ cache[c].path = p =>
                        cache'[c] = cache[c] \/ p \in junk' \cup wr'.files \cup gone'.files
                /\ p \in junk \cup wr.files \cup gone.files =>
                        p \in junk' \cup wr'.files \cup gone'.files
    PROVE  CopiesAccounted'
<1> SUFFICES ASSUME NEW p \in Path, copy'[p] # Nil, copy'[p].disk \in cdisk'
             PROVE  \/ \E c \in Chunks : cache'[c] # Nil /\ cache'[c].path = p
                    \/ p \in junk' \cup wr'.files \cup gone'.files
                    \/ \E q \in Readers : rd'[q].pc = "save" /\ rd'[q].path = p
  BY DEF CopiesAccounted
<1>1. copy[p] # Nil /\ copy[p].disk \in cdisk
  OBVIOUS
<1>2. \/ \E c \in Chunks : cache[c] # Nil /\ cache[c].path = p
      \/ p \in junk \cup wr.files \cup gone.files
      \/ \E q \in Readers : rd[q].pc = "save" /\ rd[q].path = p
  BY <1>1 DEF Accounts, CopiesAccounted
<1> QED
  BY <1>2

LEMMA WriteStepAccount ==
    ASSUME AccountInv,
           \/ \E c \in Chunks : StartWrite(c) \/ Release(c)
           \/ \E v \in Values : WriteFile(v) \/ \E c \in Chunks : Reuse(c, v)
           \/ DropRows
    PROVE  Accounts'
<1> USE ConstantFacts
<1>t0. TablesTyped /\ ReadersTyped /\ OthersTyped /\ RowsShaped
  BY DEF AccountInv, Typed
<1>t. /\ cache \in [Chunks -> Row \cup {Nil}] /\ wr \in WriterState
      /\ (wr.pc # "idle" => wr.chunk \in Chunks)
      /\ \A q \in Readers : rd[q].pc # "idle" => rd[q].chunk \in Chunks
      /\ \A c \in Chunks : cache[c] # Nil => (cache[c].cached <=> cache[c].path # 0)
      /\ 0 \notin Path
  <2>1. cache \in [Chunks -> Row \cup {Nil}] /\ 0 \notin Path
    BY ONLY <1>t0 DEF TablesTyped, Path
  <2>2. wr \in WriterState /\ (wr.pc # "idle" => wr.chunk \in Chunks)
    BY ONLY <1>t0 DEF OthersTyped
  <2>3. \A q \in Readers : rd[q].pc # "idle" => rd[q].chunk \in Chunks
    BY ONLY <1>t0 DEF ReadersTyped
  <2>4. \A c \in Chunks : cache[c] # Nil => (cache[c].cached <=> cache[c].path # 0)
    BY ONLY <1>t0 DEF RowsShaped
  <2> QED
    BY ONLY <2>1, <2>2, <2>3, <2>4
<1>a. Accounts
  BY DEF AccountInv
<1>f. \A c \in Chunks, p \in Path : cache[c] # Nil /\ cache[c].path = p => p \in FileOf(cache[c])
  BY <1>t DEF FileOf, Hit
(* The readers but for what they are sure of.                              *)
<1>d. ASSUME NEW c, Disturb(c), UNCHANGED cache
      PROVE  PromotesUncached'
  <2> SUFFICES ASSUME NEW q \in Readers, Promoting(q)'
               PROVE  ~Hit(cache'[rd'[q].chunk])
    BY DEF PromotesUncached, Hit
  <2>1. Promoting(q) /\ rd'[q].chunk = rd[q].chunk
    BY <1>d, Disturbed DEF Promoting, Hot, AccountInv
  <2> QED
    BY <1>a, <1>d, <2>1 DEF Accounts, PromotesUncached
<1>e. ASSUME NEW c, Disturb(c), UNCHANGED copy
      PROVE  /\ \A q \in Readers : rd'[q].pc = "save" /\ copy'[rd'[q].path] # Nil =>
                    copy'[rd'[q].path].disk = rd'[q].disk
             /\ \A p : (\E q \in Readers : rd[q].pc = "save" /\ rd[q].path = p) =>
                       \E q \in Readers : rd'[q].pc = "save" /\ rd'[q].path = p
  <2>1. \A q \in Readers : rd'[q].pc = rd[q].pc /\ rd'[q].path = rd[q].path /\ rd'[q].disk = rd[q].disk
    BY <1>e, Disturbed DEF AccountInv
  <2> QED
    BY <1>a, <1>e, <2>1 DEF Accounts, DiskCopies
<1>1. ASSUME NEW c \in Chunks, StartWrite(c)
      PROVE  Accounts'
  <2>1. /\ wr.pc = "idle" /\ wr'.chunk = c /\ wr'.files = FileOf(cache[c])
        /\ wr'.pc = (IF cache[c] = Nil THEN "write" ELSE "drop")
        /\ UNCHANGED <<cdisk, cache, copy, junk, cold, gone, rows>> /\ Disturb(c)
    BY <1>1 DEF StartWrite
  <2>2. IdsGiven' /\ ColdSame' /\ PromotesUncached'
    BY <1>a, <1>d, <2>1 DEF Accounts, IdsGiven, ColdSame, FileOf, Hit
  <2>3. IdleNoFiles' /\ DropsAll'
    BY <1>a, <2>1 DEF Accounts, IdleNoFiles, DropsAll, FileOf, Hit
  <2>4. DiskCopies'
    BY <1>a, <1>e, <2>1 DEF Accounts, DiskCopies, Hit
  <2>5. CopiesAccounted'
    BY <1>a, <1>e, <2>1 DEF Accounts, CopiesAccounted, IdleNoFiles
  <2> QED
    BY <2>2, <2>3, <2>4, <2>5 DEF Accounts
<1>2. ASSUME NEW c \in Chunks, Release(c)
      PROVE  Accounts'
  <2>1. /\ ~Writing(c) /\ Disturb(c) /\ junk' = junk \cup FileOf(cache[c])
        /\ \A b \in Chunks : cache'[b] = IF b = c THEN Nil ELSE cache[b]
        /\ UNCHANGED <<cdisk, copy, wr, cold, gone, rows>>
    BY <1>2, <1>t DEF Release, Dropped
  <2>2. IdsGiven' /\ ColdSame'
    <3>1. \A b \in Chunks : cache'[b] # Nil => cache'[b] = cache[b]
      BY <2>1
    <3>2. IdsGiven'
      BY <1>a, <2>1, <3>1 DEF Accounts, IdsGiven
    <3>3. ColdSame'
      BY <1>a, <2>1, <3>1 DEF Accounts, ColdSame, FileOf, Hit
    <3> QED
      BY <3>2, <3>3
  <2>3. PromotesUncached'
    <3> SUFFICES ASSUME NEW q \in Readers, Promoting(q)'
                 PROVE  ~Hit(cache'[rd'[q].chunk])
      BY DEF PromotesUncached, Hit
    <3>1. Promoting(q) /\ rd'[q].chunk = rd[q].chunk /\ rd[q].chunk \in Chunks
      BY <1>t, <2>1, Disturbed DEF Promoting, Hot, AccountInv
    <3> QED
      BY <1>a, <2>1, <3>1 DEF Accounts, PromotesUncached, Hit
  <2>4. IdleNoFiles' /\ DropsAll'
    <3>1. wr.pc = "drop" => cache'[wr.chunk] = cache[wr.chunk]
      BY <1>t, <2>1 DEF Writing
    <3> QED
      BY <1>a, <2>1, <3>1 DEF Accounts, IdleNoFiles, DropsAll, FileOf, Hit
  <2>5. DiskCopies'
    BY <1>a, <1>e, <2>1 DEF Accounts, DiskCopies, Hit
  <2>6. CopiesAccounted'
    BY <1>a, <1>e, <1>f, <2>1 DEF Accounts, CopiesAccounted
  <2> QED
    BY <2>2, <2>3, <2>4, <2>5, <2>6 DEF Accounts
<1>3. ASSUME NEW v \in Values, WriteFile(v)
      PROVE  Accounts'
  <2>1. /\ wr.pc = "write" /\ wr'.pc = "idle" /\ wr'.files = {}
        /\ UNCHANGED <<cdisk, cache, copy, junk, rd, cold, gone, rows>>
    BY <1>3 DEF WriteFile, NoWr
  <2>2. /\ IdsGiven' /\ ColdSame' /\ PromotesUncached' /\ IdleNoFiles' /\ DropsAll' /\ DiskCopies'
    BY <1>a, <2>1 DEF Accounts, IdsGiven, ColdSame, FileOf, Hit, PromotesUncached, Promoting, Hot,
       IdleNoFiles, DropsAll, DiskCopies
  <2>3. CopiesAccounted'
    BY <1>a, <2>1 DEF Accounts, DropsAll, CopiesAccounted
  <2> QED
    BY <2>2, <2>3 DEF Accounts
<1>4. ASSUME NEW v \in Values, NEW c \in Chunks, Reuse(c, v)
      PROVE  Accounts'
  <2>1. UNCHANGED <<cdisk, cache, copy, junk, wr, cold, gone, rows>> /\ Disturb(c)
    BY <1>4 DEF Reuse
  <2>2. IdsGiven' /\ ColdSame' /\ PromotesUncached' /\ IdleNoFiles' /\ DropsAll'
    BY <1>a, <1>d, <2>1 DEF Accounts, IdsGiven, ColdSame, FileOf, Hit, IdleNoFiles, DropsAll
  <2>3. DiskCopies' /\ CopiesAccounted'
    BY <1>a, <1>e, <2>1 DEF Accounts, DiskCopies, CopiesAccounted, Hit
  <2> QED
    BY <2>2, <2>3 DEF Accounts
<1>5. CASE DropRows
  <2>1. /\ wr.pc = "drop" /\ wr'.pc = "write" /\ wr'.chunk = wr.chunk /\ wr'.files = wr.files
        /\ junk' = junk \cup wr.files /\ wr.chunk \in Chunks
        /\ \A b \in Chunks : cache'[b] = IF b = wr.chunk THEN Nil ELSE cache[b]
        /\ UNCHANGED <<cdisk, copy, rd, cold, gone, rows>>
    BY <1>5, <1>t DEF DropRows, WriterState
  <2>2. IdsGiven' /\ ColdSame'
    <3>1. \A b \in Chunks : cache'[b] # Nil => cache'[b] = cache[b]
      BY <2>1
    <3>2. IdsGiven'
      BY <1>a, <2>1, <3>1 DEF Accounts, IdsGiven
    <3>3. ColdSame'
      BY <1>a, <2>1, <3>1 DEF Accounts, ColdSame, FileOf, Hit
    <3> QED
      BY <3>2, <3>3
  <2>3. PromotesUncached'
    BY <1>a, <1>t, <2>1 DEF Accounts, PromotesUncached, Promoting, Hot, Hit
  <2>4. IdleNoFiles' /\ DropsAll' /\ DiskCopies'
    BY <1>a, <2>1 DEF Accounts, IdleNoFiles, DropsAll, DiskCopies, Hit
  <2>5. CopiesAccounted'
    BY <1>a, <1>f, <2>1 DEF Accounts, DropsAll, CopiesAccounted
  <2> QED
    BY <2>2, <2>3, <2>4, <2>5 DEF Accounts
<1> QED
  BY <1>1, <1>2, <1>3, <1>4, <1>5

LEMMA CleanStepAccount ==
    ASSUME AccountInv,
           \/ SelectCold \/ EvictCold
           \/ \E p \in Path : DeleteCopy(p)
           \/ \E d \in Disks : DeleteCacheDisk(d)
           \/ DeleteFiles \/ DeleteRows
    PROVE  Accounts'
<1> USE ConstantFacts
<1>t. /\ cache \in [Chunks -> Row \cup {Nil}]
      /\ copy \in [Path -> Copy \cup {Nil}] /\ junk \subseteq Path
      /\ wr.files \subseteq Path /\ gone.files \subseteq Path /\ gone \in GoneState
      /\ (wr.pc # "idle" => wr.chunk \in Chunks)
      /\ \A q \in Readers : /\ rd[q].pc # "idle" => rd[q].chunk \in Chunks
                            /\ rd[q].pc = "save" => rd[q].path \in Path
      /\ \A c \in Chunks : cache[c] # Nil => (cache[c].cached <=> cache[c].path # 0)
      /\ \A c \in Chunks : Hit(cache[c]) => cache[c].path \in Path
      /\ 0 \notin Path
  BY DEF AccountInv, Typed, TablesTyped, ReadersTyped, OthersTyped, WriterState, GoneState, RowsShaped,
     Path, Hit, Row
<1>a. Accounts
  BY DEF AccountInv
<1>f. \A c \in Chunks, p \in Path : cache[c] # Nil /\ cache[c].path = p => p \in FileOf(cache[c])
  BY <1>t DEF FileOf, Hit
<1>o. /\ UNCHANGED <<rd, wr>>
      /\ \A c \in Chunks : cache'[c] = cache[c] \/ cache'[c] = Nil
      /\ \A p \in Path : copy'[p] = copy[p] \/ copy'[p] = Nil
  BY OnlyLess DEF AccountInv
<1>p. PromotesUncached'
  BY <1>a, <1>o, <1>t DEF Accounts, PromotesUncached, Promoting, Hot, Hit
(* Fewer rows keep the ids apart, and what is cold known.                  *)
<1>i. ASSUME UNCHANGED <<cold, rows>>
      PROVE  IdsGiven' /\ ColdSame'
  BY <1>a, <1>i, <1>o DEF Accounts, IdsGiven, ColdSame, FileOf, Hit
<1>j. ASSUME UNCHANGED gone
      PROVE  DiskCopies' /\ IdleNoFiles'
  <2>1. IdleNoFiles'
    BY <1>a, <1>j, <1>o DEF Accounts, IdleNoFiles
  <2>2. DiskCopies'
    BY <1>a, <1>j, <1>o, <1>t DEF Accounts, DiskCopies, Hit
  <2> QED
    BY <2>1, <2>2
<1>k. ASSUME junk \subseteq junk'
      PROVE  DropsAll'
  BY <1>a, <1>k, <1>o, <1>t DEF Accounts, DropsAll, FileOf, Hit
<1>1. CASE SelectCold
  <2>1. PICK C \in SUBSET {c \in Chunks : cache[c] # Nil} : cold' = {cache[c] : c \in C}
    BY <1>1 DEF SelectCold
  <2>2. UNCHANGED <<cdisk, cache, copy, junk, gone, rows>>
    BY <1>1 DEF SelectCold
  <2>3. IdsGiven'
    BY <1>a, <2>1, <2>2 DEF Accounts, IdsGiven
  <2>4. ColdSame'
    <3>1. IdsGiven
      BY <1>a DEF Accounts
    <3>2. \A e \in cold', c \in Chunks : cache[c] # Nil /\ cache[c].id = e.id => e = cache[c]
      BY <2>1, <3>1 DEF IdsGiven
    <3> QED
      BY <2>2, <3>2 DEF ColdSame, FileOf, Hit
  <2>5. CopiesAccounted'
    BY <1>a, <1>o, <2>2 DEF Accounts, CopiesAccounted
  <2> QED
    BY <1>j, <1>k, <1>p, <2>2, <2>3, <2>4, <2>5 DEF Accounts
<1>2. CASE EvictCold
  <2>1. /\ cold # Nil /\ cold' = Nil /\ junk' = junk \cup EvictedFiles
        /\ UNCHANGED <<cdisk, copy, gone, rows>>
        /\ \A c \in Chunks : cache'[c] = IF cache[c] # Nil /\ \E e \in cold : e.id = cache[c].id
                                         THEN Nil ELSE cache[c]
    BY <1>2, <1>t DEF EvictCold
  <2>2. IdsGiven' /\ ColdSame'
    BY <1>a, <1>o, <2>1 DEF Accounts, IdsGiven, ColdSame
  <2>3. ASSUME NEW c \in Chunks, NEW p \in Path, cache[c] # Nil, cache[c].path = p
        PROVE  cache'[c] = cache[c] \/ p \in junk'
    <3>1. CASE \E e \in cold : e.id = cache[c].id
      <4>1. PICK e \in cold : e.id = cache[c].id
        BY <3>1
      <4>2. FileOf(e) = FileOf(cache[c])
        BY <1>a, <2>1, <2>3, <4>1 DEF Accounts, ColdSame
      <4> QED
        BY <1>f, <2>1, <2>3, <4>2 DEF EvictedFiles
    <3>2. CASE ~\E e \in cold : e.id = cache[c].id
      BY <2>1, <3>2
    <3> QED
      BY <3>1, <3>2
  <2>4. CopiesAccounted'
    BY <1>a, <1>o, <2>1, <2>3, LessAccount
  <2> QED
    BY <1>j, <1>k, <1>p, <2>1, <2>2, <2>4 DEF Accounts
<1>3. ASSUME NEW p \in Path, DeleteCopy(p)
      PROVE  Accounts'
  <2>1. /\ p \in junk /\ junk' = junk \ {p} /\ UNCHANGED <<cdisk, cache, cold, gone, rows>>
        /\ \A b \in Path : copy'[b] = IF b = p THEN Nil ELSE copy[b]
    BY <1>3, <1>t DEF DeleteCopy
  <2>2. DropsAll'
    BY <1>a, <1>o, <1>t, <2>1 DEF Accounts, DropsAll, FileOf, Hit
  <2>3. CopiesAccounted'
    BY <1>a, <1>o, <2>1, LessAccount
  <2> QED
    BY <1>i, <1>j, <1>p, <2>1, <2>2, <2>3 DEF Accounts
<1>4. ASSUME NEW d \in Disks, DeleteCacheDisk(d)
      PROVE  Accounts'
  <2>1. /\ gone.pc = "idle" /\ gone'.pc = "files" /\ UNCHANGED <<cdisk, cache, copy, junk, cold, rows>>
    BY <1>4 DEF DeleteCacheDisk
  <2>2. gone.files = {}
    BY <1>a, <2>1 DEF Accounts, IdleNoFiles
  <2>3. IdleNoFiles' /\ DiskCopies'
    BY <1>a, <1>o, <2>1 DEF Accounts, IdleNoFiles, DiskCopies, Hit
  <2>4. CopiesAccounted'
    BY <1>a, <1>o, <2>1, <2>2, LessAccount
  <2> QED
    BY <1>i, <1>k, <1>p, <2>1, <2>3, <2>4 DEF Accounts
<1>5. CASE DeleteFiles
  <2>1. /\ gone.pc = "files" /\ gone'.pc = "rows" /\ gone'.files = gone.files
        /\ UNCHANGED <<cdisk, cache, junk, cold, rows>>
        /\ \A p \in Path : copy'[p] = IF p \in gone.files THEN Nil ELSE copy[p]
    BY <1>5, <1>t DEF DeleteFiles, GoneState
  <2>2. IdleNoFiles'
    BY <1>a, <1>o, <2>1 DEF Accounts, IdleNoFiles
  <2>3. DiskCopies'
    BY <1>a, <1>o, <1>t, <2>1 DEF Accounts, DiskCopies, Hit
  <2>4. CopiesAccounted'
    BY <1>a, <1>o, <2>1, LessAccount
  <2> QED
    BY <1>i, <1>k, <1>p, <2>1, <2>2, <2>3, <2>4 DEF Accounts
<1>6. CASE DeleteRows
  <2>1. /\ gone.pc = "rows" /\ gone'.pc = "idle" /\ gone'.files = {} /\ cdisk' = cdisk \ {gone.disk}
        /\ UNCHANGED <<copy, junk, cold, rows>>
        /\ \A c \in Chunks : cache'[c] = IF cache[c] # Nil /\ cache[c].disk = gone.disk THEN Nil
                                         ELSE cache[c]
    BY <1>6, <1>t DEF DeleteRows, NoGone
  <2>2. IdleNoFiles' /\ DiskCopies'
    BY <1>a, <1>o, <2>1 DEF Accounts, IdleNoFiles, DiskCopies, Hit
  <2>3. ASSUME NEW p \in Path, copy'[p] # Nil, copy'[p].disk \in cdisk'
        PROVE  /\ p \notin gone.files
               /\ \A c \in Chunks : cache[c] # Nil /\ cache[c].path = p => cache'[c] = cache[c]
    <3>1. DiskCopies
      BY <1>a DEF Accounts
    <3> QED
      BY <1>t, <2>1, <2>3, <3>1 DEF DiskCopies, Hit
  <2>4. CopiesAccounted'
    BY <1>a, <1>o, <2>1, <2>3, LessAccount
  <2> QED
    BY <1>i, <1>k, <1>p, <2>1, <2>2, <2>4 DEF Accounts
<1> QED
  BY <1>1, <1>2, <1>3, <1>4, <1>5, <1>6

LEMMA AccountKept ==
    ASSUME AccountInv, [Next]_vars, "promote" \notin Overlaps, "row" \notin Overlaps
    PROVE  AccountInv'
<1>1. Typed'
  BY NextTyped DEF AccountInv
<1>2. PromoteAllowed' /\ RowAllowed'
  BY DEF AccountInv, PromoteAllowed, RowAllowed, Promoting, Writing, Next, Allowed, vars
<1>3. Accounts'
  <2>1. CASE UNCHANGED vars
    BY <2>1 DEF vars, AccountInv, Accounts, IdsGiven, ColdSame, PromotesUncached, Promoting, Hot, Hit,
       FileOf, IdleNoFiles, DropsAll, DiskCopies, CopiesAccounted
  <2> QED
    BY <2>1, ReadStepAccount, CopyStepAccount, WriteStepAccount, CleanStepAccount DEF Next
<1> QED
  BY <1>1, <1>2, <1>3 DEF AccountInv

(* No copy loses its row without somebody about to delete it, as long as   *)
(* no two readers copy one chunk and no chunk is written, released or      *)
(* evicted while one does.                                                 *)
THEOREM CopiesStayAccounted ==
    ASSUME "promote" \notin Overlaps, "row" \notin Overlaps PROVE Spec => []CopiesAccounted
<1>1. AccountInv => CopiesAccounted
  BY DEF AccountInv, Accounts
<1>2. AccountInv /\ [Next]_vars => AccountInv'
  BY AccountKept
<1>3. Init => AccountInv
  BY InitTyped, InitAccount DEF AccountInv
<1> QED
  BY <1>1, <1>2, <1>3, PTL DEF Spec
=============================================================================
