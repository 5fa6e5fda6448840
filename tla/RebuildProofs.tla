----------------------------- MODULE RebuildProofs -----------------------------
(***************************************************************************)
(* Proofs about Rebuild: types, the shape of stripes, when the pool serves,*)
(* that a rebuild gives back what was stored, and when it does.            *)
(***************************************************************************)
EXTENDS Rebuild, FiniteSetTheorems, WellFoundedInduction, TLAPS

(* What a data file and a parity file may hold.                            *)
Element == Slice \cup {Zeros, Garbage}
Bytes(c) == IF IsData(c) THEN Element \cup {Nil} ELSE Vector \cup {Nil}

PoolRow == [status : {"online", "offline"}, ds : DS..(DS + MaxAdd), ps : PS..(PS + MaxAdd)]
DiskRow == [st : {"none", "online", "repair"}, swaps : 0..MaxLoss]
ChunkRow == [st : {"none", "reserved", "written", "double"}, hash : Content, gen : Nat]
WriterRow == [pc : {"idle", "checked", "allocated", "stored"}, slot : Chunk \cup {Nil},
              val : Slice \cup {Nil}, loc : (Nat \X Nat) \cup {Nil},
              ds : Nat, ps : Nat \cup {Nil}]
WorkerPc == {"idle", "load", "work", "drop", "finish", "verify", "online", "pool", "pool up",
             "job", "parity", "rows", "compute", "commit"}
Loaded == [ds : DS..(DS + MaxAdd), ps : PS..(PS + MaxAdd), row : [Chunk -> ChunkRow],
           loc : [Chunk -> Nat \X Nat]]

RowsTyped(r) == /\ r \in [Chunk -> ChunkRow]
                /\ \A c \in Chunk : r[c].hash \in Bytes(c)
                                    /\ (r[c].st \in {"none", "reserved"} => r[c].hash = Nil)

AdminTyped ==
    /\ pool \in PoolRow /\ disk \in [Disk -> DiskRow]
    /\ losses \in Nat /\ losses <= MaxLoss /\ \A d \in Disk : disk[d].swaps <= losses
    /\ (DS + PS + 1 \in Disk /\ disk[DS + PS + 1].st = "none") => (pool.ds = DS /\ pool.ps = PS)
    /\ adding \in {Nil, "data", "parity"}
    /\ (adding = "data" => pool.ds = DS + 1) /\ (adding = "parity" => pool.ps = PS + 1)

ChunksTyped ==
    /\ RowsTyped(row)
    /\ file \in [Chunk -> Content] /\ \A c \in Chunk : file[c] \in Bytes(c)
    /\ want \in [Chunk -> Slice \cup {Nil}]

QueuesTyped ==
    /\ pend \subseteq Stripe /\ run \subseteq Stripe
    /\ rpend \subseteq Entry /\ rrun \subseteq Entry /\ rpend \cap rrun = {}
    /\ task \in [Task -> {"none", "pending", "success", "fail"}]
    /\ \A e \in rpend \cup rrun : e[2] \in Task => task[e[2]] # "none"

WritersTyped ==
    /\ wr \in [Writers -> WriterRow] /\ writes \in Nat /\ writes <= MaxWrite
    /\ \A w \in Writers :
        /\ wr[w].slot # Nil <=> wr[w].pc \in {"allocated", "stored"}
        /\ wr[w].pc # "idle" => wr[w].val # Nil
        /\ wr[w].slot # Nil => IsData(wr[w].slot)

WorkerTyped ==
    /\ wk = [pc |-> wk.pc, ents |-> wk.ents, meta |-> wk.meta, todo |-> wk.todo,
             fix |-> wk.fix, good |-> wk.good]
    /\ wk.pc \in WorkerPc /\ wk.ents \subseteq Entry /\ wk.todo \subseteq Stripe
    /\ wk.good \subseteq Disk /\ DOMAIN wk.fix \subseteq Chunk
    /\ \A c \in DOMAIN wk.fix : wk.fix[c] \in Bytes(c) \ {Nil}
    /\ wk.pc \notin {"work", "commit"} => DOMAIN wk.fix = {}
    /\ wk.pc \in {"work", "compute"} => wk.meta \in Loaded /\ RowsTyped(wk.meta.row)

Typed == AdminTyped /\ ChunksTyped /\ QueuesTyped /\ WritersTyped /\ WorkerTyped
-----------------------------------------------------------------------------
(* The shape of stripes: the slots there are, but for the one a disk that  *)
(* is being added will bring.                                              *)
Width(c) == IF IsData(c) THEN (IF adding = "data" THEN pool.ds - 1 ELSE pool.ds)
                         ELSE (IF adding = "parity" THEN pool.ps - 1 ELSE pool.ps)
Slotted ==
    /\ \A c \in Chunk : /\ row[c].st # "double"
                        /\ StripeOf(c) \in Stripes => (row[c].st # "none" <=> Index(c) < Width(c))
    /\ wk.pc \in {"work", "compute"} =>
            \A c \in Chunk : wk.meta.row[c].st # "none" => row[c].st # "none"
    /\ \A c \in DOMAIN wk.fix : row[c].st # "none"
(* ... and, when disks are added between requests only, nobody is at work  *)
(* with the shape the pool had before.                                     *)
Shaped ==
    /\ adding # Nil => wk.pc = "idle" /\ \A w \in Writers : wr[w].pc = "idle"
    /\ \A c \in Chunk : /\ row[c].st # "double"
                        /\ StripeOf(c) \in Stripes => (row[c].st # "none" <=> Index(c) < Width(c))
    /\ \A w \in Writers : wr[w].pc = "checked" => wr[w].ds = pool.ds /\ wr[w].ps \in {pool.ps, Nil}
    /\ wk.pc \in {"work", "compute"} =>
        /\ wk.meta.ds = pool.ds /\ wk.meta.ps = pool.ps
        /\ \A c \in Chunk : wk.meta.row[c].st # "none" => row[c].st # "none"
    /\ \A c \in DOMAIN wk.fix : row[c].st # "none"

Serving == PoolServesWhole /\ (wk.pc = "pool up" => InRepair = {})
-----------------------------------------------------------------------------
(* Who holds what: the slot of a request is its own, and every other       *)
(* written data slot is what a version wants.                              *)
HeldOnce ==
    \A w \in Writers : wr[w].slot # Nil =>
        LET c == wr[w].slot IN
        /\ Written(c) /\ row[c].hash = wr[w].val /\ want[c] = Nil
        /\ file[c] \in {wr[w].val, Nil}
        /\ \A v \in Writers \ {w} : wr[v].slot # c
WantedElse ==
    \A c \in Chunk : IsData(c) /\ Written(c) /\ (\A w \in Writers : wr[w].slot # c) => want[c] # Nil
Wanted ==
    \A c \in Chunk : want[c] # Nil =>
        IsData(c) /\ Written(c) /\ row[c].hash = want[c] /\ file[c] \in {want[c], Nil}
Bare == \A c \in Chunk : IsData(c) /\ ~Written(c) => file[c] = Nil
Held == HeldOnce /\ WantedElse /\ Wanted /\ Bare

(* The first k data shards of a stripe.                                    *)
Slot(s, i) == <<s, <<"data", i>>>>
Vec(s, k) == [i \in 0..(k - 1) |-> IF Written(Slot(s, i)) THEN row[Slot(s, i)].hash ELSE Zeros]
Covers(s, k) == \A i \in k..(DS + MaxAdd - 1) : ~Written(Slot(s, i))
DataIn(s) == \E c \in Chunk : StripeOf(c) = s /\ IsData(c) /\ Written(c)
ParityOf(s) == {c \in Chunk : StripeOf(c) = s /\ ~IsData(c)}

(* Parity that is not queued encodes the stripe as it is.                  *)
Encodes(s, v, f) == (\E k \in DS..pool.ds : v = Vec(s, k) /\ Covers(s, k)) /\ f \in {v, Nil}
Narrow == \A c \in Chunk : ~IsData(c) /\ Written(c) =>
            \E k \in DS..pool.ds : DOMAIN row[c].hash = 0..(k - 1)
Fresh == \A s \in Stripe : ~StaleParity(s) =>
            \A p \in ParityOf(s) : Written(p) => Encodes(s, row[p].hash, file[p])
ParityHasData == \A s \in Stripe : (\E p \in ParityOf(s) : Written(p)) => DataIn(s)

(* A rebuild works on rows that do not change under it.                    *)
RebuildBatch ==
    /\ wk.pc \in {"load", "work"} => wk.ents \subseteq rrun
    /\ wk.pc = "work" =>
        /\ wk.todo \subseteq BatchOf
        /\ \A c \in Chunk : StripeOf(c) \in BatchOf =>
            wk.meta.row[c] = row[c] /\ (Written(c) /\ ~Current(c) => file[c] = Nil)
        /\ \A c \in DOMAIN wk.fix :
            /\ StripeOf(c) \in BatchOf /\ Written(c)
            /\ IsData(c) => wk.fix[c] = row[c].hash
            /\ ~IsData(c) => /\ DOMAIN wk.fix[c] = 0..(pool.ds - 1)
                             /\ ~StaleParity(StripeOf(c)) => wk.fix[c] = row[c].hash

(* A parity batch encodes each stripe as it is, or as it was before a      *)
(* write that queues it again.                                             *)
Dirty(s) == s \in pend \/ \E w \in Writers : Filling(w, s)
ParityBatch ==
    /\ wk.pc \in {"rows", "compute"} => wk.todo = run
    /\ wk.pc = "compute" => \A s \in run : \A c \in Chunk : StripeOf(c) = s =>
        /\ IsData(c) /\ wk.meta.row[c].st = "written" => Written(c)
        /\ Dirty(s) \/ /\ wk.meta.row[c] = row[c]
                       /\ Current(c) \/ (~Written(c) /\ file[c] = Nil)
    /\ wk.pc = "commit" =>
        /\ \A p \in DOMAIN wk.fix : /\ ~IsData(p) /\ StripeOf(p) \in run /\ DataIn(StripeOf(p))
                                    /\ DOMAIN wk.fix[p] = 0..(pool.ds - 1)
        /\ \A s \in run : Dirty(s) \/ ~DataIn(s)
                \/ \A p \in ParityOf(s) : row[p].st # "none" =>
                        /\ p \in DOMAIN wk.fix /\ wk.fix[p] = Vec(s, pool.ds)
                        /\ file[p] \in {wk.fix[p], Nil}

Coded == Narrow /\ Fresh /\ ParityHasData
Kept  == Held /\ Coded /\ RebuildBatch /\ ParityBatch

(* Without a loss during a batch: what is not to be written back is there. *)
Steady ==
    wk.pc = "work" => /\ \A c \in Chunk : Current(c) \/ StripeOf(c) \notin BatchOf
                      /\ \A s \in wk.todo : Fixed(s) # {} =>
                            \A c \in Slots(s) \ Fixed(s) : Written(c) => Readable(c)

(* While a job ends: the disks that were found whole stay whole, but for   *)
(* the slots that are just to be written.                                  *)
Verified ==
    wk.pc = "online" => \A d \in wk.good : \A c \in Chunk :
        DiskOf(c) = d /\ Lost(c) =>
            \E w \in Writers : wr[w].slot = c /\ wr[w].pc = "allocated" /\ wr[w].loc = Loc(c)
-----------------------------------------------------------------------------
(* Facts about the constants.                                              *)

LEMMA Shapes ==
    /\ DS \in Nat /\ DS > 0 /\ PS \in Nat /\ MaxAdd \in Nat
    /\ MaxWrite \in Nat /\ MaxLoss \in Nat /\ MaxTask \in Nat
    /\ DS + MaxAdd \in Nat /\ PS + MaxAdd \in Nat
  BY RebuildAssumption

LEMMA MakeChunk ==
    ASSUME NEW s \in Stripe, NEW i \in Nat
    PROVE  /\ i < DS + MaxAdd => <<s, <<"data", i>>>> \in Chunk
           /\ i < PS + MaxAdd => <<s, <<"parity", i>>>> \in Chunk
           /\ IsData(<<s, <<"data", i>>>>) /\ ~IsData(<<s, <<"parity", i>>>>)
           /\ StripeOf(<<s, <<"data", i>>>>) = s /\ StripeOf(<<s, <<"parity", i>>>>) = s
           /\ Index(<<s, <<"data", i>>>>) = i /\ Index(<<s, <<"parity", i>>>>) = i
<1>1. /\ i < DS + MaxAdd => i \in 0..(DS + MaxAdd - 1)
      /\ i < PS + MaxAdd => i \in 0..(PS + MaxAdd - 1)
  BY Shapes
<1>2. i \in 0..(DS + MaxAdd - 1) => <<"data", i>> \in Data
  BY DEF Data
<1>3. i \in 0..(PS + MaxAdd - 1) => <<"parity", i>> \in Parity
  BY DEF Parity
<1> QED
  BY <1>1, <1>2, <1>3 DEF Chunk, IsData, StripeOf, Index

LEMMA ChunkIs ==
    ASSUME NEW c \in Chunk
    PROVE  /\ StripeOf(c) \in Stripe /\ Index(c) \in Nat
           /\ IsData(c) \in BOOLEAN
           /\ IsData(c) => Index(c) < DS + MaxAdd /\ c = <<StripeOf(c), <<"data", Index(c)>>>>
           /\ ~IsData(c) => Index(c) < PS + MaxAdd /\ c = <<StripeOf(c), <<"parity", Index(c)>>>>
<1>1. /\ c = <<c[1], c[2]>> /\ c[1] \in Stripe /\ c[2] \in Data \cup Parity
  BY DEF Chunk
<1>2. CASE c[2] \in Data
  <2>1. c[2] = <<"data", c[2][2]>> /\ c[2][2] \in 0..(DS + MaxAdd - 1) /\ c[2][1] = "data"
    BY <1>2 DEF Data
  <2>2. IsData(c) /\ StripeOf(c) = c[1] /\ Index(c) = c[2][2]
    BY <2>1 DEF IsData, StripeOf, Index
  <2>3. Index(c) \in 0..(DS + MaxAdd - 1)
    BY <2>1, <2>2
  <2>4. Index(c) \in Nat /\ Index(c) < DS + MaxAdd
    BY ONLY <2>3, Shapes
  <2>5. c = <<StripeOf(c), <<"data", Index(c)>>>>
    BY <1>1, <2>1, <2>2
  <2>6. StripeOf(c) \in Stripe /\ IsData(c) \in BOOLEAN
    BY <1>1, <2>2 DEF IsData
  <2> QED
    BY ONLY <2>2, <2>4, <2>5, <2>6
<1>3. CASE c[2] \in Parity
  <2>1. c[2] = <<"parity", c[2][2]>> /\ c[2][2] \in 0..(PS + MaxAdd - 1) /\ c[2][1] # "data"
    BY <1>3 DEF Parity
  <2>2. ~IsData(c) /\ StripeOf(c) = c[1] /\ Index(c) = c[2][2]
    BY <2>1 DEF IsData, StripeOf, Index
  <2>3. Index(c) \in 0..(PS + MaxAdd - 1)
    BY <2>1, <2>2
  <2>4. Index(c) \in Nat /\ Index(c) < PS + MaxAdd
    BY ONLY <2>3, Shapes
  <2>5. c = <<StripeOf(c), <<"parity", Index(c)>>>>
    BY <1>1, <2>1, <2>2
  <2>6. StripeOf(c) \in Stripe /\ IsData(c) \in BOOLEAN
    BY <1>1, <2>2 DEF IsData
  <2> QED
    BY ONLY <2>2, <2>4, <2>5, <2>6
<1> QED
  BY <1>1, <1>2, <1>3

(* Chunks of a stripe are told apart by kind and index.                    *)
LEMMA SameChunk ==
    ASSUME NEW c \in Chunk, NEW d \in Chunk, StripeOf(c) = StripeOf(d), IsData(c) = IsData(d),
           Index(c) = Index(d)
    PROVE  c = d
  BY ChunkIs

LEMMA SlotIs ==
    ASSUME NEW s \in Stripe, NEW i \in Nat
    PROVE  /\ i < DS + MaxAdd => Slot(s, i) \in Chunk
           /\ IsData(Slot(s, i)) /\ StripeOf(Slot(s, i)) = s /\ Index(Slot(s, i)) = i
  BY MakeChunk DEF Slot

LEMMA DataIsSlot ==
    ASSUME NEW c \in Chunk, IsData(c)
    PROVE  c = Slot(StripeOf(c), Index(c)) /\ Index(c) < DS + MaxAdd /\ Index(c) \in Nat
  BY ChunkIs DEF Slot

LEMMA DiskIs ==
    ASSUME NEW c \in Chunk
    PROVE  DiskOf(c) \in Disk
<1>1. Index(c) \in Nat /\ (IsData(c) => Index(c) < DS + MaxAdd) /\ (~IsData(c) => Index(c) < PS + MaxAdd)
  BY ChunkIs
<1>2. MaxAdd = 0 \/ MaxAdd = 1
  BY RebuildAssumption
<1> QED
  BY <1>1, <1>2, Shapes DEF DiskOf, Disk

LEMMA BytesAre ==
    ASSUME NEW c
    PROVE  /\ Bytes(c) \subseteq Content /\ Nil \in Bytes(c)
           /\ IsData(c) => (Element \subseteq Bytes(c) \ {Nil} /\ Bytes(c) \ {Nil} \subseteq Element)
           /\ ~IsData(c) => (Vector \subseteq Bytes(c) \ {Nil} /\ Bytes(c) \ {Nil} \subseteq Vector)
<1>1. Nil \notin Element /\ Nil \notin Vector
  BY SentinelAssumption DEF Element
<1> QED
  BY <1>1 DEF Bytes, Content, Element

LEMMA SliceIs ==
    /\ Slice \subseteq Element /\ Zeros \in Element /\ Garbage \in Element
    /\ Nil \notin Element /\ Nil \notin Slice /\ Nil \notin Vector /\ Nil \notin Chunk
    /\ Nil \notin Nat /\ Nil # "data" /\ Nil # "parity"
  BY SentinelAssumption DEF Element

LEMMA VectorIs ==
    ASSUME NEW n \in DS..(DS + MaxAdd), NEW v \in [0..(n - 1) -> Element]
    PROVE  v \in Vector
  BY DEF Vector, Element

LEMMA VectorHas ==
    ASSUME NEW v \in Vector, NEW i \in DOMAIN v
    PROVE  v[i] \in Element
<1>1. PICK n \in DS..(DS + MaxAdd) : v \in [0..(n - 1) -> Slice \cup {Zeros, Garbage}]
  BY DEF Vector
<1> QED
  BY <1>1 DEF Element

LEMMA EntryIs ==
    /\ \A e \in Entry : e[1] \in Stripe /\ e[2] \in 0..MaxTask
    /\ \A s \in Stripe, t \in 0..MaxTask : <<s, t>> \in Entry /\ <<s, t>>[1] = s /\ <<s, t>>[2] = t
    /\ \A t \in Task : t \in 0..MaxTask
    /\ 0 \in 0..MaxTask /\ 0 \notin Task
<1>1. /\ \A e \in Entry : e[1] \in Stripe /\ e[2] \in 0..MaxTask
      /\ \A s \in Stripe, t \in 0..MaxTask : <<s, t>> \in Entry /\ <<s, t>>[1] = s /\ <<s, t>>[2] = t
  BY DEF Entry
<1>2. (\A t \in Task : t \in 0..MaxTask) /\ 0 \in 0..MaxTask /\ 0 \notin Task
  BY Shapes DEF Task
<1> QED
  BY <1>1, <1>2

LEMMA EmptyTuple == DOMAIN <<>> = {}
  OBVIOUS

LEMMA ChunkFinite ==
    /\ IsFiniteSet(Chunk) /\ IsFiniteSet(Stripe) /\ IsFiniteSet(Disk)
    /\ \A S : S \subseteq Chunk => IsFiniteSet(S) /\ Cardinality(S) \in Nat
<1> DEFINE N == 0..(DS + MaxAdd - 1)
           P == 0..(PS + MaxAdd - 1)
<1>1. IsFiniteSet(Stripe) /\ IsFiniteSet(Disk)
  <2>1. 1 \in Int /\ MaxStripe \in Int /\ DS + PS + MaxAdd \in Int
    BY RebuildAssumption
  <2> QED
    BY <2>1, FS_Interval DEF Stripe, Disk
<1>2. IsFiniteSet(N) /\ IsFiniteSet(P)
  <2>1. 0 \in Int /\ DS + MaxAdd - 1 \in Int /\ PS + MaxAdd - 1 \in Int
    BY RebuildAssumption
  <2> QED
    BY <2>1, FS_Interval
<1>3. IsFiniteSet({"data"}) /\ IsFiniteSet({"parity"})
  BY FS_Singleton
<1> HIDE DEF N, P
<1>4. IsFiniteSet({"data"} \X N) /\ IsFiniteSet({"parity"} \X P)
  BY <1>2, <1>3, FS_Product
<1>5. IsFiniteSet(Data) /\ IsFiniteSet(Parity)
  BY <1>4 DEF Data, Parity, N, P
<1>6. IsFiniteSet(Data \cup Parity)
  BY <1>5, FS_Union
<1>7. IsFiniteSet(Chunk)
  BY <1>1, <1>6, FS_Product DEF Chunk
<1>8. ASSUME NEW S, S \subseteq Chunk PROVE IsFiniteSet(S) /\ Cardinality(S) \in Nat
  <2>1. IsFiniteSet(S)
    BY <1>7, <1>8, FS_Subset
  <2> QED
    BY <2>1, FS_CardinalityType
<1> QED
  BY <1>1, <1>7, <1>8
-----------------------------------------------------------------------------
(* Types: what a step leaves alone keeps its type.                         *)

LEMMA AdminFrame ==
    ASSUME AdminTyped, UNCHANGED <<pool, disk, adding, losses>>
    PROVE  AdminTyped'
  BY DEF AdminTyped

LEMMA ChunksFrame ==
    ASSUME ChunksTyped, UNCHANGED <<row, file, want>>
    PROVE  ChunksTyped'
  BY DEF ChunksTyped, RowsTyped

LEMMA QueuesFrame ==
    ASSUME QueuesTyped, UNCHANGED <<pend, run, rpend, rrun, task>>
    PROVE  QueuesTyped'
  BY DEF QueuesTyped

LEMMA WritersFrame ==
    ASSUME WritersTyped, UNCHANGED <<wr, writes>>
    PROVE  WritersTyped'
  BY DEF WritersTyped

LEMMA WorkerFrame ==
    ASSUME WorkerTyped, UNCHANGED wk
    PROVE  WorkerTyped'
  BY DEF WorkerTyped

(* The worker's record.                                                    *)
LEMMA AtIs ==
    ASSUME WorkerTyped, NEW p, At(p)
    PROVE  /\ wk'.pc = p /\ wk'.ents = wk.ents /\ wk'.meta = wk.meta /\ wk'.todo = wk.todo
           /\ wk'.fix = wk.fix /\ wk'.good = wk.good
           /\ wk' = [pc |-> wk'.pc, ents |-> wk'.ents, meta |-> wk'.meta, todo |-> wk'.todo,
                     fix |-> wk'.fix, good |-> wk'.good]
  BY DEF WorkerTyped, At

LEMMA NoBatchIs ==
    ASSUME wk' = NoBatch
    PROVE  /\ wk'.pc = "idle" /\ wk'.ents = {} /\ wk'.todo = {} /\ wk'.good = {}
           /\ DOMAIN wk'.fix = {}
           /\ wk' = [pc |-> wk'.pc, ents |-> wk'.ents, meta |-> wk'.meta, todo |-> wk'.todo,
                     fix |-> wk'.fix, good |-> wk'.good]
  BY EmptyTuple DEF NoBatch

(* A worker that has put away what it loaded.                              *)
LEMMA WorkerPlain ==
    ASSUME wk' = [pc |-> wk'.pc, ents |-> wk'.ents, meta |-> wk'.meta, todo |-> wk'.todo,
                  fix |-> wk'.fix, good |-> wk'.good],
           wk'.pc \in WorkerPc \ {"work", "compute"}, wk'.ents \subseteq Entry,
           wk'.todo \subseteq Stripe, wk'.good \subseteq Disk, DOMAIN wk'.fix = {}
    PROVE  WorkerTyped'
  BY DEF WorkerTyped

LEMMA StepAt ==
    ASSUME WorkerTyped, NEW p \in WorkerPc \ {"work", "compute"}, wk.pc \notin {"work", "commit"}, At(p)
    PROVE  WorkerTyped'
<1>1. DOMAIN wk.fix = {}
  BY DEF WorkerTyped
<1> QED
  BY <1>1, AtIs, WorkerPlain DEF WorkerTyped

LEMMA StepLeave ==
    ASSUME wk' = NoBatch
    PROVE  WorkerTyped'
<1>1. "idle" \in WorkerPc \ {"work", "compute"}
  BY DEF WorkerPc
<1> QED
  BY <1>1, NoBatchIs, WorkerPlain

(* One row, and rows that are marked.                                      *)
LEMMA RowIs ==
    ASSUME NEW r, RowsTyped(r), NEW c \in Chunk
    PROVE  /\ r[c] \in ChunkRow /\ r[c].st \in {"none", "reserved", "written", "double"}
           /\ r[c].hash \in Bytes(c) /\ r[c].gen \in Nat
           /\ r[c].st \in {"none", "reserved"} => r[c].hash = Nil
  BY DEF RowsTyped, ChunkRow

LEMMA RowMakes ==
    ASSUME NEW c \in Chunk, NEW st \in {"none", "reserved", "written", "double"},
           NEW h \in Bytes(c), NEW g \in Nat, NEW r, r = [st |-> st, hash |-> h, gen |-> g],
           st \in {"none", "reserved"} => h = Nil
    PROVE  /\ r \in ChunkRow /\ r.hash \in Bytes(c) /\ (r.st \in {"none", "reserved"} => r.hash = Nil)
           /\ r.st = st /\ r.hash = h /\ r.gen = g
  BY BytesAre DEF ChunkRow

LEMMA RowSet ==
    ASSUME NEW r \in ChunkRow, NEW st, NEW h
    PROVE  [r EXCEPT !.st = st, !.hash = h] = [st |-> st, hash |-> h, gen |-> r.gen]
<1> DEFINE a == [r EXCEPT !.st = st]
           b == [a EXCEPT !.hash = h]
<1>1. a = [st |-> st, hash |-> r.hash, gen |-> r.gen]
  BY DEF ChunkRow
<1> HIDE DEF a
<1>2. b = [st |-> st, hash |-> h, gen |-> r.gen]
  BY <1>1
<1> QED
  BY <1>2 DEF a, b

LEMMA IdleSet ==
    ASSUME NEW v, NEW n, NEW p
    PROVE  [Idle EXCEPT !.pc = "checked", !.val = v, !.ds = n, !.ps = p]
           = [pc |-> "checked", slot |-> Nil, val |-> v, loc |-> Nil, ds |-> n, ps |-> p]
<1> DEFINE a == [Idle EXCEPT !.pc = "checked"]
           b == [a EXCEPT !.val = v]
           c == [b EXCEPT !.ds = n]
           d == [c EXCEPT !.ps = p]
<1>1. a = [pc |-> "checked", slot |-> Nil, val |-> Nil, loc |-> Nil, ds |-> 0, ps |-> 0]
  BY DEF Idle
<1> HIDE DEF a
<1>2. b = [pc |-> "checked", slot |-> Nil, val |-> v, loc |-> Nil, ds |-> 0, ps |-> 0]
  BY <1>1
<1> HIDE DEF b
<1>3. c = [pc |-> "checked", slot |-> Nil, val |-> v, loc |-> Nil, ds |-> n, ps |-> 0]
  BY <1>2
<1> HIDE DEF c
<1>4. d = [pc |-> "checked", slot |-> Nil, val |-> v, loc |-> Nil, ds |-> n, ps |-> p]
  BY <1>3
<1> QED
  BY <1>4 DEF a, b, c

LEMMA NoneIs == None = [st |-> "none", hash |-> Nil, gen |-> 0]
  BY DEF None

LEMMA MarkedIs ==
    ASSUME RowsTyped(row), DOMAIN wk.fix \subseteq Chunk,
           \A c \in DOMAIN wk.fix : wk.fix[c] \in Bytes(c) \ {Nil}
    PROVE  /\ RowsTyped(Marked)
           /\ \A c \in Chunk : c \notin DOMAIN wk.fix => Marked[c] = row[c]
           /\ \A c \in DOMAIN wk.fix : /\ Marked[c].st = "written" /\ Marked[c].hash = wk.fix[c]
                                       /\ Marked[c].gen = row[c].gen
<1>1. \A c \in Chunk : c \notin DOMAIN wk.fix => Marked[c] = row[c]
  BY DEF Marked
<1>2. ASSUME NEW c \in DOMAIN wk.fix
      PROVE  /\ Marked[c] = [st |-> "written", hash |-> wk.fix[c], gen |-> row[c].gen]
             /\ Marked[c].st = "written" /\ Marked[c].hash = wk.fix[c] /\ Marked[c].gen = row[c].gen
  <2>1. c \in Chunk /\ row[c] \in ChunkRow
    BY RowIs
  <2>2. Marked[c] = [row[c] EXCEPT !.st = "written", !.hash = wk.fix[c]]
    BY <2>1 DEF Marked
  <2> QED
    BY <2>1, <2>2 DEF ChunkRow
<1>3. ASSUME NEW c \in Chunk
      PROVE  /\ Marked[c] \in ChunkRow /\ Marked[c].hash \in Bytes(c)
             /\ (Marked[c].st \in {"none", "reserved"} => Marked[c].hash = Nil)
  <2>1. CASE c \in DOMAIN wk.fix
    <3>1. wk.fix[c] \in Bytes(c) /\ row[c].gen \in Nat
      BY <2>1, RowIs
    <3>2. Marked[c] = [st |-> "written", hash |-> wk.fix[c], gen |-> row[c].gen]
      BY <1>2, <2>1
    <3> QED
      BY ONLY <3>1, <3>2, RowMakes, c \in Chunk
  <2>2. CASE c \notin DOMAIN wk.fix
    BY <1>1, <2>2, RowIs
  <2> QED
    BY <2>1, <2>2
<1>4. Marked \in [Chunk -> ChunkRow]
  <2>1. Marked = [c \in Chunk |-> Marked[c]]
    BY DEF Marked
  <2> QED
    BY <1>3, <2>1
<1> QED
  BY <1>1, <1>2, <1>3, <1>4 DEF RowsTyped

LEMMA LocIs ==
    ASSUME AdminTyped, ChunksTyped, NEW c \in Chunk
    PROVE  Loc(c) \in Nat \X Nat
<1>1. row[c].gen \in Nat
  BY RowIs DEF ChunksTyped
<1>2. disk[DiskOf(c)].swaps \in Nat
  BY DiskIs, Shapes DEF AdminTyped, DiskRow
<1> QED
  BY <1>1, <1>2 DEF Loc

LEMMA MetaIs ==
    ASSUME AdminTyped, ChunksTyped
    PROVE  /\ Meta \in Loaded /\ RowsTyped(Meta.row) /\ Meta.row = row
           /\ Meta.ds = pool.ds /\ Meta.ps = pool.ps /\ \A c \in Chunk : Meta.loc[c] = Loc(c)
<1>1. pool.ds \in DS..(DS + MaxAdd) /\ pool.ps \in PS..(PS + MaxAdd)
  BY DEF AdminTyped, PoolRow
<1>2. [c \in Chunk |-> Loc(c)] \in [Chunk -> Nat \X Nat]
  BY LocIs
<1>3. RowsTyped(row) /\ row \in [Chunk -> ChunkRow]
  BY DEF ChunksTyped, RowsTyped
<1> QED
  BY <1>1, <1>2, <1>3 DEF Meta, Loaded
-----------------------------------------------------------------------------
(* What the worker finds and decodes.                                      *)

LEMMA FoundIs ==
    ASSUME ChunksTyped, NEW c \in Chunk
    PROVE  Found(c) \in Bytes(c)
  BY BytesAre DEF Found, ChunksTyped

LEMMA ShardsAre ==
    ASSUME NEW P
    PROVE  /\ DOMAIN Shards(P) = {Index(c) : c \in P}
           /\ \A i \in DOMAIN Shards(P) : \E c \in P : Index(c) = i /\ Shards(P)[i] = Found(c)
<1>1. Shards(P) = [i \in {Index(c) : c \in P} |-> Found(CHOOSE c \in P : Index(c) = i)]
  BY DEF Shards
<1>2. ASSUME NEW i \in {Index(c) : c \in P}
      PROVE  \E c \in P : Index(c) = i /\ Shards(P)[i] = Found(c)
  <2>1. \E c \in P : Index(c) = i
    OBVIOUS
  <2>2. PICK d \in P : d = (CHOOSE c \in P : Index(c) = i) /\ Index(d) = i
    BY <2>1
  <2> QED
    BY <1>1, <2>2
<1> QED
  BY <1>1, <1>2

(* What comes out of the decoder went into it, or is garbage.              *)
LEMMA DecodedElement ==
    ASSUME NEW data, NEW parity, NEW ds,
           \A i \in DOMAIN data : data[i] \in Element,
           \A p \in DOMAIN parity : parity[p] \in Vector
    PROVE  Decoded(data, parity, ds) \in [0..(ds - 1) -> Element]
<1> DEFINE short == ds - Cardinality(DOMAIN data)
           used == {p \in DOMAIN parity : Cardinality({q \in DOMAIN parity : q < p}) < short}
           fits(v) == /\ \A p \in used : parity[p] = v
                      /\ DOMAIN v = 0..(ds - 1)
                      /\ \A i \in DOMAIN data : data[i] = v[i]
           shards == {parity[p] : p \in used}
           out(i) == IF i \in DOMAIN data THEN data[i]
                     ELSE IF \E v \in shards : fits(v) THEN (CHOOSE v \in shards : fits(v))[i]
                     ELSE Garbage
<1>1. Decoded(data, parity, ds) = [i \in 0..(ds - 1) |-> out(i)]
  BY DEF Decoded
<1>2. \A v \in shards : v \in Vector
  OBVIOUS
<1> HIDE DEF used, shards
<1>3. ASSUME NEW i \in 0..(ds - 1)
      PROVE  out(i) \in Element
  <2>1. CASE i \in DOMAIN data
    BY <2>1
  <2>2. CASE i \notin DOMAIN data /\ \E v \in shards : fits(v)
    <3>1. PICK u \in shards : u = (CHOOSE v \in shards : fits(v)) /\ fits(u)
      BY <2>2
    <3>2. u[i] \in Element
      BY <1>2, <3>1, VectorHas
    <3> QED
      BY <2>2, <3>1, <3>2
  <2>3. CASE i \notin DOMAIN data /\ ~\E v \in shards : fits(v)
    BY <2>3, SliceIs
  <2> QED
    BY <2>1, <2>2, <2>3
<1> HIDE DEF out
<1> QED
  BY <1>1, <1>3
-----------------------------------------------------------------------------
(* Types: one lemma per action that changes more than the worker.          *)

LEMMA WriterMakes ==
    ASSUME WritersTyped, NEW w \in Writers, NEW r \in WriterRow, Update(w, r),
           r.slot # Nil <=> r.pc \in {"allocated", "stored"},
           r.pc # "idle" => r.val # Nil, r.slot # Nil => IsData(r.slot),
           writes' \in Nat, writes' <= MaxWrite
    PROVE  WritersTyped' /\ wr'[w] = r /\ \A v \in Writers \ {w} : wr'[v] = wr[v]
<1>1. wr' \in [Writers -> WriterRow] /\ wr'[w] = r /\ \A v \in Writers \ {w} : wr'[v] = wr[v]
  BY DEF WritersTyped, Update
<1> QED
  BY <1>1 DEF WritersTyped

LEMMA WriterIs ==
    ASSUME WritersTyped, NEW w \in Writers
    PROVE  /\ wr[w] \in WriterRow
           /\ wr[w].slot # Nil <=> wr[w].pc \in {"allocated", "stored"}
           /\ wr[w].slot # Nil => wr[w].slot \in Chunk /\ IsData(wr[w].slot) /\ wr[w].val \in Slice
           /\ wr[w].pc = "checked" => wr[w].val \in Slice
  BY DEF WritersTyped, WriterRow

LEMMA IdleIs ==
    Idle \in WriterRow /\ Idle.pc = "idle" /\ Idle.slot = Nil
  BY Shapes DEF Idle, WriterRow

LEMMA CheckPoolTyped ==
    ASSUME Typed, NEW w \in Writers, CheckPool(w)
    PROVE  /\ Typed'
           /\ wr'[w].pc = "checked" /\ wr'[w].slot = Nil /\ wr'[w].ds = pool.ds
           /\ wr'[w].ps \in {pool.ps, Nil} /\ \A v \in Writers \ {w} : wr'[v] = wr[v]
<1> DEFINE ps == IF Cardinality({d \in Disk : disk[d].st = "online"}) = pool.ds + pool.ps THEN pool.ps
                 ELSE Nil
           r == [pc |-> "checked", slot |-> Nil, val |-> <<writes + 1>>, loc |-> Nil,
                 ds |-> pool.ds, ps |-> ps]
<1>1. pool.ds \in Nat /\ pool.ps \in Nat
  BY Shapes DEF Typed, AdminTyped, PoolRow
<1>2. ps \in {pool.ps, Nil} /\ ps \in Nat \cup {Nil}
  BY <1>1
<1> HIDE DEF ps
<1>3. writes' \in Nat /\ writes' <= MaxWrite /\ writes + 1 \in 1..MaxWrite
  BY Shapes DEF CheckPool, Typed, WritersTyped
<1>4. <<writes + 1>> \in Slice
  BY <1>3 DEF Slice
<1>5. r \in WriterRow /\ r.val # Nil
  BY <1>1, <1>2, <1>4, SliceIs DEF WriterRow
<1>6. Update(w, r)
  <2>1. [Idle EXCEPT !.pc = "checked", !.val = <<writes + 1>>, !.ds = pool.ds, !.ps = ps] = r
    BY IdleSet
  <2>2. Update(w, [Idle EXCEPT !.pc = "checked", !.val = <<writes + 1>>, !.ds = pool.ds, !.ps = ps])
    BY DEF CheckPool, ps
  <2> QED
    BY <2>1, <2>2
<1>7. WritersTyped' /\ wr'[w] = r /\ \A v \in Writers \ {w} : wr'[v] = wr[v]
  BY <1>3, <1>5, <1>6, WriterMakes DEF Typed
<1>8. AdminTyped' /\ ChunksTyped' /\ QueuesTyped' /\ WorkerTyped'
  BY AdminFrame, ChunksFrame, QueuesFrame, WorkerFrame DEF CheckPool, Typed, tables
<1> QED
  BY <1>2, <1>7, <1>8 DEF Typed

(* The record of a request that takes a slot.                              *)
LEMMA HoldingIs ==
    ASSUME Typed, NEW w \in Writers, wr[w].pc = "checked", NEW c \in Chunk, IsData(c),
           Update(w, Holding(wr[w], c)), writes' = writes
    PROVE  /\ WritersTyped'
           /\ wr'[w].pc = "allocated" /\ wr'[w].slot = c /\ wr'[w].val = wr[w].val
           /\ wr[w].val \in Slice /\ wr[w].slot = Nil
           /\ \A v \in Writers \ {w} : wr'[v] = wr[v]
<1> DEFINE r == Holding(wr[w], c)
<1>1. wr[w] \in WriterRow /\ wr[w].val \in Slice /\ wr[w].slot = Nil
  BY WriterIs DEF Typed
<1>2. Loc(c) \in Nat \X Nat
  BY LocIs DEF Typed
<1>3. r \in WriterRow /\ r.pc = "allocated" /\ r.slot = c /\ r.val = wr[w].val
  BY <1>1, <1>2 DEF Holding, WriterRow
<1>4. r.val # Nil /\ r.slot # Nil
  BY <1>1, <1>3, SliceIs
<1>5. writes' \in Nat /\ writes' <= MaxWrite
  BY DEF Typed, WritersTyped
<1> HIDE DEF r
<1>6. WritersTyped' /\ wr'[w] = r /\ \A v \in Writers \ {w} : wr'[v] = wr[v]
  BY <1>3, <1>4, <1>5, WriterMakes DEF Typed, r
<1> QED
  BY <1>1, <1>3, <1>6

LEMMA ReuseTyped ==
    ASSUME Typed, NEW w \in Writers, NEW c \in Chunk, Reuse(w, c)
    PROVE  /\ Typed'
           /\ wr'[w].pc = "allocated" /\ wr'[w].slot = c /\ wr'[w].val = wr[w].val
           /\ wr[w].val \in Slice /\ wr[w].slot = Nil
           /\ \A v \in Writers \ {w} : wr'[v] = wr[v]
           /\ row'[c].st = "written" /\ row'[c].hash = wr[w].val /\ row'[c].gen = row[c].gen
           /\ \A d \in Chunk \ {c} : row'[d] = row[d]
<1>1. /\ WritersTyped'
      /\ wr'[w].pc = "allocated" /\ wr'[w].slot = c /\ wr'[w].val = wr[w].val
      /\ wr[w].val \in Slice /\ wr[w].slot = Nil
      /\ \A v \in Writers \ {w} : wr'[v] = wr[v]
  BY HoldingIs DEF Reuse, counts
<1> DEFINE r == [st |-> "written", hash |-> wr[w].val, gen |-> row[c].gen]
<1>2. RowsTyped(row) /\ row \in [Chunk -> ChunkRow] /\ row[c] \in ChunkRow
  BY DEF Typed, ChunksTyped, RowsTyped
<1>3. row' = [row EXCEPT ![c] = r]
  <2>1. row' = [row EXCEPT ![c] = [row[c] EXCEPT !.st = "written", !.hash = wr[w].val]]
    BY DEF Reuse
  <2>2. [row[c] EXCEPT !.st = "written", !.hash = wr[w].val] = r
    BY <1>2, RowSet
  <2> QED
    BY <2>1, <2>2
<1>4. row'[c] = r /\ \A d \in Chunk \ {c} : row'[d] = row[d]
  BY <1>2, <1>3
<1>5. /\ r \in ChunkRow /\ r.hash \in Bytes(c) /\ (r.st \in {"none", "reserved"} => r.hash = Nil)
      /\ r.st = "written" /\ r.hash = wr[w].val /\ r.gen = row[c].gen
  <2>1. wr[w].val \in Bytes(c) /\ row[c].gen \in Nat
    BY <1>1, <1>2, BytesAre, SliceIs, RowIs DEF Reuse
  <2> QED
    BY <2>1, RowMakes
<1> HIDE DEF r
<1>6. RowsTyped(row')
  <2>1. row' \in [Chunk -> ChunkRow]
    BY <1>2, <1>3, <1>5
  <2>2. ASSUME NEW d \in Chunk
        PROVE  row'[d].hash \in Bytes(d) /\ (row'[d].st \in {"none", "reserved"} => row'[d].hash = Nil)
    BY <1>2, <1>4, <1>5, RowIs
  <2> QED
    BY <2>1, <2>2 DEF RowsTyped
<1>7. ChunksTyped'
  BY <1>6 DEF Typed, ChunksTyped, Reuse
<1>8. AdminTyped' /\ QueuesTyped' /\ WorkerTyped'
  BY AdminFrame, QueuesFrame, WorkerFrame DEF Reuse, Typed, counts
<1> QED
  BY <1>1, <1>4, <1>5, <1>7, <1>8 DEF Typed

LEMMA NewStripeTyped ==
    ASSUME Typed, NEW w \in Writers, NEW s \in Stripe, NewStripe(w, s)
    PROVE  /\ Typed'
           /\ Slot(s, 0) \in Chunk
           /\ wr'[w].pc = "allocated" /\ wr'[w].slot = Slot(s, 0) /\ wr'[w].val = wr[w].val
           /\ wr[w].val \in Slice /\ wr[w].slot = Nil
           /\ \A v \in Writers \ {w} : wr'[v] = wr[v]
           /\ row'[Slot(s, 0)] = [st |-> "written", hash |-> wr[w].val, gen |-> 0]
           /\ \A c \in Chunk \ {Slot(s, 0)} :
                row'[c] = IF StripeOf(c) = s /\ Index(c) < (IF IsData(c) THEN wr[w].ds ELSE wr[w].ps)
                          THEN [st |-> "reserved", hash |-> Nil, gen |-> 0] ELSE row[c]
<1> DEFINE first == Slot(s, 0)
           fits(c) == StripeOf(c) = s /\ Index(c) < (IF IsData(c) THEN wr[w].ds ELSE wr[w].ps)
           r == [st |-> "written", hash |-> wr[w].val, gen |-> 0]
           e == [st |-> "reserved", hash |-> Nil, gen |-> 0]
<1>1. first \in Chunk /\ IsData(first) /\ first = <<s, <<"data", 0>>>>
  BY SlotIs, Shapes DEF Slot
<1>2. /\ WritersTyped'
      /\ wr'[w].pc = "allocated" /\ wr'[w].slot = first /\ wr'[w].val = wr[w].val
      /\ wr[w].val \in Slice /\ wr[w].slot = Nil
      /\ \A v \in Writers \ {w} : wr'[v] = wr[v]
  BY <1>1, HoldingIs DEF NewStripe, counts
<1>3. row' = [c \in Chunk |-> IF c = first THEN r ELSE IF fits(c) THEN e ELSE row[c]]
  <2>1. [None EXCEPT !.st = "reserved"] = e
    BY DEF None
  <2> QED
    BY <1>1, <2>1 DEF NewStripe
<1>4. row'[first] = r
  BY <1>1, <1>3
<1>5. \A c \in Chunk \ {first} : row'[c] = IF fits(c) THEN e ELSE row[c]
  BY <1>3
<1>6. r \in ChunkRow /\ r.hash \in Bytes(first) /\ r.st = "written" /\ r.hash = wr[w].val
  BY <1>1, <1>2, BytesAre, SliceIs DEF ChunkRow, Content
<1>7. e \in ChunkRow /\ e.hash = Nil
  BY DEF ChunkRow, Content
<1>a. RowsTyped(row)
  BY DEF Typed, ChunksTyped
<1> HIDE DEF first, r, e, fits
<1>8. ASSUME NEW c \in Chunk
      PROVE  /\ row'[c] \in ChunkRow /\ row'[c].hash \in Bytes(c)
             /\ (row'[c].st \in {"none", "reserved"} => row'[c].hash = Nil)
  <2>1. CASE c = first
    BY <1>4, <1>6, <2>1 DEF r
  <2>2. CASE c # first /\ fits(c)
    BY <1>5, <1>7, <2>2, BytesAre
  <2>3. CASE c # first /\ ~fits(c)
    BY <1>5, <1>a, <2>3, RowIs
  <2> QED
    BY <2>1, <2>2, <2>3
<1>9. RowsTyped(row')
  <2>1. row' \in [Chunk -> ChunkRow]
    BY <1>3, <1>8
  <2> QED
    BY <1>8, <2>1 DEF RowsTyped
<1>10. ChunksTyped'
  BY <1>9 DEF Typed, ChunksTyped, NewStripe
<1>11. AdminTyped' /\ QueuesTyped' /\ WorkerTyped'
  BY AdminFrame, QueuesFrame, WorkerFrame DEF NewStripe, Typed, counts
<1> QED
  BY <1>1, <1>2, <1>4, <1>5, <1>10, <1>11 DEF Typed, first, r, e, fits

LEMMA StoreSliceTyped ==
    ASSUME Typed, NEW w \in Writers, StoreSlice(w)
    PROVE  /\ Typed'
           /\ wr[w].slot \in Chunk /\ wr[w].slot # Nil /\ wr'[w].slot = wr[w].slot
           /\ wr'[w].val = wr[w].val /\ wr'[w].pc = "stored"
           /\ \A v \in Writers \ {w} : wr'[v] = wr[v]
           /\ file'[wr[w].slot] \in {wr[w].val, file[wr[w].slot]}
           /\ \A c \in Chunk \ {wr[w].slot} : file'[c] = file[c]
<1> DEFINE r == [wr[w] EXCEPT !.pc = "stored"]
           c == wr[w].slot
<1>1. wr[w] \in WriterRow /\ c # Nil /\ c \in Chunk /\ IsData(c) /\ wr[w].val \in Slice
  BY WriterIs DEF Typed, StoreSlice
<1>2. r \in WriterRow /\ r.pc = "stored" /\ r.slot = c /\ r.val = wr[w].val
  BY <1>1 DEF WriterRow
<1>3. writes' \in Nat /\ writes' <= MaxWrite /\ Update(w, r) /\ r.val # Nil
  BY <1>1, <1>2, SliceIs DEF Typed, WritersTyped, StoreSlice, counts
<1> HIDE DEF r
<1>4. WritersTyped' /\ wr'[w] = r /\ \A v \in Writers \ {w} : wr'[v] = wr[v]
  BY <1>1, <1>2, <1>3, WriterMakes DEF Typed
<1>5. /\ file' \in [Chunk -> Content] /\ \A d \in Chunk : file'[d] \in Bytes(d)
      /\ file'[c] \in {wr[w].val, file[c]} /\ \A d \in Chunk \ {c} : file'[d] = file[d]
  <2>1. file \in [Chunk -> Content] /\ \A d \in Chunk : file[d] \in Bytes(d)
    BY DEF Typed, ChunksTyped
  <2>2. wr[w].val \in Bytes(c) /\ wr[w].val \in Content
    BY <1>1, BytesAre, SliceIs
  <2>3. file' = [file EXCEPT ![c] = wr[w].val] \/ file' = file
    BY DEF StoreSlice
  <2> HIDE DEF c
  <2> QED
    BY <1>1, <2>1, <2>2, <2>3
<1>6. ChunksTyped'
  BY <1>5 DEF Typed, ChunksTyped, StoreSlice, tables
<1>7. AdminTyped' /\ QueuesTyped' /\ WorkerTyped'
  BY AdminFrame, QueuesFrame, WorkerFrame DEF StoreSlice, Typed, counts, tables
<1> QED
  BY <1>1, <1>2, <1>4, <1>5, <1>6, <1>7 DEF Typed

LEMMA FlushSliceTyped ==
    ASSUME Typed, NEW w \in Writers, FlushSlice(w)
    PROVE  /\ Typed'
           /\ wr[w].slot \in Chunk /\ wr[w].slot # Nil /\ wr'[w].slot = Nil /\ wr'[w].pc = "idle"
           /\ \A v \in Writers \ {w} : wr'[v] = wr[v]
           /\ want'[wr[w].slot] = wr[w].val /\ wr[w].val \in Slice
           /\ \A c \in Chunk \ {wr[w].slot} : want'[c] = want[c]
<1> DEFINE c == wr[w].slot
<1>1. c # Nil /\ c \in Chunk /\ wr[w].val \in Slice
  BY WriterIs DEF Typed, FlushSlice
<1>2. writes' \in Nat /\ writes' <= MaxWrite /\ Update(w, Idle)
  BY DEF Typed, WritersTyped, FlushSlice, counts
<1>3. WritersTyped' /\ wr'[w] = Idle /\ \A v \in Writers \ {w} : wr'[v] = wr[v]
  BY <1>2, IdleIs, WriterMakes DEF Typed
<1>4. want \in [Chunk -> Slice \cup {Nil}] /\ want' = [want EXCEPT ![c] = wr[w].val]
  BY DEF Typed, ChunksTyped, FlushSlice
<1>5. want' \in [Chunk -> Slice \cup {Nil}] /\ want'[c] = wr[w].val
      /\ \A d \in Chunk \ {c} : want'[d] = want[d]
  BY <1>1, <1>4
<1>6. ChunksTyped'
  BY <1>5 DEF Typed, ChunksTyped, FlushSlice
<1>7. QueuesTyped'
  BY <1>1, ChunkIs DEF Typed, QueuesTyped, FlushSlice
<1>8. AdminTyped' /\ WorkerTyped'
  BY AdminFrame, WorkerFrame DEF FlushSlice, Typed, counts
<1> QED
  BY <1>1, <1>3, <1>5, <1>6, <1>7, <1>8, IdleIs DEF Typed
LEMMA ReleaseTyped ==
    ASSUME Typed, NEW c \in Chunk, Release(c)
    PROVE  /\ Typed'
           /\ row'[c] = [st |-> "reserved", hash |-> Nil, gen |-> row[c].gen + 1]
           /\ \A d \in Chunk \ {c} :
                \/ row'[d] = row[d] /\ file'[d] = file[d]
                \/ /\ ~IsData(d) /\ StripeOf(d) = StripeOf(c)
                   /\ row'[d] = [st |-> "reserved", hash |-> Nil, gen |-> row[d].gen]
                   /\ ~\E b \in Slots(StripeOf(c)) \ {c} : IsData(b) /\ Written(b)
           /\ want'[c] = Nil /\ \A d \in Chunk \ {c} : want'[d] = want[d]
<1> DEFINE s == StripeOf(c)
           live == \E b \in Slots(s) \ {c} : IsData(b) /\ Written(b)
           gone == {c} \cup (IF live THEN {} ELSE {p \in Slots(s) : ~IsData(p) /\ Written(p)})
           e(d) == [row[d] EXCEPT !.st = "reserved", !.hash = Nil]
<1>1. RowsTyped(row) /\ want \in [Chunk -> Slice \cup {Nil}]
  BY DEF Typed, ChunksTyped
<1>2. row' = [b \in Chunk |-> IF b = c THEN Emptied(row[c]) ELSE IF b \in gone THEN e(b) ELSE row[b]]
  BY DEF Release
<1>3. file' = [b \in Chunk |-> IF b \in gone THEN Nil ELSE file[b]]
  BY DEF Release
<1>4. want' = [want EXCEPT ![c] = Nil]
  BY DEF Release
<1>5. \A d \in gone \ {c} : d \in Chunk /\ ~IsData(d) /\ StripeOf(d) = s /\ ~live
  BY DEF Slots
<1>6. \A d \in Chunk : e(d) = [st |-> "reserved", hash |-> Nil, gen |-> row[d].gen] /\ row[d].gen \in Nat
  BY <1>1, RowIs, RowSet
<1> HIDE DEF live, gone, e
<1>7. row'[c] = [st |-> "reserved", hash |-> Nil, gen |-> row[c].gen + 1]
  BY <1>2 DEF Emptied
<1>8. ASSUME NEW d \in Chunk \ {c}
      PROVE  \/ row'[d] = row[d] /\ file'[d] = file[d] /\ d \notin gone
             \/ /\ d \in gone /\ row'[d] = [st |-> "reserved", hash |-> Nil, gen |-> row[d].gen]
  BY <1>2, <1>3, <1>6
<1>9. ASSUME NEW d \in Chunk
      PROVE  /\ row'[d] \in ChunkRow /\ row'[d].hash \in Bytes(d)
             /\ (row'[d].st \in {"none", "reserved"} => row'[d].hash = Nil)
  <2>1. CASE d = c
    <3>1. row[c].gen + 1 \in Nat /\ Nil \in Bytes(d)
      BY <1>6, BytesAre
    <3> QED
      BY ONLY <1>7, <2>1, <3>1, RowMakes, c \in Chunk
  <2>2. CASE d # c /\ row'[d] = row[d]
    BY <1>1, <2>2, RowIs
  <2>3. CASE d # c /\ row'[d] = [st |-> "reserved", hash |-> Nil, gen |-> row[d].gen]
    <3>1. row[d].gen \in Nat /\ Nil \in Bytes(d)
      BY <1>6, BytesAre
    <3> QED
      BY ONLY <2>3, <3>1, RowMakes, d \in Chunk
  <2> QED
    BY <1>8, <2>1, <2>2, <2>3
<1>10. RowsTyped(row')
  <2>1. row' \in [Chunk -> ChunkRow]
    BY <1>2, <1>9
  <2> QED
    BY <1>9, <2>1 DEF RowsTyped
<1>11. file' \in [Chunk -> Content] /\ \A d \in Chunk : file'[d] \in Bytes(d)
  BY <1>3, BytesAre DEF Typed, ChunksTyped
<1>12. want' \in [Chunk -> Slice \cup {Nil}] /\ want'[c] = Nil /\ \A d \in Chunk \ {c} : want'[d] = want[d]
  BY <1>1, <1>4
<1>13. ChunksTyped'
  BY <1>10, <1>11, <1>12 DEF ChunksTyped
<1>14. QueuesTyped'
  <2>1. s \in Stripe
    BY ChunkIs
  <2>2. pend' \subseteq Stripe /\ UNCHANGED <<run, rpend, rrun, task>>
    BY <2>1 DEF Release, Typed, QueuesTyped
  <2> QED
    BY <2>2 DEF Typed, QueuesTyped
<1>15. AdminTyped' /\ WritersTyped' /\ WorkerTyped'
  BY AdminFrame, WritersFrame, WorkerFrame DEF Release, Typed, counts
<1> QED
  BY <1>5, <1>7, <1>8, <1>12, <1>13, <1>14, <1>15 DEF Typed, live

LEMMA LoseFileTyped ==
    ASSUME Typed, NEW c \in Chunk, LoseFile(c)
    PROVE  Typed' /\ file'[c] = Nil /\ \A d \in Chunk \ {c} : file'[d] = file[d]
<1>1. file \in [Chunk -> Content] /\ \A d \in Chunk : file[d] \in Bytes(d)
  BY DEF Typed, ChunksTyped
<1>2. file'[c] = Nil /\ \A d \in Chunk \ {c} : file'[d] = file[d]
  BY <1>1 DEF LoseFile
<1>3. file' \in [Chunk -> Content] /\ \A d \in Chunk : file'[d] \in Bytes(d)
  BY <1>1, BytesAre DEF LoseFile, Content
<1>4. ChunksTyped'
  BY <1>3 DEF Typed, ChunksTyped, LoseFile, tables
<1>5. AdminTyped'
  <2>1. losses' \in Nat /\ losses' <= MaxLoss /\ losses <= losses'
    BY Shapes DEF LoseFile, Typed, AdminTyped
  <2>2. \A d \in Disk : disk[d].swaps <= losses'
    <3> SUFFICES ASSUME NEW d \in Disk PROVE disk[d].swaps <= losses'
      OBVIOUS
    <3>1. disk[d].swaps \in Nat /\ disk[d].swaps <= losses /\ losses \in Nat
      BY Shapes DEF Typed, AdminTyped, DiskRow
    <3> QED
      BY ONLY <2>1, <3>1
  <2> QED
    BY <2>1, <2>2 DEF LoseFile, Typed, AdminTyped, tables
<1>6. QueuesTyped' /\ WritersTyped' /\ WorkerTyped'
  BY QueuesFrame, WritersFrame, WorkerFrame DEF LoseFile, Typed, tables
<1> QED
  BY <1>2, <1>4, <1>5, <1>6 DEF Typed

LEMMA ReadFailsTyped ==
    ASSUME Typed, NEW c \in Chunk, ReadFails(c)
    PROVE  Typed'
<1>1. StripeOf(c) \in Stripe /\ <<StripeOf(c), 0>> \in Entry /\ <<StripeOf(c), 0>>[1] = StripeOf(c)
      /\ <<StripeOf(c), 0>>[2] = 0 /\ 0 \notin Task
  BY ChunkIs, EntryIs
<1>2. rpend' = rpend \cup {<<StripeOf(c), 0>>} /\ UNCHANGED <<pend, run, rrun, task>>
  BY DEF ReadFails
<1>3. <<StripeOf(c), 0>> \notin rrun
  BY <1>1 DEF ReadFails
<1> DEFINE e == <<StripeOf(c), 0>>
<1> HIDE DEF e
<1>4. QueuesTyped'
  <2>1. rpend' = rpend \cup {e} /\ e \in Entry /\ e \notin rrun /\ e[2] \notin Task
    BY <1>1, <1>2, <1>3 DEF e
  <2> QED
    BY <1>2, <2>1 DEF Typed, QueuesTyped
<1>5. AdminTyped' /\ ChunksTyped' /\ WritersTyped' /\ WorkerTyped'
  BY AdminFrame, ChunksFrame, WritersFrame, WorkerFrame DEF ReadFails, Typed, counts
<1> QED
  BY <1>4, <1>5 DEF Typed

LEMMA SwapDiskTyped ==
    ASSUME Typed, NEW d \in Disk, SwapDisk(d)
    PROVE  /\ Typed'
           /\ disk'[d].st = "repair" /\ disk'[d].swaps = disk[d].swaps + 1
           /\ \A e \in Disk \ {d} : disk'[e] = disk[e]
           /\ pool'.status = "offline" /\ pool'.ds = pool.ds /\ pool'.ps = pool.ps
           /\ \A c \in Chunk : file'[c] = IF DiskOf(c) = d THEN Nil ELSE file[c]
<1> DEFINE n == disk[d].swaps + 1
           r == [st |-> "repair", swaps |-> n]
<1>1. disk \in [Disk -> DiskRow] /\ pool \in PoolRow
  BY DEF Typed, AdminTyped
<1>2. disk' = [disk EXCEPT ![d] = r] /\ pool' = [pool EXCEPT !.status = "offline"]
  BY DEF SwapDisk
<1>3. /\ losses' \in Nat /\ losses' <= MaxLoss /\ losses' = losses + 1 /\ losses \in Nat
      /\ \A e \in Disk : disk[e].swaps \in Nat /\ disk[e].swaps <= losses
  BY Shapes, <1>1 DEF SwapDisk, Typed, AdminTyped, DiskRow
<1>4. n \in Nat /\ n <= losses' /\ n \in 0..MaxLoss
  <2>1. disk[d].swaps \in Nat /\ disk[d].swaps <= losses
    BY <1>3
  <2> QED
    BY ONLY <1>3, <2>1, Shapes
<1> HIDE DEF n
<1>5. r \in DiskRow /\ r.st = "repair" /\ r.swaps = n
  BY <1>4 DEF DiskRow
<1> HIDE DEF r
<1>6. disk' \in [Disk -> DiskRow] /\ disk'[d] = r /\ \A e \in Disk \ {d} : disk'[e] = disk[e]
  BY <1>1, <1>2, <1>5
<1>7. pool' \in PoolRow /\ pool'.status = "offline" /\ pool'.ds = pool.ds /\ pool'.ps = pool.ps
  BY <1>1, <1>2 DEF PoolRow
<1>8. \A e \in Disk : disk'[e].swaps <= losses'
  <2> SUFFICES ASSUME NEW e \in Disk PROVE disk'[e].swaps <= losses'
    OBVIOUS
  <2>1. CASE e = d
    BY <1>4, <1>5, <1>6, <2>1
  <2>2. CASE e # d
    <3>1. disk'[e].swaps = disk[e].swaps /\ disk[e].swaps \in Nat /\ disk[e].swaps <= losses
      BY <1>3, <1>6, <2>2
    <3> QED
      BY ONLY <1>3, <3>1
  <2> QED
    BY <2>1, <2>2
<1>9. AdminTyped'
  <2>1. (DS + PS + 1 \in Disk /\ disk'[DS + PS + 1].st = "none")
            => (DS + PS + 1 \in Disk /\ disk[DS + PS + 1].st = "none")
    <3> DEFINE k == DS + PS + 1
    <3> HIDE DEF k
    <3>1. k \in Disk /\ disk'[k].st = "none" => disk[k].st = "none"
      BY <1>5, <1>6
    <3> QED
      BY <3>1 DEF k
  <2>2. adding' = adding
    BY DEF SwapDisk
  <2> QED
    BY <1>3, <1>6, <1>7, <1>8, <2>1, <2>2 DEF Typed, AdminTyped
<1>10. /\ \A c \in Chunk : file'[c] = IF DiskOf(c) = d THEN Nil ELSE file[c]
       /\ file' \in [Chunk -> Content] /\ \A c \in Chunk : file'[c] \in Bytes(c)
  BY BytesAre DEF SwapDisk, Typed, ChunksTyped
<1>11. ChunksTyped'
  BY <1>10 DEF Typed, ChunksTyped, SwapDisk
<1>12. QueuesTyped' /\ WritersTyped' /\ WorkerTyped'
  BY QueuesFrame, WritersFrame, WorkerFrame DEF SwapDisk, Typed
<1> QED
  BY <1>5, <1>6, <1>7, <1>9, <1>10, <1>11, <1>12 DEF Typed, n

LEMMA OfflinePoolTyped ==
    ASSUME Typed, OfflinePool
    PROVE  /\ Typed'
           /\ pool'.status = "offline" /\ pool'.ds = pool.ds /\ pool'.ps = pool.ps
<1>1. pool \in PoolRow
  BY DEF Typed, AdminTyped
<1>2. pool' \in PoolRow /\ pool'.status = "offline" /\ pool'.ds = pool.ds /\ pool'.ps = pool.ps
  BY <1>1 DEF OfflinePool, PoolRow
<1>3. AdminTyped'
  BY <1>2 DEF Typed, AdminTyped, OfflinePool, counts
<1>4. ChunksTyped' /\ QueuesTyped' /\ WritersTyped' /\ WorkerTyped'
  BY ChunksFrame, QueuesFrame, WritersFrame, WorkerFrame DEF OfflinePool, Typed, counts
<1> QED
  BY <1>2, <1>3, <1>4 DEF Typed

LEMMA RebuildPoolTyped ==
    ASSUME Typed, NEW t \in Task, RebuildPool(t)
    PROVE  Typed'
<1>1. rpend' = rpend \cup {<<s, t>> : s \in Damaged} /\ UNCHANGED <<pend, run, rrun>>
      /\ task' = [task EXCEPT ![t] = "pending"] /\ task[t] = "none"
  BY DEF RebuildPool
<1>2. Damaged \subseteq Stripe
  BY DEF Damaged
<1>3. \A e \in {<<s, t>> : s \in Damaged} : e \in Entry /\ e[2] = t
  BY <1>2, EntryIs
<1>4. \A e \in rpend \cup rrun : e[2] \in Task => task[e[2]] # "none"
  BY DEF Typed, QueuesTyped
<1>5. \A e \in {<<s, t>> : s \in Damaged} : e \notin rrun
  BY <1>1, <1>3, <1>4
<1>6. /\ task' \in [Task -> {"none", "pending", "success", "fail"}]
      /\ task'[t] = "pending" /\ \A u \in Task \ {t} : task'[u] = task[u]
  BY <1>1 DEF Typed, QueuesTyped
<1> DEFINE N == {<<s, t>> : s \in Damaged}
<1> HIDE DEF N
<1>7. rpend' = rpend \cup N /\ N \cap rrun = {} /\ N \subseteq Entry /\ \A e \in N : e[2] = t
  BY <1>1, <1>3, <1>5 DEF N
<1>8. QueuesTyped'
  BY <1>1, <1>4, <1>6, <1>7 DEF Typed, QueuesTyped
<1>9. AdminTyped' /\ ChunksTyped' /\ WritersTyped' /\ WorkerTyped'
  BY AdminFrame, ChunksFrame, WritersFrame, WorkerFrame DEF RebuildPool, Typed, counts
<1> QED
  BY <1>8, <1>9 DEF Typed

LEMMA AddDiskTyped ==
    ASSUME Typed, NEW k \in {"data", "parity"}, AddDisk(k)
    PROVE  /\ Typed'
           /\ pool'.status = pool.status
           /\ pool'.ds = (IF k = "data" THEN pool.ds + 1 ELSE pool.ds)
           /\ pool'.ps = (IF k = "data" THEN pool.ps ELSE pool.ps + 1)
           /\ pool.ds = DS /\ pool.ps = PS
           /\ \A d \in Disk : disk'[d] = disk[d]
                \/ (disk[d].st = "none" /\ disk'[d].st = "online" /\ disk'[d].swaps = disk[d].swaps)
<1> DEFINE d == DS + PS + 1
<1>1. pool \in PoolRow /\ disk \in [Disk -> DiskRow] /\ d \in Disk /\ pool.ds = DS /\ pool.ps = PS
  BY DEF Typed, AdminTyped, AddDisk
<1>2. MaxAdd = 1
  <2>1. d \in 1..(DS + PS + MaxAdd)
    BY <1>1 DEF Disk
  <2> QED
    BY ONLY <2>1, RebuildAssumption
<1>3. disk[d] \in DiskRow /\ disk[d].st = "none"
  BY <1>1 DEF AddDisk
<1> DEFINE r == [disk[d] EXCEPT !.st = "online"]
<1>4. r \in DiskRow /\ r.st = "online" /\ r.swaps = disk[d].swaps
  BY <1>3 DEF DiskRow
<1>5. disk' = [disk EXCEPT ![d] = r]
  BY DEF AddDisk
<1> HIDE DEF r, d
<1>6. disk' \in [Disk -> DiskRow] /\ disk'[d] = r /\ \A e \in Disk \ {d} : disk'[e] = disk[e]
  BY <1>1, <1>4, <1>5
<1>7. /\ pool' \in PoolRow /\ pool'.status = pool.status
      /\ pool'.ds = (IF k = "data" THEN DS + 1 ELSE DS)
      /\ pool'.ps = (IF k = "data" THEN PS ELSE PS + 1)
  <2>1. /\ DS + 1 \in DS..(DS + MaxAdd) /\ DS \in DS..(DS + MaxAdd)
        /\ PS + 1 \in PS..(PS + MaxAdd) /\ PS \in PS..(PS + MaxAdd)
    BY <1>2, Shapes
  <2>2. pool' = IF k = "data" THEN [pool EXCEPT !.ds = DS + 1] ELSE [pool EXCEPT !.ps = PS + 1]
    BY <1>1 DEF AddDisk
  <2>3. CASE k = "data"
    BY <1>1, <2>1, <2>2, <2>3 DEF PoolRow
  <2>4. CASE k # "data"
    BY <1>1, <2>1, <2>2, <2>4 DEF PoolRow
  <2> QED
    BY <2>3, <2>4
<1>8. AdminTyped'
  <2>1. losses' = losses /\ adding' = k
    BY DEF AddDisk, counts
  <2>2. \A e \in Disk : disk'[e].swaps = disk[e].swaps
    BY <1>4, <1>6
  <2>3. ~(DS + PS + 1 \in Disk /\ disk'[DS + PS + 1].st = "none")
    BY <1>4, <1>6 DEF d
  <2>4. (k = "data" => pool'.ds = DS + 1) /\ (k = "parity" => pool'.ps = PS + 1)
    BY <1>7
  <2> QED
    BY <1>6, <1>7, <2>1, <2>2, <2>3, <2>4 DEF Typed, AdminTyped
<1>9. ChunksTyped' /\ QueuesTyped' /\ WritersTyped' /\ WorkerTyped'
  BY ChunksFrame, QueuesFrame, WritersFrame, WorkerFrame DEF AddDisk, Typed, counts
<1> QED
  BY <1>1, <1>3, <1>4, <1>6, <1>7, <1>8, <1>9 DEF Typed

LEMMA AddSlotsTyped ==
    ASSUME Typed, AddSlots
    PROVE  /\ Typed'
           /\ \A c \in Chunk :
                row'[c] = IF c \in {<<s, <<adding, NewIndex>>>> : s \in Stripes}
                          THEN IF row[c].st = "none"
                               THEN [st |-> "reserved", hash |-> Nil, gen |-> 0]
                               ELSE [row[c] EXCEPT !.st = "double"]
                          ELSE row[c]
<1> DEFINE new == {<<s, <<adding, NewIndex>>>> : s \in Stripes}
           e == [st |-> "reserved", hash |-> Nil, gen |-> 0]
           double(r) == [r EXCEPT !.st = "double"]
<1>1. RowsTyped(row)
  BY DEF Typed, ChunksTyped
<1>2. [None EXCEPT !.st = "reserved"] = e
  BY DEF None
<1> HIDE DEF new
<1>3. row' = [c \in Chunk |-> IF c \notin new THEN row[c]
                              ELSE IF row[c].st = "none" THEN e ELSE double(row[c])]
  BY <1>2 DEF AddSlots, new
<1>4. e \in ChunkRow /\ e.hash = Nil
  BY DEF ChunkRow, Content
<1>5. \A r \in ChunkRow : double(r) \in ChunkRow /\ double(r).hash = r.hash /\ double(r).st = "double"
  BY DEF ChunkRow
<1> HIDE DEF e, double
<1>6. ASSUME NEW c \in Chunk
      PROVE  /\ row'[c] \in ChunkRow /\ row'[c].hash \in Bytes(c)
             /\ (row'[c].st \in {"none", "reserved"} => row'[c].hash = Nil)
  <2>1. row[c] \in ChunkRow /\ row[c].hash \in Bytes(c)
        /\ (row[c].st \in {"none", "reserved"} => row[c].hash = Nil) /\ Nil \in Bytes(c)
    BY <1>1, RowIs, BytesAre
  <2>2. CASE c \notin new
    BY <1>3, <2>1, <2>2
  <2>3. CASE c \in new /\ row[c].st = "none"
    BY <1>3, <1>4, <2>1, <2>3
  <2>4. CASE c \in new /\ row[c].st # "none"
    BY <1>3, <1>5, <2>1, <2>4
  <2> QED
    BY <2>2, <2>3, <2>4
<1>7. RowsTyped(row')
  <2>1. row' \in [Chunk -> ChunkRow]
    BY <1>3, <1>6
  <2> QED
    BY <1>6, <2>1 DEF RowsTyped
<1>8. ChunksTyped'
  BY <1>7 DEF Typed, ChunksTyped, AddSlots
<1>9. AdminTyped'
  BY SliceIs DEF Typed, AdminTyped, AddSlots, counts
<1>10. QueuesTyped' /\ WritersTyped' /\ WorkerTyped'
  BY QueuesFrame, WritersFrame, WorkerFrame DEF AddSlots, Typed, counts
<1> QED
  BY <1>3, <1>8, <1>9, <1>10 DEF Typed, new, e, double
-----------------------------------------------------------------------------
(* Types: the worker's record, one field or several at a time.             *)

WorkerRec(x) == x = [pc |-> x.pc, ents |-> x.ents, meta |-> x.meta, todo |-> x.todo,
                     fix |-> x.fix, good |-> x.good]

LEMMA Set_pc ==
    ASSUME NEW x, WorkerRec(x), NEW a, NEW y, y = [x EXCEPT !.pc = a]
    PROVE  /\ WorkerRec(y) /\ y.pc = a /\ y.ents = x.ents /\ y.meta = x.meta
           /\ y.todo = x.todo /\ y.fix = x.fix /\ y.good = x.good
  BY DEF WorkerRec

LEMMA Set_ents ==
    ASSUME NEW x, WorkerRec(x), NEW a, NEW y, y = [x EXCEPT !.ents = a]
    PROVE  /\ WorkerRec(y) /\ y.pc = x.pc /\ y.ents = a /\ y.meta = x.meta
           /\ y.todo = x.todo /\ y.fix = x.fix /\ y.good = x.good
  BY DEF WorkerRec

LEMMA Set_meta ==
    ASSUME NEW x, WorkerRec(x), NEW a, NEW y, y = [x EXCEPT !.meta = a]
    PROVE  /\ WorkerRec(y) /\ y.pc = x.pc /\ y.ents = x.ents /\ y.meta = a
           /\ y.todo = x.todo /\ y.fix = x.fix /\ y.good = x.good
  BY DEF WorkerRec

LEMMA Set_todo ==
    ASSUME NEW x, WorkerRec(x), NEW a, NEW y, y = [x EXCEPT !.todo = a]
    PROVE  /\ WorkerRec(y) /\ y.pc = x.pc /\ y.ents = x.ents /\ y.meta = x.meta
           /\ y.todo = a /\ y.fix = x.fix /\ y.good = x.good
  BY DEF WorkerRec

LEMMA Set_fix ==
    ASSUME NEW x, WorkerRec(x), NEW a, NEW y, y = [x EXCEPT !.fix = a]
    PROVE  /\ WorkerRec(y) /\ y.pc = x.pc /\ y.ents = x.ents /\ y.meta = x.meta
           /\ y.todo = x.todo /\ y.fix = a /\ y.good = x.good
  BY DEF WorkerRec

LEMMA Set_good ==
    ASSUME NEW x, WorkerRec(x), NEW a, NEW y, y = [x EXCEPT !.good = a]
    PROVE  /\ WorkerRec(y) /\ y.pc = x.pc /\ y.ents = x.ents /\ y.meta = x.meta
           /\ y.todo = x.todo /\ y.fix = x.fix /\ y.good = a
  BY DEF WorkerRec

PcEnts(x, a, b) == [x EXCEPT !.pc = a, !.ents = b]
LEMMA SetPcEnts ==
    ASSUME NEW x, WorkerRec(x), NEW a, NEW b, NEW z, z = PcEnts(x, a, b)
    PROVE  /\ WorkerRec(z) /\ z.pc = a /\ z.ents = b /\ z.meta = x.meta
           /\ z.todo = x.todo /\ z.fix = x.fix /\ z.good = x.good
<1> DEFINE u == [x EXCEPT !.pc = a]
<1>1. u = [x EXCEPT !.pc = a]
  OBVIOUS
<1> HIDE DEF u
<1>2. /\ WorkerRec(u) /\ u.pc = a /\ u.ents = x.ents /\ u.meta = x.meta
      /\ u.todo = x.todo /\ u.fix = x.fix /\ u.good = x.good
  BY ONLY <1>1, WorkerRec(x), Set_pc
<1>3. WorkerRec(u)
  BY ONLY <1>2
<1>4. z = [u EXCEPT !.ents = b]
  BY DEF PcEnts, u
<1>5. /\ WorkerRec(z) /\ z.pc = u.pc /\ z.ents = b /\ z.meta = u.meta
      /\ z.todo = u.todo /\ z.fix = u.fix /\ z.good = u.good
  BY ONLY <1>4, <1>3, Set_ents
<1> QED
  BY ONLY <1>2, <1>5

PcMeta(x, a, b) == [x EXCEPT !.pc = a, !.meta = b]
LEMMA SetPcMeta ==
    ASSUME NEW x, WorkerRec(x), NEW a, NEW b, NEW z, z = PcMeta(x, a, b)
    PROVE  /\ WorkerRec(z) /\ z.pc = a /\ z.ents = x.ents /\ z.meta = b
           /\ z.todo = x.todo /\ z.fix = x.fix /\ z.good = x.good
<1> DEFINE u == [x EXCEPT !.pc = a]
<1>1. u = [x EXCEPT !.pc = a]
  OBVIOUS
<1> HIDE DEF u
<1>2. /\ WorkerRec(u) /\ u.pc = a /\ u.ents = x.ents /\ u.meta = x.meta
      /\ u.todo = x.todo /\ u.fix = x.fix /\ u.good = x.good
  BY ONLY <1>1, WorkerRec(x), Set_pc
<1>3. WorkerRec(u)
  BY ONLY <1>2
<1>4. z = [u EXCEPT !.meta = b]
  BY DEF PcMeta, u
<1>5. /\ WorkerRec(z) /\ z.pc = u.pc /\ z.ents = u.ents /\ z.meta = b
      /\ z.todo = u.todo /\ z.fix = u.fix /\ z.good = u.good
  BY ONLY <1>4, <1>3, Set_meta
<1> QED
  BY ONLY <1>2, <1>5

PcTodo(x, a, b) == [x EXCEPT !.pc = a, !.todo = b]
LEMMA SetPcTodo ==
    ASSUME NEW x, WorkerRec(x), NEW a, NEW b, NEW z, z = PcTodo(x, a, b)
    PROVE  /\ WorkerRec(z) /\ z.pc = a /\ z.ents = x.ents /\ z.meta = x.meta
           /\ z.todo = b /\ z.fix = x.fix /\ z.good = x.good
<1> DEFINE u == [x EXCEPT !.pc = a]
<1>1. u = [x EXCEPT !.pc = a]
  OBVIOUS
<1> HIDE DEF u
<1>2. /\ WorkerRec(u) /\ u.pc = a /\ u.ents = x.ents /\ u.meta = x.meta
      /\ u.todo = x.todo /\ u.fix = x.fix /\ u.good = x.good
  BY ONLY <1>1, WorkerRec(x), Set_pc
<1>3. WorkerRec(u)
  BY ONLY <1>2
<1>4. z = [u EXCEPT !.todo = b]
  BY DEF PcTodo, u
<1>5. /\ WorkerRec(z) /\ z.pc = u.pc /\ z.ents = u.ents /\ z.meta = u.meta
      /\ z.todo = b /\ z.fix = u.fix /\ z.good = u.good
  BY ONLY <1>4, <1>3, Set_todo
<1> QED
  BY ONLY <1>2, <1>5

PcFix(x, a, b) == [x EXCEPT !.pc = a, !.fix = b]
LEMMA SetPcFix ==
    ASSUME NEW x, WorkerRec(x), NEW a, NEW b, NEW z, z = PcFix(x, a, b)
    PROVE  /\ WorkerRec(z) /\ z.pc = a /\ z.ents = x.ents /\ z.meta = x.meta
           /\ z.todo = x.todo /\ z.fix = b /\ z.good = x.good
<1> DEFINE u == [x EXCEPT !.pc = a]
<1>1. u = [x EXCEPT !.pc = a]
  OBVIOUS
<1> HIDE DEF u
<1>2. /\ WorkerRec(u) /\ u.pc = a /\ u.ents = x.ents /\ u.meta = x.meta
      /\ u.todo = x.todo /\ u.fix = x.fix /\ u.good = x.good
  BY ONLY <1>1, WorkerRec(x), Set_pc
<1>3. WorkerRec(u)
  BY ONLY <1>2
<1>4. z = [u EXCEPT !.fix = b]
  BY DEF PcFix, u
<1>5. /\ WorkerRec(z) /\ z.pc = u.pc /\ z.ents = u.ents /\ z.meta = u.meta
      /\ z.todo = u.todo /\ z.fix = b /\ z.good = u.good
  BY ONLY <1>4, <1>3, Set_fix
<1> QED
  BY ONLY <1>2, <1>5

TodoFix(x, a, b) == [x EXCEPT !.todo = a, !.fix = b]
LEMMA SetTodoFix ==
    ASSUME NEW x, WorkerRec(x), NEW a, NEW b, NEW z, z = TodoFix(x, a, b)
    PROVE  /\ WorkerRec(z) /\ z.pc = x.pc /\ z.ents = x.ents /\ z.meta = x.meta
           /\ z.todo = a /\ z.fix = b /\ z.good = x.good
<1> DEFINE u == [x EXCEPT !.todo = a]
<1>1. u = [x EXCEPT !.todo = a]
  OBVIOUS
<1> HIDE DEF u
<1>2. /\ WorkerRec(u) /\ u.pc = x.pc /\ u.ents = x.ents /\ u.meta = x.meta
      /\ u.todo = a /\ u.fix = x.fix /\ u.good = x.good
  BY ONLY <1>1, WorkerRec(x), Set_todo
<1>3. WorkerRec(u)
  BY ONLY <1>2
<1>4. z = [u EXCEPT !.fix = b]
  BY DEF TodoFix, u
<1>5. /\ WorkerRec(z) /\ z.pc = u.pc /\ z.ents = u.ents /\ z.meta = u.meta
      /\ z.todo = u.todo /\ z.fix = b /\ z.good = u.good
  BY ONLY <1>4, <1>3, Set_fix
<1> QED
  BY ONLY <1>2, <1>5

PcGood(x, a, b) == [x EXCEPT !.pc = a, !.good = b]
LEMMA SetPcGood ==
    ASSUME NEW x, WorkerRec(x), NEW a, NEW b, NEW z, z = PcGood(x, a, b)
    PROVE  /\ WorkerRec(z) /\ z.pc = a /\ z.ents = x.ents /\ z.meta = x.meta
           /\ z.todo = x.todo /\ z.fix = x.fix /\ z.good = b
<1> DEFINE u == [x EXCEPT !.pc = a]
<1>1. u = [x EXCEPT !.pc = a]
  OBVIOUS
<1> HIDE DEF u
<1>2. /\ WorkerRec(u) /\ u.pc = a /\ u.ents = x.ents /\ u.meta = x.meta
      /\ u.todo = x.todo /\ u.fix = x.fix /\ u.good = x.good
  BY ONLY <1>1, WorkerRec(x), Set_pc
<1>3. WorkerRec(u)
  BY ONLY <1>2
<1>4. z = [u EXCEPT !.good = b]
  BY DEF PcGood, u
<1>5. /\ WorkerRec(z) /\ z.pc = u.pc /\ z.ents = u.ents /\ z.meta = u.meta
      /\ z.todo = u.todo /\ z.fix = u.fix /\ z.good = b
  BY ONLY <1>4, <1>3, Set_good
<1> QED
  BY ONLY <1>2, <1>5

PcMetaTodo(x, a, b, c) == [x EXCEPT !.pc = a, !.meta = b, !.todo = c]
LEMMA SetPcMetaTodo ==
    ASSUME NEW x, WorkerRec(x), NEW a, NEW b, NEW c, NEW z, z = PcMetaTodo(x, a, b, c)
    PROVE  /\ WorkerRec(z) /\ z.pc = a /\ z.ents = x.ents /\ z.meta = b
           /\ z.todo = c /\ z.fix = x.fix /\ z.good = x.good
<1> DEFINE u == [x EXCEPT !.pc = a]
<1>1. u = [x EXCEPT !.pc = a]
  OBVIOUS
<1> HIDE DEF u
<1>2. /\ WorkerRec(u) /\ u.pc = a /\ u.ents = x.ents /\ u.meta = x.meta
      /\ u.todo = x.todo /\ u.fix = x.fix /\ u.good = x.good
  BY ONLY <1>1, WorkerRec(x), Set_pc
<1>3. WorkerRec(u)
  BY ONLY <1>2
<1> DEFINE v == [u EXCEPT !.meta = b]
<1>4. v = [u EXCEPT !.meta = b]
  OBVIOUS
<1> HIDE DEF v
<1>5. /\ WorkerRec(v) /\ v.pc = u.pc /\ v.ents = u.ents /\ v.meta = b
      /\ v.todo = u.todo /\ v.fix = u.fix /\ v.good = u.good
  BY ONLY <1>4, <1>3, Set_meta
<1>6. WorkerRec(v)
  BY ONLY <1>5
<1>7. z = [v EXCEPT !.todo = c]
  BY DEF PcMetaTodo, u, v
<1>8. /\ WorkerRec(z) /\ z.pc = v.pc /\ z.ents = v.ents /\ z.meta = v.meta
      /\ z.todo = c /\ z.fix = v.fix /\ z.good = v.good
  BY ONLY <1>7, <1>6, Set_todo
<1> QED
  BY ONLY <1>2, <1>5, <1>8

LEMMA WorkerParts ==
    ASSUME WorkerTyped
    PROVE  /\ WorkerRec(wk) /\ wk.pc \in WorkerPc /\ wk.ents \subseteq Entry /\ wk.todo \subseteq Stripe
           /\ wk.good \subseteq Disk /\ DOMAIN wk.fix \subseteq Chunk
           /\ \A c \in DOMAIN wk.fix : wk.fix[c] \in Bytes(c) \ {Nil}
           /\ wk.pc \notin {"work", "commit"} => DOMAIN wk.fix = {}
           /\ wk.pc \in {"work", "compute"} => wk.meta \in Loaded /\ RowsTyped(wk.meta.row)
  BY DEF WorkerTyped, WorkerRec

LEMMA WorkerMakes ==
    ASSUME WorkerRec(wk'), wk'.pc \in WorkerPc, wk'.ents \subseteq Entry, wk'.todo \subseteq Stripe,
           wk'.good \subseteq Disk, DOMAIN wk'.fix \subseteq Chunk,
           \A c \in DOMAIN wk'.fix : wk'.fix[c] \in Bytes(c) \ {Nil},
           wk'.pc \notin {"work", "commit"} => DOMAIN wk'.fix = {},
           wk'.pc \in {"work", "compute"} => wk'.meta \in Loaded /\ RowsTyped(wk'.meta.row)
    PROVE  WorkerTyped'
  BY DEF WorkerTyped, WorkerRec

LEMMA NoBatchRec ==
    /\ WorkerRec(NoBatch) /\ NoBatch.pc = "idle" /\ NoBatch.ents = {} /\ NoBatch.todo = {}
    /\ NoBatch.good = {} /\ NoBatch.meta = Nil /\ DOMAIN NoBatch.fix = {}
  BY EmptyTuple DEF WorkerRec, NoBatch

(* A step of the worker that changes its record and at most the queues.    *)
LEMMA WorkerOnly ==
    ASSUME Typed, WorkerTyped', QueuesTyped',
           UNCHANGED <<pool, disk, row, file, want, wr, adding, writes, losses>>
    PROVE  Typed'
  BY AdminFrame, ChunksFrame, WritersFrame DEF Typed

LEMMA ClaimRebuildTyped ==
    ASSUME Typed, ClaimRebuild
    PROVE  /\ Typed' /\ wk'.pc = "load" /\ wk'.ents = rpend \cup rrun /\ DOMAIN wk'.fix = {}
<1> DEFINE E == rpend \cup rrun
<1>1. wk' = PcEnts(wk, "load", E)
  BY DEF ClaimRebuild, PcEnts
<1>2. WorkerRec(wk) /\ DOMAIN wk.fix = {} /\ wk.todo \subseteq Stripe /\ wk.good \subseteq Disk
  BY WorkerParts DEF Typed, ClaimRebuild
<1>3. E \subseteq Entry
  BY DEF Typed, QueuesTyped
<1>4. UNCHANGED <<pool, disk, row, file, want, wr, adding, writes, losses, pend, run, task>>
      /\ rpend' = {} /\ rrun' = E
  BY DEF ClaimRebuild, counts
<1>5. "load" \in WorkerPc \ {"work", "compute", "commit"}
  BY DEF WorkerPc
<1>6. QueuesTyped'
  BY <1>3, <1>4 DEF Typed, QueuesTyped
<1> HIDE DEF E
<1>7. WorkerRec(wk')
      /\ wk'.pc = "load" /\ wk'.ents = E /\ wk'.meta = wk.meta
      /\ wk'.todo = wk.todo /\ wk'.fix = wk.fix /\ wk'.good = wk.good
  <2>1. WorkerRec(wk)
    BY ONLY <1>2
  <2> QED
    BY ONLY <1>1, <2>1, SetPcEnts
<1>8. WorkerTyped'
  BY ONLY <1>2, <1>3, <1>5, <1>7, WorkerMakes
<1> QED
  BY <1>2, <1>4, <1>6, <1>7, <1>8, WorkerOnly DEF E

LEMMA LoadMetaTyped ==
    ASSUME Typed, LoadMeta
    PROVE  /\ Typed' /\ wk'.pc = "work" /\ wk'.ents = wk.ents /\ wk'.meta = Meta
           /\ wk'.todo = BatchOf /\ DOMAIN wk'.fix = {}
<1> DEFINE M == Meta
           B == BatchOf
<1>1. wk' = PcMetaTodo(wk, "work", M, B)
  BY DEF LoadMeta, PcMetaTodo
<1>2. /\ WorkerRec(wk) /\ DOMAIN wk.fix = {} /\ wk.ents \subseteq Entry /\ wk.good \subseteq Disk
  BY WorkerParts DEF Typed, LoadMeta
<1>3. B \subseteq Stripe
  BY <1>2, EntryIs DEF BatchOf
<1>4. M \in Loaded /\ RowsTyped(M.row)
  BY MetaIs DEF Typed
<1>5. UNCHANGED <<pool, disk, row, file, want, wr, adding, writes, losses, pend, run, rpend, rrun, task>>
  BY DEF LoadMeta, counts, tables
<1>6. "work" \in WorkerPc
  BY DEF WorkerPc
<1> HIDE DEF M, B
<1>7. WorkerRec(wk')
      /\ wk'.pc = "work" /\ wk'.ents = wk.ents /\ wk'.meta = M
      /\ wk'.todo = B /\ wk'.fix = wk.fix /\ wk'.good = wk.good
  <2>1. WorkerRec(wk)
    BY ONLY <1>2
  <2> QED
    BY ONLY <1>1, <2>1, SetPcMetaTodo
<1>8. WorkerTyped'
  BY ONLY <1>2, <1>3, <1>4, <1>6, <1>7, WorkerMakes
<1>9. QueuesTyped'
  BY <1>5, QueuesFrame DEF Typed
<1> QED
  BY <1>2, <1>5, <1>7, <1>8, <1>9, WorkerOnly DEF M, B

LEMMA RefsIs ==
    ASSUME WorkerTyped, wk.pc \in {"work", "compute"}, NEW s
    PROVE  /\ wk.meta.ds \in DS..(DS + MaxAdd) /\ wk.meta.ps \in PS..(PS + MaxAdd)
           /\ Refs(s) \subseteq Chunk /\ JobData(s) \subseteq Refs(s)
           /\ \A c \in Refs(s) : /\ StripeOf(c) = s /\ wk.meta.row[c].st = "written"
                                 /\ IsData(c) => c \in JobData(s) /\ Index(c) \in 0..(wk.meta.ds - 1)
<1>1. wk.meta.ds \in DS..(DS + MaxAdd) /\ wk.meta.ps \in PS..(PS + MaxAdd)
  BY DEF WorkerTyped, Loaded
<1>2. wk.meta.ds \in Nat
  BY <1>1, Shapes
<1>3. \A c \in JobData(s) : c \in Chunk /\ Index(c) \in 0..(wk.meta.ds - 1)
  <2> SUFFICES ASSUME NEW c \in JobData(s) PROVE c \in Chunk /\ Index(c) \in 0..(wk.meta.ds - 1)
    OBVIOUS
  <2>1. c \in Chunk /\ Index(c) < wk.meta.ds
    BY DEF JobData
  <2>2. Index(c) \in Nat
    BY <2>1, ChunkIs
  <2> QED
    BY ONLY <1>2, <2>1, <2>2
<1> QED
  BY <1>1, <1>3 DEF Refs, JobData, JobParity

(* What a rebuild decodes has the type of what it is for.                  *)
Out(s) == LET there == Refs(s) \ Missing(s)
          IN  Decoded(Shards({c \in there : IsData(c)}), Shards({c \in there : ~IsData(c)}), wk.meta.ds)

LEMMA OutTyped ==
    ASSUME Typed, wk.pc = "work", NEW s
    PROVE  /\ Out(s) \in [0..(wk.meta.ds - 1) -> Element] /\ Out(s) \in Vector
           /\ \A c \in Missing(s) : IsData(c) => Out(s)[Index(c)] \in Element
<1> DEFINE there == Refs(s) \ Missing(s)
           data == {c \in there : IsData(c)}
           parity == {c \in there : ~IsData(c)}
           v == Decoded(Shards(data), Shards(parity), wk.meta.ds)
<1>1. WorkerTyped /\ ChunksTyped
  BY DEF Typed
<1>2. \A c \in there : c \in Chunk /\ Found(c) \in Bytes(c) \ {Nil}
  BY <1>1, RefsIs, FoundIs DEF Missing
<1>3. \A i \in DOMAIN Shards(data) : Shards(data)[i] \in Element
  <2> SUFFICES ASSUME NEW i \in DOMAIN Shards(data) PROVE Shards(data)[i] \in Element
    OBVIOUS
  <2>1. PICK c \in data : Shards(data)[i] = Found(c)
    BY ShardsAre
  <2> QED
    BY <1>2, <2>1, BytesAre
<1>4. \A i \in DOMAIN Shards(parity) : Shards(parity)[i] \in Vector
  <2> SUFFICES ASSUME NEW i \in DOMAIN Shards(parity) PROVE Shards(parity)[i] \in Vector
    OBVIOUS
  <2>1. PICK c \in parity : Shards(parity)[i] = Found(c)
    BY ShardsAre
  <2> QED
    BY <1>2, <2>1, BytesAre
<1>5. v \in [0..(wk.meta.ds - 1) -> Element]
  BY <1>3, <1>4, DecodedElement
<1>6. v = Out(s)
  BY DEF Out
<1> HIDE DEF v
<1>7. v \in Vector
  BY <1>1, <1>5, RefsIs, VectorIs
<1>8. \A c \in Missing(s) : IsData(c) => v[Index(c)] \in Element
  BY <1>1, <1>5, RefsIs DEF Missing
<1> QED
  BY <1>5, <1>6, <1>7, <1>8

(* What a rebuild of one stripe does to the worker.                        *)
Rebuilt(s) == [c \in DOMAIN wk.fix \cup Missing(s) |->
                  IF c \in DOMAIN wk.fix THEN wk.fix[c]
                  ELSE IF IsData(c) THEN Out(s)[Index(c)] ELSE Out(s)]

LEMMA RebuildReadTyped ==
    ASSUME Typed, NEW s \in Stripe, RebuildRead(s)
    PROVE  /\ Typed'
           /\ wk.pc = "work" /\ wk'.pc = "work" /\ s \in wk.todo /\ Fixed(s) = {}
           /\ wk'.ents = wk.ents /\ wk'.meta = wk.meta /\ wk'.good = wk.good
           /\ \/ /\ \/ Missing(s) = {} \/ Cardinality(Missing(s)) > wk.meta.ps
                    \/ Cardinality(Refs(s) \ Missing(s)) < wk.meta.ds
                 /\ wk'.todo = wk.todo \ {s} /\ wk'.fix = wk.fix
              \/ /\ Missing(s) # {} /\ Cardinality(Missing(s)) <= wk.meta.ps
                 /\ Cardinality(Refs(s) \ Missing(s)) >= wk.meta.ds
                 /\ wk'.todo = wk.todo /\ wk'.fix = Rebuilt(s)
<1>1. UNCHANGED <<pool, disk, row, file, want, wr, adding, writes, losses, pend, run, rpend, rrun, task>>
  BY DEF RebuildRead, counts, tables
<1>2. /\ WorkerRec(wk) /\ DOMAIN wk.fix \subseteq Chunk /\ wk.ents \subseteq Entry /\ wk.good \subseteq Disk
      /\ wk.todo \subseteq Stripe /\ wk.pc = "work" /\ s \in wk.todo /\ Fixed(s) = {}
      /\ wk.meta \in Loaded /\ RowsTyped(wk.meta.row)
      /\ \A c \in DOMAIN wk.fix : wk.fix[c] \in Bytes(c) \ {Nil}
  BY WorkerParts DEF Typed, RebuildRead
<1>3. QueuesTyped'
  BY <1>1, QueuesFrame DEF Typed
<1>4. "work" \in WorkerPc
  BY DEF WorkerPc
<1> DEFINE T == wk.todo \ {s}
           F == Rebuilt(s)
<1>5. \/ /\ \/ Missing(s) = {} \/ Cardinality(Missing(s)) > wk.meta.ps
            \/ Cardinality(Refs(s) \ Missing(s)) < wk.meta.ds
         /\ wk' = [wk EXCEPT !.todo = T]
      \/ /\ Missing(s) # {} /\ ~(Cardinality(Missing(s)) > wk.meta.ps)
         /\ ~(Cardinality(Refs(s) \ Missing(s)) < wk.meta.ds)
         /\ wk' = [wk EXCEPT !.fix = F]
  BY DEF RebuildRead, Out, Rebuilt
<1>6. /\ DOMAIN F \subseteq Chunk /\ \A c \in DOMAIN F : F[c] \in Bytes(c) \ {Nil}
  <2>1. Missing(s) \subseteq Chunk
    BY <1>2, RefsIs DEF Missing, Typed
  <2>2. \A c \in Missing(s) : IsData(c) => Out(s)[Index(c)] \in Element
    BY <1>2, OutTyped
  <2>3. Out(s) \in Vector
    BY <1>2, OutTyped
  <2>4. DOMAIN F = DOMAIN wk.fix \cup Missing(s)
        /\ \A c \in DOMAIN F : F[c] = IF c \in DOMAIN wk.fix THEN wk.fix[c]
                                      ELSE IF IsData(c) THEN Out(s)[Index(c)] ELSE Out(s)
    BY DEF Rebuilt
  <2> HIDE DEF F
  <2>5. ASSUME NEW c \in DOMAIN F PROVE F[c] \in Bytes(c) \ {Nil}
    <3>1. CASE c \in DOMAIN wk.fix
      BY <1>2, <2>4, <3>1
    <3>2. CASE c \notin DOMAIN wk.fix /\ IsData(c)
      BY <2>2, <2>4, <3>2, BytesAre
    <3>3. CASE c \notin DOMAIN wk.fix /\ ~IsData(c)
      BY <2>3, <2>4, <3>3, BytesAre
    <3> QED
      BY <3>1, <3>2, <3>3
  <2> QED
    BY <1>2, <2>1, <2>4, <2>5
<1>7. T \subseteq Stripe
  BY <1>2
<1> HIDE DEF T, F
<1>8. CASE /\ \/ Missing(s) = {} \/ Cardinality(Missing(s)) > wk.meta.ps
              \/ Cardinality(Refs(s) \ Missing(s)) < wk.meta.ds
           /\ wk' = [wk EXCEPT !.todo = T]
  <2>1. WorkerRec(wk')
        /\ wk'.pc = wk.pc /\ wk'.ents = wk.ents /\ wk'.meta = wk.meta
        /\ wk'.todo = T /\ wk'.fix = wk.fix /\ wk'.good = wk.good
    BY ONLY <1>2, <1>8, Set_todo
  <2>2. WorkerTyped'
    BY ONLY <1>2, <1>4, <1>7, <2>1, WorkerMakes
  <2> QED
    BY <1>1, <1>2, <1>3, <1>8, <2>1, <2>2, WorkerOnly DEF T
<1>9. CASE /\ Missing(s) # {} /\ ~(Cardinality(Missing(s)) > wk.meta.ps)
           /\ ~(Cardinality(Refs(s) \ Missing(s)) < wk.meta.ds)
           /\ wk' = [wk EXCEPT !.fix = F]
  <2>1. WorkerRec(wk')
        /\ wk'.pc = wk.pc /\ wk'.ents = wk.ents /\ wk'.meta = wk.meta
        /\ wk'.todo = wk.todo /\ wk'.fix = F /\ wk'.good = wk.good
    BY ONLY <1>2, <1>9, Set_fix
  <2>2. WorkerTyped'
    BY ONLY <1>2, <1>4, <1>6, <2>1, WorkerMakes
  <2>3. IsFiniteSet(Refs(s)) /\ Refs(s) \subseteq Chunk
    BY <1>2, RefsIs, ChunkFinite DEF Typed
  <2>4. Cardinality(Missing(s)) \in Nat /\ Cardinality(Refs(s) \ Missing(s)) \in Nat
    BY <2>3, ChunkFinite DEF Missing
  <2>5. wk.meta.ds \in Nat /\ wk.meta.ps \in Nat
    BY <1>2, Shapes DEF Loaded
  <2>6. Cardinality(Missing(s)) <= wk.meta.ps /\ Cardinality(Refs(s) \ Missing(s)) >= wk.meta.ds
    BY <1>9, <2>4, <2>5
  <2> QED
    BY <1>1, <1>2, <1>3, <1>9, <2>1, <2>2, <2>6, WorkerOnly DEF F
<1> QED
  BY <1>5, <1>8, <1>9

(* Files that are written back.                                            *)
LEMMA StoredTyped ==
    ASSUME Typed, NEW P \in SUBSET DOMAIN wk.fix, file' = Stored(P), UNCHANGED <<row, want>>
    PROVE  /\ ChunksTyped'
           /\ \A c \in Chunk : file'[c] = IF c \in P /\ Current(c) THEN wk.fix[c] ELSE file[c]
<1>1. /\ file \in [Chunk -> Content] /\ \A c \in Chunk : file[c] \in Bytes(c)
      /\ \A c \in DOMAIN wk.fix : wk.fix[c] \in Bytes(c)
  BY WorkerParts DEF Typed, ChunksTyped
<1>2. file' = [c \in Chunk |-> IF c \in P /\ Current(c) THEN wk.fix[c] ELSE file[c]]
  BY DEF Stored
<1>3. \A c \in Chunk : file'[c] = IF c \in P /\ Current(c) THEN wk.fix[c] ELSE file[c]
  BY <1>2
<1>4. \A c \in Chunk : file'[c] \in Bytes(c)
  BY <1>1, <1>3
<1>5. file' \in [Chunk -> Content]
  BY <1>2, <1>3, <1>4, BytesAre
<1> QED
  BY <1>3, <1>4, <1>5 DEF Typed, ChunksTyped, RowsTyped

LEMMA FixedIs ==
    ASSUME NEW s
    PROVE  Fixed(s) \subseteq DOMAIN wk.fix /\ \A c \in Fixed(s) : StripeOf(c) = s
  BY DEF Fixed

LEMMA RebuildWriteTyped ==
    ASSUME Typed, NEW s \in Stripe, RebuildWrite(s)
    PROVE  /\ Typed' /\ wk.pc = "work" /\ wk'.pc = "work" /\ s \in wk.todo /\ Fixed(s) # {}
           /\ wk'.ents = wk.ents /\ wk'.meta = wk.meta /\ wk'.good = wk.good
           /\ wk'.todo = wk.todo \ {s} /\ wk'.fix = wk.fix
           /\ \A c \in Chunk : file'[c] = IF c \in Fixed(s) /\ Current(c) THEN wk.fix[c] ELSE file[c]
<1>1. UNCHANGED <<pool, disk, row, want, wr, adding, writes, losses, pend, run, rpend, rrun, task>>
  BY DEF RebuildWrite, counts, tables
<1>2. /\ WorkerRec(wk) /\ DOMAIN wk.fix \subseteq Chunk /\ wk.ents \subseteq Entry /\ wk.good \subseteq Disk
      /\ wk.todo \subseteq Stripe /\ wk.pc = "work" /\ s \in wk.todo /\ Fixed(s) # {}
      /\ wk.meta \in Loaded /\ RowsTyped(wk.meta.row)
      /\ \A c \in DOMAIN wk.fix : wk.fix[c] \in Bytes(c) \ {Nil}
  BY WorkerParts DEF Typed, RebuildWrite
<1>3. /\ ChunksTyped'
      /\ \A c \in Chunk : file'[c] = IF c \in Fixed(s) /\ Current(c) THEN wk.fix[c] ELSE file[c]
  BY <1>1, StoredTyped, FixedIs DEF RebuildWrite
<1>4. "work" \in WorkerPc
  BY DEF WorkerPc
<1> DEFINE T == wk.todo \ {s}
<1>5. wk' = [wk EXCEPT !.todo = T] /\ T \subseteq Stripe
  BY <1>2 DEF RebuildWrite
<1> HIDE DEF T
<1>6. WorkerRec(wk')
      /\ wk'.pc = wk.pc /\ wk'.ents = wk.ents /\ wk'.meta = wk.meta
      /\ wk'.todo = T /\ wk'.fix = wk.fix /\ wk'.good = wk.good
  BY ONLY <1>2, <1>5, Set_todo
<1>7. WorkerTyped'
  BY ONLY <1>2, <1>4, <1>5, <1>6, WorkerMakes
<1>8. AdminTyped' /\ QueuesTyped' /\ WritersTyped'
  BY <1>1, AdminFrame, QueuesFrame, WritersFrame DEF Typed
<1> QED
  BY <1>2, <1>3, <1>6, <1>7, <1>8 DEF Typed, T

(* The batch put away, but for its rows in the queue.                      *)
LEMMA ToDrop ==
    ASSUME WorkerTyped, wk' = [NoBatch EXCEPT !.pc = "drop", !.ents = wk.ents]
    PROVE  /\ WorkerTyped' /\ wk'.pc = "drop" /\ wk'.ents = wk.ents /\ wk'.todo = {} /\ DOMAIN wk'.fix = {}
           /\ wk'.good = {}
<1> DEFINE E == wk.ents
<1>1. wk' = PcEnts(NoBatch, "drop", E)
  BY DEF PcEnts
<1>2. E \subseteq Entry
  BY WorkerParts
<1>3. "drop" \in WorkerPc \ {"work", "compute", "commit"}
  BY DEF WorkerPc
<1> HIDE DEF E
<1>4. WorkerRec(NoBatch)
  BY NoBatchRec
<1>5. WorkerRec(wk')
      /\ wk'.pc = "drop" /\ wk'.ents = E /\ wk'.meta = NoBatch.meta
      /\ wk'.todo = NoBatch.todo /\ wk'.fix = NoBatch.fix /\ wk'.good = NoBatch.good
  BY ONLY <1>1, <1>4, SetPcEnts
<1>6. wk'.todo = {} /\ DOMAIN wk'.fix = {} /\ wk'.good = {}
  BY <1>5, NoBatchRec
<1>7. WorkerTyped'
  BY ONLY <1>2, <1>3, <1>5, <1>6, WorkerMakes
<1> QED
  BY <1>5, <1>6, <1>7 DEF E

LEMMA MarkedTyped ==
    ASSUME Typed, row' = Marked, UNCHANGED <<file, want>>
    PROVE  /\ ChunksTyped'
           /\ \A c \in Chunk : c \notin DOMAIN wk.fix => row'[c] = row[c]
           /\ \A c \in DOMAIN wk.fix : /\ c \in Chunk /\ row'[c].st = "written" /\ row'[c].hash = wk.fix[c]
                                       /\ row'[c].gen = row[c].gen
<1>1. /\ RowsTyped(row) /\ DOMAIN wk.fix \subseteq Chunk
      /\ \A c \in DOMAIN wk.fix : wk.fix[c] \in Bytes(c) \ {Nil}
  BY WorkerParts DEF Typed, ChunksTyped
<1> QED
  BY <1>1, MarkedIs DEF Typed, ChunksTyped, RowsTyped

LEMMA SaveTyped ==
    ASSUME Typed, Save
    PROVE  /\ Typed' /\ wk.pc = "work" /\ wk.todo = {} /\ wk'.pc = "drop" /\ wk'.ents = wk.ents
           /\ wk'.todo = {} /\ DOMAIN wk'.fix = {}
           /\ \A c \in Chunk : c \notin DOMAIN wk.fix => row'[c] = row[c]
           /\ \A c \in DOMAIN wk.fix : /\ c \in Chunk /\ row'[c].st = "written" /\ row'[c].hash = wk.fix[c]
                                       /\ row'[c].gen = row[c].gen
<1>1. UNCHANGED <<pool, disk, file, want, wr, adding, writes, losses, pend, run, rpend, rrun, task>>
  BY DEF Save, counts
<1>2. /\ WorkerTyped' /\ wk'.pc = "drop" /\ wk'.ents = wk.ents /\ wk'.todo = {} /\ DOMAIN wk'.fix = {}
  BY ToDrop DEF Save, Typed
<1>3. /\ ChunksTyped'
      /\ \A c \in Chunk : c \notin DOMAIN wk.fix => row'[c] = row[c]
      /\ \A c \in DOMAIN wk.fix : /\ c \in Chunk /\ row'[c].st = "written" /\ row'[c].hash = wk.fix[c]
                                  /\ row'[c].gen = row[c].gen
  BY <1>1, MarkedTyped DEF Save
<1>4. AdminTyped' /\ QueuesTyped' /\ WritersTyped'
  BY <1>1, AdminFrame, QueuesFrame, WritersFrame DEF Typed
<1> QED
  BY <1>2, <1>3, <1>4 DEF Typed, Save

LEMMA DropEntriesTyped ==
    ASSUME Typed, DropEntries
    PROVE  Typed' /\ wk'.pc = "finish" /\ DOMAIN wk'.fix = {}
<1>1. UNCHANGED <<pool, disk, row, file, want, wr, adding, writes, losses, pend, run, rpend, task>>
      /\ rrun' = {} /\ At("finish") /\ wk.pc = "drop"
  BY DEF DropEntries, counts
<1>2. "finish" \in WorkerPc \ {"work", "compute"}
  BY DEF WorkerPc
<1>3. WorkerTyped' /\ wk'.pc = "finish" /\ wk'.fix = wk.fix /\ DOMAIN wk.fix = {}
  BY <1>1, <1>2, StepAt, AtIs, WorkerParts DEF Typed
<1>4. QueuesTyped'
  BY <1>1 DEF Typed, QueuesTyped
<1> QED
  BY <1>1, <1>3, <1>4, WorkerOnly

(* A step to the next statement that changes nothing else.                 *)
LEMMA AtTyped ==
    ASSUME Typed, NEW p \in WorkerPc \ {"work", "compute"}, wk.pc \notin {"work", "commit"}, At(p),
           UNCHANGED <<pool, disk, row, file, want, wr, adding, writes, losses, pend, run, rpend, rrun, task>>
    PROVE  /\ Typed' /\ wk'.pc = p /\ wk'.ents = wk.ents /\ wk'.meta = wk.meta /\ wk'.todo = wk.todo
           /\ wk'.fix = wk.fix /\ wk'.good = wk.good /\ DOMAIN wk.fix = {}
<1>1. WorkerTyped' /\ DOMAIN wk.fix = {}
  BY StepAt, WorkerParts DEF Typed
<1>2. wk'.pc = p /\ wk'.ents = wk.ents /\ wk'.meta = wk.meta /\ wk'.todo = wk.todo
      /\ wk'.fix = wk.fix /\ wk'.good = wk.good
  BY AtIs DEF Typed
<1>3. QueuesTyped'
  BY QueuesFrame DEF Typed
<1> QED
  BY <1>1, <1>2, <1>3, WorkerOnly

LEMMA CountsTyped ==
    ASSUME Typed, CountLeft \/ CountBad
    PROVE  /\ Typed' /\ UNCHANGED <<tables, file, want, wr, adding, counts>> /\ DOMAIN wk'.fix = {}
           /\ \/ wk.pc = "finish" /\ wk'.pc \in {"verify", "parity"}
              \/ wk.pc = "pool" /\ wk'.pc = "job"
              \/ wk.pc = "pool" /\ wk'.pc = "pool up" /\ InRepair = {}
<1>1. UNCHANGED <<tables, file, want, wr, adding, counts>>
  BY DEF CountLeft, CountBad
<1>2. UNCHANGED <<pool, disk, row, file, want, wr, adding, writes, losses, pend, run, rpend, rrun, task>>
  BY <1>1 DEF tables, counts
<1>3. PICK p \in {"verify", "parity", "pool up", "job"} :
        /\ At(p) /\ wk.pc \in {"finish", "pool"}
        /\ \/ wk.pc = "finish" /\ p \in {"verify", "parity"}
           \/ wk.pc = "pool" /\ p = "job"
           \/ wk.pc = "pool" /\ p = "pool up" /\ InRepair = {}
  BY DEF CountLeft, CountBad
<1>4. p \in WorkerPc \ {"work", "compute"}
  BY DEF WorkerPc
<1>5. wk.pc \notin {"work", "commit"}
  BY <1>3
<1>6. Typed' /\ wk'.pc = p /\ wk'.fix = wk.fix /\ DOMAIN wk.fix = {}
  BY ONLY <1>2, <1>3, <1>4, <1>5, AtTyped, Typed
<1> QED
  BY <1>1, <1>3, <1>6

LEMMA VerifyDisksTyped ==
    ASSUME Typed, VerifyDisks
    PROVE  /\ Typed' /\ wk.pc = "verify" /\ wk'.pc \in {"job", "online"} /\ DOMAIN wk'.fix = {}
           /\ wk'.good = {d \in InRepair : DiskDataComplete(d)}
<1> DEFINE G == {d \in InRepair : DiskDataComplete(d)}
           p == IF InRepair = {} THEN "job" ELSE "online"
<1>1. UNCHANGED <<pool, disk, row, file, want, wr, adding, writes, losses, pend, run, rpend, rrun, task>>
  BY DEF VerifyDisks, tables, counts
<1>2. wk' = PcGood(wk, p, G) /\ wk.pc = "verify"
  BY DEF VerifyDisks, PcGood
<1>3. /\ WorkerRec(wk) /\ DOMAIN wk.fix = {} /\ wk.ents \subseteq Entry /\ wk.todo \subseteq Stripe
  BY <1>2, WorkerParts DEF Typed
<1>4. G \subseteq Disk
  BY DEF InRepair
<1>5. p \in WorkerPc \ {"work", "compute", "commit"} /\ p \in {"job", "online"}
  BY DEF WorkerPc
<1> HIDE DEF p, G
<1>6. WorkerRec(wk')
      /\ wk'.pc = p /\ wk'.ents = wk.ents /\ wk'.meta = wk.meta
      /\ wk'.todo = wk.todo /\ wk'.fix = wk.fix /\ wk'.good = G
  <2>1. WorkerRec(wk) /\ wk' = PcGood(wk, p, G)
    BY ONLY <1>2, <1>3
  <2> QED
    BY ONLY <2>1, SetPcGood
<1>7. WorkerTyped'
  BY ONLY <1>3, <1>4, <1>5, <1>6, WorkerMakes
<1>8. QueuesTyped'
  BY <1>1, QueuesFrame DEF Typed
<1>9. Typed'
  BY <1>1, <1>7, <1>8, WorkerOnly
<1> QED
  BY <1>2, <1>3, <1>5, <1>6, <1>9 DEF G

LEMMA DisksOnlineTyped ==
    ASSUME Typed, DisksOnline
    PROVE  /\ Typed' /\ wk.pc = "online" /\ wk'.pc = "pool" /\ DOMAIN wk'.fix = {}
           /\ UNCHANGED <<pool, row, pend, run, rpend, rrun, task, file, want, wr, adding, counts>>
           /\ \A d \in Disk : /\ disk'[d].swaps = disk[d].swaps
                              /\ disk'[d].st = disk[d].st \/ (d \in wk.good /\ disk'[d].st = "online")
<1>1. UNCHANGED <<pool, row, file, want, wr, adding, writes, losses, pend, run, rpend, rrun, task>>
  BY DEF DisksOnline, counts
<1>2. wk.pc = "online" /\ At("pool")
  BY DEF DisksOnline
<1>3. "pool" \in WorkerPc \ {"work", "compute"}
  BY DEF WorkerPc
<1>4. WorkerTyped' /\ wk'.pc = "pool" /\ wk'.fix = wk.fix /\ DOMAIN wk.fix = {}
  BY <1>2, <1>3, StepAt, AtIs, WorkerParts DEF Typed
<1>5. disk \in [Disk -> DiskRow]
  BY DEF Typed, AdminTyped
<1>6. disk' = [d \in Disk |-> IF d \in wk.good \cap InRepair THEN [disk[d] EXCEPT !.st = "online"] ELSE disk[d]]
  BY DEF DisksOnline
<1>7. ASSUME NEW d \in Disk
      PROVE  /\ disk'[d] \in DiskRow /\ disk'[d].swaps = disk[d].swaps
             /\ \/ disk'[d] = disk[d]
                \/ d \in wk.good /\ disk[d].st = "repair" /\ disk'[d].st = "online"
  <2>1. disk[d] \in DiskRow
    BY <1>5
  <2>2. CASE d \in wk.good \cap InRepair
    <3>1. disk'[d] = [disk[d] EXCEPT !.st = "online"] /\ disk[d].st = "repair" /\ d \in wk.good
      BY <1>6, <2>2 DEF InRepair
    <3> QED
      BY <2>1, <3>1 DEF DiskRow
  <2>3. CASE d \notin wk.good \cap InRepair
    BY <1>6, <2>1, <2>3
  <2> QED
    BY <2>2, <2>3
<1>8. disk' \in [Disk -> DiskRow]
  BY <1>6, <1>7
<1>9. AdminTyped'
  BY <1>1, <1>7, <1>8 DEF Typed, AdminTyped
<1>10. QueuesTyped' /\ ChunksTyped' /\ WritersTyped'
  BY <1>1, QueuesFrame, ChunksFrame, WritersFrame DEF Typed
<1>11. Typed'
  BY <1>4, <1>9, <1>10 DEF Typed
<1> QED
  BY <1>2, <1>4, <1>7, <1>11 DEF DisksOnline

LEMMA PoolOnlineTyped ==
    ASSUME Typed, PoolOnline
    PROVE  /\ Typed' /\ wk.pc = "pool up" /\ wk'.pc = "job" /\ DOMAIN wk'.fix = {}
           /\ pool'.ds = pool.ds /\ pool'.ps = pool.ps
           /\ UNCHANGED <<disk, row, pend, run, rpend, rrun, task, file, want, wr, adding, counts>>
<1>1. UNCHANGED <<disk, row, file, want, wr, adding, writes, losses, pend, run, rpend, rrun, task>>
  BY DEF PoolOnline, counts
<1>2. wk.pc = "pool up" /\ At("job")
  BY DEF PoolOnline
<1>3. "job" \in WorkerPc \ {"work", "compute"}
  BY DEF WorkerPc
<1>4. WorkerTyped' /\ wk'.pc = "job" /\ wk'.fix = wk.fix /\ DOMAIN wk.fix = {}
  BY <1>2, <1>3, StepAt, AtIs, WorkerParts DEF Typed
<1>5. pool \in PoolRow /\ pool' = [pool EXCEPT !.status = "online"]
  BY DEF Typed, AdminTyped, PoolOnline
<1>6. pool' \in PoolRow /\ pool'.ds = pool.ds /\ pool'.ps = pool.ps
  BY <1>5 DEF PoolRow
<1>7. AdminTyped'
  BY <1>1, <1>6 DEF Typed, AdminTyped
<1>8. QueuesTyped' /\ ChunksTyped' /\ WritersTyped'
  BY <1>1, QueuesFrame, ChunksFrame, WritersFrame DEF Typed
<1>9. Typed'
  BY <1>4, <1>7, <1>8 DEF Typed
<1> QED
  BY <1>2, <1>4, <1>6, <1>9 DEF PoolOnline

LEMMA EndJobTyped ==
    ASSUME Typed, EndJob
    PROVE  /\ Typed' /\ wk.pc = "job" /\ wk'.pc = "parity" /\ DOMAIN wk'.fix = {}
           /\ UNCHANGED <<pool, disk, row, pend, run, rpend, rrun, file, want, wr, adding, counts>>
<1>1. UNCHANGED <<pool, disk, row, file, want, wr, adding, writes, losses, pend, run, rpend, rrun>>
  BY DEF EndJob, counts
<1>2. wk.pc = "job" /\ At("parity")
  BY DEF EndJob
<1>3. "parity" \in WorkerPc \ {"work", "compute"}
  BY DEF WorkerPc
<1>4. WorkerTyped' /\ wk'.pc = "parity" /\ wk'.fix = wk.fix /\ DOMAIN wk.fix = {}
  BY <1>2, <1>3, StepAt, AtIs, WorkerParts DEF Typed
<1>5. task' = [t \in Task |-> IF t \in Jobs THEN IF InRepair = {} THEN "success" ELSE "fail" ELSE task[t]]
  BY DEF EndJob
<1>6. \A t \in Task : task'[t] \in {"success", "fail"} \/ task'[t] = task[t]
  BY <1>5
<1>7. QueuesTyped'
  BY <1>1, <1>5, <1>6 DEF Typed, QueuesTyped
<1>8. Typed'
  BY <1>1, <1>4, <1>7, WorkerOnly
<1> QED
  BY <1>2, <1>4, <1>8 DEF EndJob

LEMMA ClaimParityTyped ==
    ASSUME Typed, ClaimParity
    PROVE  /\ Typed' /\ DOMAIN wk'.fix = {} /\ wk.pc \in {"parity", "idle"}
           /\ \/ pend \cup run = {} /\ wk'.pc = "idle" /\ UNCHANGED <<pend, run>>
              \/ /\ wk'.pc = "rows" /\ wk'.todo = pend \cup run /\ run' = pend \cup run /\ pend' = {}
<1>1. UNCHANGED <<pool, disk, row, file, want, wr, adding, writes, losses, rpend, rrun, task>>
      /\ wk.pc \in {"parity", "idle"}
  BY DEF ClaimParity, counts
<1> DEFINE R == pend \cup run
<1>2. R \subseteq Stripe
  BY DEF Typed, QueuesTyped
<1>3. \/ R = {} /\ Leave /\ UNCHANGED <<pend, run>>
      \/ R # {} /\ run' = R /\ pend' = {} /\ wk' = PcTodo(NoBatch, "rows", R)
  BY DEF ClaimParity, PcTodo
<1>4. "rows" \in WorkerPc \ {"work", "compute", "commit"}
  BY DEF WorkerPc
<1>5. WorkerRec(NoBatch) /\ NoBatch.ents = {} /\ NoBatch.good = {} /\ DOMAIN NoBatch.fix = {}
  BY NoBatchRec
<1>6. CASE R = {} /\ Leave /\ UNCHANGED <<pend, run>>
  <2>1. WorkerTyped' /\ wk'.pc = "idle" /\ DOMAIN wk'.fix = {}
    BY <1>6, StepLeave, NoBatchIs DEF Leave
  <2>2. QueuesTyped'
    BY <1>1, <1>6, QueuesFrame DEF Typed
  <2> QED
    BY <1>1, <1>6, <2>1, <2>2, WorkerOnly
<1> HIDE DEF R
<1>7. CASE R # {} /\ run' = R /\ pend' = {} /\ wk' = PcTodo(NoBatch, "rows", R)
  <2>1. WorkerRec(NoBatch) /\ wk' = PcTodo(NoBatch, "rows", R)
    BY ONLY <1>5, <1>7
  <2>2. WorkerRec(wk')
      /\ wk'.pc = "rows" /\ wk'.ents = NoBatch.ents /\ wk'.meta = NoBatch.meta
      /\ wk'.todo = R /\ wk'.fix = NoBatch.fix /\ wk'.good = NoBatch.good
    BY ONLY <2>1, SetPcTodo
  <2>3. wk'.ents \subseteq Entry /\ wk'.good \subseteq Disk /\ DOMAIN wk'.fix = {}
    BY <1>5, <2>2
  <2>4. WorkerTyped'
    BY ONLY <1>2, <1>4, <2>2, <2>3, WorkerMakes
  <2>5. QueuesTyped'
    BY <1>1, <1>2, <1>7 DEF Typed, QueuesTyped
  <2> QED
    BY <1>1, <1>7, <2>2, <2>3, <2>4, <2>5, WorkerOnly DEF R
<1> QED
  BY <1>3, <1>6, <1>7

LEMMA LoadRowsTyped ==
    ASSUME Typed, LoadRows
    PROVE  /\ Typed' /\ wk.pc = "rows" /\ wk'.pc = "compute" /\ wk'.meta = Meta /\ wk'.todo = wk.todo
           /\ DOMAIN wk'.fix = {}
<1> DEFINE M == Meta
<1>1. wk' = PcMeta(wk, "compute", M) /\ wk.pc = "rows"
  BY DEF LoadRows, PcMeta
<1>2. /\ WorkerRec(wk) /\ DOMAIN wk.fix = {} /\ wk.ents \subseteq Entry /\ wk.good \subseteq Disk
      /\ wk.todo \subseteq Stripe
  BY <1>1, WorkerParts DEF Typed
<1>3. M \in Loaded /\ RowsTyped(M.row)
  BY MetaIs DEF Typed
<1>4. UNCHANGED <<pool, disk, row, file, want, wr, adding, writes, losses, pend, run, rpend, rrun, task>>
  BY DEF LoadRows, counts, tables
<1>5. "compute" \in WorkerPc
  BY DEF WorkerPc
<1> HIDE DEF M
<1>6. WorkerRec(wk')
      /\ wk'.pc = "compute" /\ wk'.ents = wk.ents /\ wk'.meta = M
      /\ wk'.todo = wk.todo /\ wk'.fix = wk.fix /\ wk'.good = wk.good
  <2>1. WorkerRec(wk) /\ wk' = PcMeta(wk, "compute", M)
    BY ONLY <1>1, <1>2
  <2> QED
    BY ONLY <2>1, SetPcMeta
<1>7. WorkerTyped'
  BY ONLY <1>2, <1>3, <1>5, <1>6, WorkerMakes
<1>8. QueuesTyped'
  BY <1>4, QueuesFrame DEF Typed
<1> QED
  BY <1>1, <1>2, <1>4, <1>6, <1>7, <1>8, WorkerOnly DEF M

(* What the parity of a stripe is computed from.                           *)
LEMMA EncodedIs ==
    ASSUME Typed, wk.pc = "compute", NEW s, Computable(s)
    PROVE  /\ Encoded(s) \in Vector /\ DOMAIN Encoded(s) = 0..(wk.meta.ds - 1)
           /\ \A i \in 0..(wk.meta.ds - 1) :
                \/ Encoded(s)[i] = Zeros /\ \A c \in JobData(s) : Index(c) # i
                \/ \E c \in JobData(s) : Index(c) = i /\ Encoded(s)[i] = Found(c)
<1> DEFINE C(i) == {c \in JobData(s) : Index(c) = i}
           e(i) == IF C(i) = {} THEN Zeros ELSE Found(CHOOSE c \in C(i) : TRUE)
<1>1. Encoded(s) = [i \in 0..(wk.meta.ds - 1) |-> e(i)]
  BY DEF Encoded
<1>2. ASSUME NEW i
      PROVE  \/ e(i) = Zeros /\ \A c \in JobData(s) : Index(c) # i
             \/ \E c \in JobData(s) : Index(c) = i /\ e(i) = Found(c)
  <2>1. CASE C(i) = {}
    BY <2>1
  <2>2. CASE C(i) # {}
    <3>1. (CHOOSE c \in C(i) : TRUE) \in C(i)
      BY <2>2
    <3> QED
      BY <2>2, <3>1
  <2> QED
    BY <2>1, <2>2
<1> HIDE DEF e
<1>3. ASSUME NEW i PROVE e(i) \in Element
  <2>1. \A c \in JobData(s) : Found(c) \in Element
    <3> SUFFICES ASSUME NEW c \in JobData(s) PROVE Found(c) \in Element
      OBVIOUS
    <3>1. c \in Chunk /\ IsData(c) /\ Found(c) # Nil
      BY DEF JobData, Computable
    <3> QED
      BY <3>1, FoundIs, BytesAre DEF Typed
  <2> QED
    BY <1>2, <2>1, SliceIs
<1>4. Encoded(s) \in [0..(wk.meta.ds - 1) -> Element]
  BY <1>1, <1>3
<1>5. \A i \in 0..(wk.meta.ds - 1) : Encoded(s)[i] = e(i)
  BY <1>1
<1>6. wk.meta.ds \in DS..(DS + MaxAdd)
  BY RefsIs DEF Typed
<1>7. Encoded(s) \in Vector
  BY ONLY <1>4, <1>6, VectorIs
<1>8. DOMAIN Encoded(s) = 0..(wk.meta.ds - 1)
  BY <1>4
<1> QED
  BY <1>2, <1>5, <1>7, <1>8

Complete(s) == Computable(s) /\ Cardinality(ShapeRows(s)) = wk.meta.ps

LEMMA ComputeParityTyped ==
    ASSUME Typed, ComputeParity
    PROVE  /\ Typed' /\ wk.pc = "compute" /\ wk'.pc = "commit"
           /\ DOMAIN wk'.fix = UNION {ShapeRows(s) : s \in {s \in wk.todo : Complete(s)}}
           /\ \A c \in DOMAIN wk'.fix : /\ c \in Chunk /\ ~IsData(c) /\ StripeOf(c) \in wk.todo
                                        /\ Complete(StripeOf(c)) /\ c \in ShapeRows(StripeOf(c))
                                        /\ wk'.fix[c] = Encoded(StripeOf(c))
           /\ \A c \in Chunk :
                \/ file'[c] = file[c] /\ (StripeOf(c) \in wk.todo /\ Computable(StripeOf(c))
                                          => c \notin ShapeRows(StripeOf(c)) \/ ~Current(c))
                \/ /\ ~IsData(c) /\ StripeOf(c) \in wk.todo /\ Computable(StripeOf(c)) /\ Current(c)
                   /\ c \in ShapeRows(StripeOf(c)) /\ file'[c] = Encoded(StripeOf(c))
<1> DEFINE shaped(s) == IF Computable(s) THEN ShapeRows(s) ELSE {}
           done == {s \in wk.todo : Complete(s)}
           F == [c \in UNION {ShapeRows(s) : s \in done} |-> Encoded(StripeOf(c))]
<1>1. UNCHANGED <<pool, disk, row, want, wr, adding, writes, losses, pend, run, rpend, rrun, task>>
      /\ wk.pc = "compute"
  BY DEF ComputeParity, counts, tables
<1>2. \A s, c : c \in ShapeRows(s) => c \in Chunk /\ ~IsData(c) /\ StripeOf(c) = s
  BY DEF ShapeRows, JobParity
<1>3. file' = [c \in Chunk |-> IF StripeOf(c) \in wk.todo /\ c \in shaped(StripeOf(c)) /\ Current(c)
                               THEN Encoded(StripeOf(c)) ELSE file[c]]
  BY DEF ComputeParity
<1>4. wk' = PcFix(NoBatch, "commit", F)
  BY DEF ComputeParity, PcFix, Complete
<1>5. ASSUME NEW c \in Chunk
      PROVE  \/ file'[c] = file[c] /\ (StripeOf(c) \in wk.todo /\ Computable(StripeOf(c))
                                          => c \notin ShapeRows(StripeOf(c)) \/ ~Current(c))
             \/ /\ ~IsData(c) /\ StripeOf(c) \in wk.todo /\ Computable(StripeOf(c)) /\ Current(c)
                /\ c \in ShapeRows(StripeOf(c)) /\ file'[c] = Encoded(StripeOf(c))
  BY <1>2, <1>3
<1>6. \A c \in DOMAIN F : /\ c \in Chunk /\ ~IsData(c) /\ StripeOf(c) \in wk.todo
                          /\ Complete(StripeOf(c)) /\ c \in ShapeRows(StripeOf(c))
                          /\ F[c] = Encoded(StripeOf(c))
  BY <1>2
<1>7. \A c \in DOMAIN F : F[c] \in Bytes(c) \ {Nil}
  <2> SUFFICES ASSUME NEW c \in DOMAIN F PROVE F[c] \in Bytes(c) \ {Nil}
    OBVIOUS
  <2>1. Encoded(StripeOf(c)) \in Vector /\ ~IsData(c) /\ F[c] = Encoded(StripeOf(c))
    BY <1>1, <1>6, EncodedIs DEF Complete
  <2> HIDE DEF F
  <2> QED
    BY <2>1, BytesAre
<1>8. DOMAIN F = UNION {ShapeRows(s) : s \in {s \in wk.todo : Complete(s)}}
  OBVIOUS
<1> HIDE DEF F
<1>9. \A c \in Chunk : file'[c] \in Bytes(c)
  <2> SUFFICES ASSUME NEW c \in Chunk PROVE file'[c] \in Bytes(c)
    OBVIOUS
  <2>1. CASE file'[c] = file[c]
    BY <2>1 DEF Typed, ChunksTyped
  <2>2. CASE ~IsData(c) /\ Computable(StripeOf(c)) /\ file'[c] = Encoded(StripeOf(c))
    BY <1>1, <2>2, EncodedIs, BytesAre
  <2> QED
    BY <1>5, <2>1, <2>2
<1>10. file' \in [Chunk -> Content]
  BY <1>3, <1>9, BytesAre
<1>11. ChunksTyped'
  BY <1>1, <1>9, <1>10 DEF Typed, ChunksTyped, RowsTyped
<1>12. WorkerRec(NoBatch) /\ NoBatch.ents = {} /\ NoBatch.todo = {} /\ NoBatch.good = {}
  BY NoBatchRec
<1>13. WorkerRec(wk')
      /\ wk'.pc = "commit" /\ wk'.ents = NoBatch.ents /\ wk'.meta = NoBatch.meta
      /\ wk'.todo = NoBatch.todo /\ wk'.fix = F /\ wk'.good = NoBatch.good
  <2>1. WorkerRec(NoBatch) /\ wk' = PcFix(NoBatch, "commit", F)
    BY ONLY <1>4, <1>12
  <2> QED
    BY ONLY <2>1, SetPcFix
<1>14. "commit" \in WorkerPc \ {"work", "compute"}
  BY DEF WorkerPc
<1>15. wk'.ents \subseteq Entry /\ wk'.todo \subseteq Stripe /\ wk'.good \subseteq Disk
       /\ DOMAIN wk'.fix \subseteq Chunk
  BY <1>6, <1>12, <1>13
<1>16. WorkerTyped'
  BY ONLY <1>7, <1>13, <1>14, <1>15, WorkerMakes
<1>17. AdminTyped' /\ QueuesTyped' /\ WritersTyped'
  BY <1>1, AdminFrame, QueuesFrame, WritersFrame DEF Typed
<1>18. Typed'
  BY <1>11, <1>16, <1>17 DEF Typed
<1>19. wk'.fix = F /\ wk'.pc = "commit"
  BY <1>13
<1> QED
  BY ONLY <1>1, <1>5, <1>6, <1>8, <1>18, <1>19

LEMMA CommitParityTyped ==
    ASSUME Typed, CommitParity
    PROVE  /\ Typed' /\ wk.pc = "commit" /\ wk'.pc = "idle" /\ DOMAIN wk'.fix = {}
           /\ run' = {} /\ rrun' = {}
           /\ \A c \in Chunk : c \notin DOMAIN wk.fix => row'[c] = row[c]
           /\ \A c \in DOMAIN wk.fix : /\ c \in Chunk /\ row'[c].st = "written" /\ row'[c].hash = wk.fix[c]
                                       /\ row'[c].gen = row[c].gen
<1>1. UNCHANGED <<pool, disk, file, want, wr, adding, writes, losses, pend, rpend, task>>
      /\ run' = {} /\ rrun' = {} /\ wk.pc = "commit"
  BY DEF CommitParity, counts
<1>2. WorkerTyped' /\ wk'.pc = "idle" /\ DOMAIN wk'.fix = {}
  BY StepLeave, NoBatchIs DEF CommitParity, Leave
<1>3. /\ ChunksTyped'
      /\ \A c \in Chunk : c \notin DOMAIN wk.fix => row'[c] = row[c]
      /\ \A c \in DOMAIN wk.fix : /\ c \in Chunk /\ row'[c].st = "written" /\ row'[c].hash = wk.fix[c]
                                  /\ row'[c].gen = row[c].gen
  BY <1>1, MarkedTyped DEF CommitParity
<1>4. QueuesTyped'
  BY <1>1 DEF Typed, QueuesTyped
<1>5. AdminTyped' /\ WritersTyped'
  BY <1>1, AdminFrame, WritersFrame DEF Typed
<1> QED
  BY <1>1, <1>2, <1>3, <1>4, <1>5 DEF Typed

LEMMA RebuildFailsTyped ==
    ASSUME Typed, NEW s \in Stripe, RebuildFails(s)
    PROVE  /\ Typed' /\ wk.pc = "work" /\ wk'.pc = "work" /\ s \in wk.todo
           /\ wk'.ents = wk.ents /\ wk'.meta = wk.meta /\ wk'.good = wk.good
           /\ wk'.todo = wk.todo \ {s} /\ DOMAIN wk'.fix = DOMAIN wk.fix \ Fixed(s)
           /\ \A c \in DOMAIN wk'.fix : wk'.fix[c] = wk.fix[c]
           /\ \E P \in SUBSET Fixed(s) : \A c \in Chunk :
                    file'[c] = IF c \in P /\ Current(c) THEN wk.fix[c] ELSE file[c]
<1>1. UNCHANGED <<pool, disk, row, want, wr, adding, writes, losses, pend, run, rpend, rrun, task>>
  BY DEF RebuildFails, tables
<1>2. /\ WorkerRec(wk) /\ DOMAIN wk.fix \subseteq Chunk /\ wk.ents \subseteq Entry /\ wk.good \subseteq Disk
      /\ wk.todo \subseteq Stripe /\ wk.pc = "work" /\ s \in wk.todo
      /\ wk.meta \in Loaded /\ RowsTyped(wk.meta.row)
      /\ \A c \in DOMAIN wk.fix : wk.fix[c] \in Bytes(c) \ {Nil}
  BY WorkerParts DEF Typed, RebuildFails
<1>3. PICK P \in SUBSET Fixed(s) : file' = Stored(P)
  BY DEF RebuildFails
<1>4. /\ ChunksTyped'
      /\ \A c \in Chunk : file'[c] = IF c \in P /\ Current(c) THEN wk.fix[c] ELSE file[c]
  BY <1>1, <1>3, StoredTyped, FixedIs
<1>5. "work" \in WorkerPc
  BY DEF WorkerPc
<1> DEFINE T == wk.todo \ {s}
           F == [c \in DOMAIN wk.fix \ Fixed(s) |-> wk.fix[c]]
<1>6. wk' = TodoFix(wk, T, F) /\ T \subseteq Stripe
  BY <1>2 DEF RebuildFails, TodoFix
<1>7. DOMAIN F = DOMAIN wk.fix \ Fixed(s) /\ \A c \in DOMAIN F : F[c] = wk.fix[c]
  OBVIOUS
<1> HIDE DEF T, F
<1>8. WorkerRec(wk')
      /\ wk'.pc = wk.pc /\ wk'.ents = wk.ents /\ wk'.meta = wk.meta
      /\ wk'.todo = T /\ wk'.fix = F /\ wk'.good = wk.good
  <2>1. WorkerRec(wk) /\ wk' = TodoFix(wk, T, F)
    BY ONLY <1>2, <1>6
  <2> QED
    BY ONLY <2>1, SetTodoFix
<1>9. DOMAIN F \subseteq Chunk /\ \A c \in DOMAIN F : F[c] \in Bytes(c) \ {Nil}
  BY <1>2, <1>7
<1>10. WorkerTyped'
  BY ONLY <1>2, <1>5, <1>6, <1>8, <1>9, WorkerMakes
<1>11. AdminTyped' /\ QueuesTyped' /\ WritersTyped'
  BY <1>1, AdminFrame, QueuesFrame, WritersFrame DEF Typed
<1> QED
  BY <1>2, <1>4, <1>7, <1>8, <1>10, <1>11 DEF Typed, T

LEMMA StatementFailsTyped ==
    ASSUME Typed, StatementFails
    PROVE  /\ Typed' /\ UNCHANGED <<tables, file, want, wr, adding, writes, losses>> /\ DOMAIN wk'.fix = {}
           /\ \/ wk.pc = "load" /\ wk'.pc = "parity"
              \/ wk.pc = "work" /\ wk.todo = {} /\ wk'.pc = "drop"
              \/ wk.pc = "drop" /\ wk'.pc = "finish"
              \/ wk.pc \in {"finish", "job"} /\ wk'.pc = "parity"
              \/ wk.pc \in {"verify", "online", "pool", "pool up"} /\ wk'.pc = "job"
              \/ wk.pc \in {"rows", "commit"} /\ wk'.pc = "idle"
<1>1. UNCHANGED <<tables, file, want, wr, adding, writes, losses>>
  BY DEF StatementFails
<1>2. UNCHANGED <<pool, disk, row, file, want, wr, adding, writes, losses, pend, run, rpend, rrun, task>>
  BY <1>1 DEF tables
<1>3. \/ /\ wk.pc = "work" /\ wk.todo = {} /\ wk' = [NoBatch EXCEPT !.pc = "drop", !.ents = wk.ents]
      \/ wk.pc \in {"rows", "commit"} /\ Leave
      \/ \E p \in {"parity", "finish", "job"} : At(p) /\
            \/ wk.pc = "load" /\ p = "parity"
            \/ wk.pc = "drop" /\ p = "finish"
            \/ wk.pc \in {"finish", "job"} /\ p = "parity"
            \/ wk.pc \in {"verify", "online", "pool", "pool up"} /\ p = "job"
  BY DEF StatementFails
<1>4. QueuesTyped'
  BY <1>2, QueuesFrame DEF Typed
<1>5. CASE wk.pc = "work" /\ wk.todo = {} /\ wk' = [NoBatch EXCEPT !.pc = "drop", !.ents = wk.ents]
  <2>1. WorkerTyped' /\ wk'.pc = "drop" /\ DOMAIN wk'.fix = {}
    BY <1>5, ToDrop DEF Typed
  <2> QED
    BY <1>1, <1>2, <1>4, <1>5, <2>1, WorkerOnly
<1>6. CASE wk.pc \in {"rows", "commit"} /\ Leave
  <2>1. WorkerTyped' /\ wk'.pc = "idle" /\ DOMAIN wk'.fix = {}
    BY <1>6, StepLeave, NoBatchIs DEF Leave
  <2> QED
    BY <1>1, <1>2, <1>4, <1>6, <2>1, WorkerOnly
<1>7. ASSUME NEW p \in {"parity", "finish", "job"}, At(p),
            \/ wk.pc = "load" /\ p = "parity"
            \/ wk.pc = "drop" /\ p = "finish"
            \/ wk.pc \in {"finish", "job"} /\ p = "parity"
            \/ wk.pc \in {"verify", "online", "pool", "pool up"} /\ p = "job"
      PROVE /\ Typed' /\ DOMAIN wk'.fix = {} /\ wk'.pc = p
  <2>1. p \in WorkerPc \ {"work", "compute"}
    BY DEF WorkerPc
  <2>2. wk.pc \notin {"work", "commit"}
    BY <1>7
  <2>3. Typed' /\ wk'.pc = p /\ wk'.fix = wk.fix /\ DOMAIN wk.fix = {}
    BY ONLY <1>2, <1>7, <2>1, <2>2, AtTyped, Typed
  <2> QED
    BY <2>3
<1> QED
  BY <1>1, <1>3, <1>5, <1>6, <1>7

LEMMA CrashTyped ==
    ASSUME Typed, Crash
    PROVE  /\ Typed' /\ wk'.pc = "idle" /\ DOMAIN wk'.fix = {} /\ adding' = Nil
           /\ \A w \in Writers : wr'[w].pc = "idle" /\ wr'[w].slot = Nil
           /\ pend \subseteq pend'
           /\ UNCHANGED <<pool, disk, row, run, rpend, rrun, task, file, want, writes, losses>>
<1>1. UNCHANGED <<pool, disk, row, run, rpend, rrun, task, file, want, writes, losses>>
      /\ adding' = Nil /\ Leave /\ wr' = [w \in Writers |-> Idle]
  BY DEF Crash
<1>2. WorkerTyped' /\ wk'.pc = "idle" /\ DOMAIN wk'.fix = {}
  BY <1>1, StepLeave, NoBatchIs DEF Leave
<1>3. pend \subseteq pend' /\ pend' \subseteq Stripe
  <2>1. PICK W \in SUBSET {w \in Writers : wr[w].pc = "stored"} : pend' = pend \cup {StripeOf(wr[v].slot) : v \in W}
    BY DEF Crash
  <2>2. \A v \in W : StripeOf(wr[v].slot) \in Stripe
    <3> SUFFICES ASSUME NEW v \in W PROVE StripeOf(wr[v].slot) \in Stripe
      OBVIOUS
    <3>1. v \in Writers /\ wr[v].slot # Nil /\ wr[v].slot \in Chunk
      BY WriterIs DEF Typed
    <3> QED
      BY <3>1, ChunkIs
  <2> QED
    BY <2>1, <2>2 DEF Typed, QueuesTyped
<1>4. QueuesTyped'
  BY <1>1, <1>3 DEF Typed, QueuesTyped
<1>5. WritersTyped' /\ \A w \in Writers : wr'[w].pc = "idle" /\ wr'[w].slot = Nil
  <2>1. \A w \in Writers : wr'[w] = Idle
    BY <1>1
  <2>2. wr' \in [Writers -> WriterRow]
    BY <1>1, IdleIs
  <2> QED
    BY <1>1, <2>1, <2>2, IdleIs DEF Typed, WritersTyped
<1>6. AdminTyped'
  BY <1>1, SliceIs DEF Typed, AdminTyped
<1>7. ChunksTyped'
  BY <1>1, ChunksFrame DEF Typed
<1> QED
  BY <1>1, <1>2, <1>3, <1>4, <1>5, <1>6, <1>7 DEF Typed
-----------------------------------------------------------------------------
(* Types, altogether.                                                      *)

LEMMA RequestTyped ==
    ASSUME Typed, Request
    PROVE  Typed'
<1>1. CASE \E w \in Writers : CheckPool(w) \/ StoreSlice(w) \/ FlushSlice(w)
  BY <1>1, CheckPoolTyped, StoreSliceTyped, FlushSliceTyped
<1>2. CASE \E w \in Writers : \E c \in Chunk : Reuse(w, c)
  BY <1>2, ReuseTyped
<1>3. CASE \E w \in Writers : \E s \in Stripe : NewStripe(w, s)
  BY <1>3, NewStripeTyped
<1>4. CASE \E c \in Chunk : Release(c) \/ ReadFails(c)
  BY <1>4, ReleaseTyped, ReadFailsTyped
<1>5. CASE (\E d \in Disk : SwapDisk(d)) \/ OfflinePool
  BY <1>5, SwapDiskTyped, OfflinePoolTyped
<1>6. CASE \E t \in Task : RebuildPool(t)
  BY <1>6, RebuildPoolTyped
<1>7. CASE (\E k \in {"data", "parity"} : AddDisk(k)) \/ AddSlots
  BY <1>7, AddDiskTyped, AddSlotsTyped
<1> QED
  BY <1>1, <1>2, <1>3, <1>4, <1>5, <1>6, <1>7 DEF Request

LEMMA WorkerStepTyped ==
    ASSUME Typed, WorkerStep
    PROVE  Typed'
<1>1. CASE ClaimRebuild \/ LoadMeta \/ Save \/ DropEntries \/ CountLeft
  BY <1>1, ClaimRebuildTyped, LoadMetaTyped, SaveTyped, DropEntriesTyped, CountsTyped
<1>2. CASE \E s \in Stripe : RebuildRead(s) \/ RebuildWrite(s)
  BY <1>2, RebuildReadTyped, RebuildWriteTyped
<1>3. CASE VerifyDisks \/ DisksOnline \/ CountBad \/ PoolOnline \/ EndJob
  BY <1>3, VerifyDisksTyped, DisksOnlineTyped, CountsTyped, PoolOnlineTyped, EndJobTyped
<1>4. CASE ClaimParity \/ LoadRows \/ ComputeParity \/ CommitParity
  BY <1>4, ClaimParityTyped, LoadRowsTyped, ComputeParityTyped, CommitParityTyped
<1> QED
  BY <1>1, <1>2, <1>3, <1>4 DEF WorkerStep

LEMMA NextTyped ==
    ASSUME Typed, Next
    PROVE  Typed'
<1>1. CASE Request
  BY <1>1, RequestTyped
<1>2. CASE WorkerStep
  BY <1>2, WorkerStepTyped
<1>3. CASE StatementFails \/ Crash
  BY <1>3, StatementFailsTyped, CrashTyped
<1>4. CASE \E s \in Stripe : RebuildFails(s)
  BY <1>4, RebuildFailsTyped
<1>5. CASE \E c \in Chunk : LoseFile(c)
  BY <1>5, LoseFileTyped
<1> QED
  BY <1>1, <1>2, <1>3, <1>4, <1>5 DEF Next

LEMMA StutterTyped ==
    ASSUME Typed, UNCHANGED vars
    PROVE  Typed'
<1>1. UNCHANGED <<pool, disk, row, pend, run, rpend, rrun, task, file, want, wr, adding, wk, writes, losses>>
  BY DEF vars, tables, counts
<1> QED
  BY <1>1, AdminFrame, ChunksFrame, QueuesFrame, WritersFrame, WorkerFrame DEF Typed

(* The rows and files the pool starts with.                                *)
LEMMA InitTyped ==
    ASSUME Init
    PROVE  Typed
<1> DEFINE vec(n) == [i \in 0..(DS - 1) |-> IF i < n THEN <<i + 1>> ELSE Zeros]
           held(c, n) == IF n = 0 \/ StripeOf(c) # 1 \/ Index(c) >= (IF IsData(c) THEN DS ELSE PS) THEN None
                      ELSE IF ~IsData(c) THEN [st |-> "written", gen |-> 0, hash |-> vec(n)]
                      ELSE IF Index(c) < n THEN [st |-> "written", gen |-> 0, hash |-> <<Index(c) + 1>>]
                      ELSE [st |-> "reserved", gen |-> 0, hash |-> Nil]
<1>1. PICK n \in {n \in 0..DS : n <= MaxWrite} :
            /\ row  = [c \in Chunk |-> held(c, n)]
            /\ file = [c \in Chunk |-> held(c, n).hash]
            /\ want = [c \in Chunk |-> IF IsData(c) THEN held(c, n).hash ELSE Nil]
            /\ pool = [status |-> "online", ds |-> DS, ps |-> PS]
            /\ disk = [d \in Disk |-> [st |-> IF d <= DS + PS THEN "online" ELSE "none", swaps |-> 0]]
            /\ pend = {} /\ run = {} /\ rpend = {} /\ rrun = {}
            /\ task = [t \in Task |-> "none"]
            /\ wr = [w \in Writers |-> Idle]
            /\ adding = Nil /\ wk = NoBatch
            /\ writes = n /\ losses = 0 /\ faults = 0
  BY DEF Init
<1>2. n \in Nat /\ n <= MaxWrite
  BY Shapes
<1>3. \A i \in Nat : i < n => <<i + 1>> \in Slice
  <2> SUFFICES ASSUME NEW i \in Nat, i < n PROVE <<i + 1>> \in Slice
    OBVIOUS
  <2>1. i + 1 \in 1..MaxWrite
    BY <1>2, Shapes
  <2> QED
    BY <2>1 DEF Slice
<1>4. vec(n) \in Vector
  <2>1. \A i \in 0..(DS - 1) : (IF i < n THEN <<i + 1>> ELSE Zeros) \in Element
    <3> SUFFICES ASSUME NEW i \in 0..(DS - 1) PROVE (IF i < n THEN <<i + 1>> ELSE Zeros) \in Element
      OBVIOUS
    <3>1. i \in Nat
      OBVIOUS
    <3> QED
      BY <1>3, <3>1, SliceIs
  <2>2. vec(n) \in [0..(DS - 1) -> Element]
    BY <2>1
  <2>3. DS \in DS..(DS + MaxAdd)
    BY Shapes
  <2> HIDE DEF vec
  <2> QED
    BY <2>2, <2>3, VectorIs
<1> HIDE DEF vec
<1>5. ASSUME NEW c \in Chunk
      PROVE  /\ held(c, n) \in ChunkRow /\ held(c, n).hash \in Bytes(c)
             /\ held(c, n).st \in {"none", "reserved"} => held(c, n).hash = Nil
             /\ IsData(c) => held(c, n).hash \in Slice \cup {Nil}
  <2>1. 0 \in Nat /\ Nil \in Bytes(c) /\ Index(c) \in Nat /\ c \in Chunk
    BY BytesAre, ChunkIs
  <2>2. CASE held(c, n) = None
    <3>1. held(c, n) = [st |-> "none", hash |-> Nil, gen |-> 0]
      BY <2>2, NoneIs
    <3> QED
      BY ONLY <2>1, <3>1, RowMakes, Nil \in Slice \cup {Nil}
  <2>3. CASE ~IsData(c) /\ held(c, n) = [st |-> "written", gen |-> 0, hash |-> vec(n)]
    <3>1. vec(n) \in Bytes(c)
      BY <1>4, <2>3, BytesAre
    <3>2. held(c, n) = [st |-> "written", hash |-> vec(n), gen |-> 0]
      BY <2>3
    <3> QED
      BY ONLY <2>1, <2>3, <3>1, <3>2, RowMakes
  <2>4. CASE IsData(c) /\ Index(c) < n /\ held(c, n) = [st |-> "written", gen |-> 0, hash |-> <<Index(c) + 1>>]
    <3> DEFINE v == <<Index(c) + 1>>
    <3>1. v \in Slice
      BY <1>3, <2>1, <2>4
    <3>2. held(c, n) = [st |-> "written", hash |-> v, gen |-> 0]
      BY <2>4
    <3> HIDE DEF v
    <3>3. v \in Bytes(c)
      BY <2>4, <3>1, BytesAre, SliceIs
    <3> QED
      BY ONLY <2>1, <3>1, <3>2, <3>3, RowMakes
  <2>5. CASE held(c, n) = [st |-> "reserved", gen |-> 0, hash |-> Nil]
    <3>1. held(c, n) = [st |-> "reserved", hash |-> Nil, gen |-> 0]
      BY <2>5
    <3> QED
      BY ONLY <2>1, <3>1, RowMakes, Nil \in Slice \cup {Nil}
  <2> QED
    BY <2>2, <2>3, <2>4, <2>5
<1> HIDE DEF held
<1>6. ChunksTyped
  <2>1. RowsTyped(row)
    BY <1>1, <1>5 DEF RowsTyped
  <2>2. file \in [Chunk -> Content] /\ \A c \in Chunk : file[c] \in Bytes(c)
    BY <1>1, <1>5, BytesAre
  <2>3. want \in [Chunk -> Slice \cup {Nil}]
    BY <1>1, <1>5
  <2> QED
    BY <2>1, <2>2, <2>3 DEF ChunksTyped
<1>7. AdminTyped
  <2>1. pool \in PoolRow /\ pool.ds = DS /\ pool.ps = PS
    BY <1>1, Shapes DEF PoolRow
  <2>2. \A d \in Disk : disk[d] \in DiskRow /\ disk[d].swaps = 0
    BY <1>1, Shapes DEF DiskRow
  <2>3. disk \in [Disk -> DiskRow]
    BY <1>1, <2>2
  <2>4. losses \in Nat /\ losses <= MaxLoss /\ \A d \in Disk : disk[d].swaps <= losses
    BY <1>1, <2>2, Shapes
  <2> QED
    BY <1>1, <2>1, <2>3, <2>4, SliceIs DEF AdminTyped
<1>8. QueuesTyped
  BY <1>1 DEF QueuesTyped
<1>9. WritersTyped
  BY <1>1, <1>2, IdleIs DEF WritersTyped
<1>10. WorkerTyped
  <2>1. "idle" \in WorkerPc /\ wk = NoBatch
    BY <1>1 DEF WorkerPc
  <2> QED
    BY <2>1, EmptyTuple DEF WorkerTyped, NoBatch
<1> QED
  BY <1>6, <1>7, <1>8, <1>9, <1>10 DEF Typed

LEMMA TypedOK ==
    ASSUME Typed
    PROVE  TypeOK
<1>1. pool.status \in {"online", "offline"} /\ pool.ds \in DS..(DS + MaxAdd) /\ pool.ps \in PS..(PS + MaxAdd)
  BY DEF Typed, AdminTyped, PoolRow
<1>2. \A d \in Disk : disk[d].st \in {"none", "online", "repair"} /\ disk[d].swaps \in 0..MaxLoss
  BY DEF Typed, AdminTyped, DiskRow
<1>3. \A c \in Chunk : /\ row[c].st \in {"none", "reserved", "written", "double"}
                       /\ row[c].hash \in Content
                       /\ row[c].st \in {"none", "reserved"} => row[c].hash = Nil
  BY RowIs, BytesAre DEF Typed, ChunksTyped
<1>4. \A c \in Chunk : file[c] \in Content /\ want[c] \in Slice \cup {Nil}
  BY DEF Typed, ChunksTyped
<1> QED
  BY <1>1, <1>2, <1>3, <1>4 DEF TypeOK, Typed, QueuesTyped

(* Every row, file, queue and job keeps its shape, whatever is lost, fails *)
(* or overlaps: the rows of a queue are claimed once, and a slot that is   *)
(* free has no hash.                                                       *)
THEOREM RebuildTypeCorrect == Spec => []TypeOK
<1>1. Init => Typed
  BY InitTyped
<1>2. Typed /\ [Next]_vars => Typed'
  BY NextTyped, StutterTyped
<1>3. Typed => TypeOK
  BY TypedOK
<1> QED
  BY <1>1, <1>2, <1>3, PTL DEF Spec
-----------------------------------------------------------------------------
(* A pool serves only when it is whole.                                    *)

LEMMA ServeFrame ==
    ASSUME Serving, \A d \in Disk : disk'[d].st = "repair" => disk[d].st = "repair",
           pool'.status = "online" => pool.status = "online",
           wk'.pc = "pool up" => wk.pc = "pool up"
    PROVE  Serving'
  BY DEF Serving, PoolServesWhole, InRepair

LEMMA RequestServing ==
    ASSUME Typed, Serving, Request, AllowedStep, "again" \notin Overlaps
    PROVE  Serving'
<1>1. CASE \E w \in Writers : \/ CheckPool(w) \/ StoreSlice(w) \/ FlushSlice(w)
                              \/ (\E c \in Chunk : Reuse(w, c)) \/ \E s \in Stripe : NewStripe(w, s)
  <2>1. UNCHANGED <<pool, disk, wk>>
    BY <1>1 DEF CheckPool, StoreSlice, FlushSlice, Reuse, NewStripe, tables
  <2> QED
    BY <2>1, ServeFrame
<1>2. CASE (\E c \in Chunk : Release(c) \/ ReadFails(c)) \/ (\E t \in Task : RebuildPool(t)) \/ AddSlots
  <2>1. UNCHANGED <<pool, disk, wk>>
    BY <1>2 DEF Release, ReadFails, RebuildPool, AddSlots
  <2> QED
    BY <2>1, ServeFrame
<1>3. ASSUME NEW d \in Disk, SwapDisk(d) PROVE Serving'
  <2>1. pool'.status = "offline"
    BY <1>3, SwapDiskTyped
  <2>2. losses' # losses
    <3>1. losses' = losses + 1 /\ losses \in Nat
      BY <1>3 DEF SwapDisk, Typed, AdminTyped
    <3> QED
      BY <3>1
  <2>3. wk.pc # "pool up" /\ wk' = wk
    BY <1>3, <2>2 DEF AllowedStep, Finishing, SwapDisk
  <2> QED
    BY <2>1, <2>3 DEF Serving, PoolServesWhole
<1>4. CASE OfflinePool
  <2>1. pool'.status = "offline" /\ UNCHANGED <<disk, wk>>
    BY <1>4, OfflinePoolTyped DEF OfflinePool
  <2> QED
    BY <2>1, ServeFrame
<1>5. ASSUME NEW k \in {"data", "parity"}, AddDisk(k) PROVE Serving'
  <2>1. pool'.status = pool.status /\ \A d \in Disk : disk'[d] = disk[d] \/ disk'[d].st = "online"
    BY <1>5, AddDiskTyped
  <2>2. wk' = wk
    BY <1>5 DEF AddDisk
  <2> QED
    BY <2>1, <2>2, ServeFrame
<1> QED
  BY <1>1, <1>2, <1>3, <1>4, <1>5 DEF Request

LEMMA WorkerServing ==
    ASSUME Typed, Serving, WorkerStep
    PROVE  Serving'
<1>1. CASE ClaimRebuild \/ LoadMeta \/ Save \/ DropEntries
  <2>1. wk'.pc # "pool up" /\ UNCHANGED <<pool, disk>>
    BY <1>1, ClaimRebuildTyped, LoadMetaTyped, SaveTyped, DropEntriesTyped
       DEF ClaimRebuild, LoadMeta, Save, DropEntries, tables
  <2> QED
    BY <2>1, ServeFrame
<1>2. CASE \E s \in Stripe : RebuildRead(s) \/ RebuildWrite(s)
  <2>1. wk'.pc # "pool up" /\ UNCHANGED <<pool, disk>>
    BY <1>2, RebuildReadTyped, RebuildWriteTyped DEF RebuildRead, RebuildWrite, tables
  <2> QED
    BY <2>1, ServeFrame
<1>3. CASE CountLeft \/ CountBad
  <2>1. UNCHANGED <<pool, disk>> /\ (wk'.pc = "pool up" => InRepair = {})
    BY <1>3, CountsTyped DEF tables
  <2> QED
    BY <2>1 DEF Serving, PoolServesWhole, InRepair
<1>4. CASE VerifyDisks \/ EndJob
  <2>1. wk'.pc # "pool up" /\ UNCHANGED <<pool, disk>>
    BY <1>4, VerifyDisksTyped, EndJobTyped DEF VerifyDisks, EndJob, tables
  <2> QED
    BY <2>1, ServeFrame
<1>5. CASE DisksOnline
  <2>1. wk'.pc # "pool up" /\ UNCHANGED pool
        /\ \A d \in Disk : disk'[d].st = disk[d].st \/ disk'[d].st = "online"
    BY <1>5, DisksOnlineTyped
  <2> QED
    BY <2>1, ServeFrame
<1>6. CASE PoolOnline
  <2>1. wk.pc = "pool up" /\ wk'.pc = "job" /\ UNCHANGED disk
    BY <1>6, PoolOnlineTyped
  <2> QED
    BY <2>1 DEF Serving, PoolServesWhole, InRepair
<1>7. CASE ClaimParity \/ LoadRows \/ ComputeParity \/ CommitParity
  <2>1. wk'.pc # "pool up" /\ UNCHANGED <<pool, disk>>
    BY <1>7, ClaimParityTyped, LoadRowsTyped, ComputeParityTyped, CommitParityTyped
       DEF ClaimParity, LoadRows, ComputeParity, CommitParity, tables
  <2> QED
    BY <2>1, ServeFrame
<1> QED
  BY <1>1, <1>2, <1>3, <1>4, <1>5, <1>6, <1>7 DEF WorkerStep

LEMMA NextServing ==
    ASSUME Typed, Serving, Next, "again" \notin Overlaps
    PROVE  Serving'
<1>1. CASE Request
  BY <1>1, RequestServing DEF Next
<1>2. CASE WorkerStep
  BY <1>2, WorkerServing
<1>3. CASE StatementFails
  <2>1. wk'.pc # "pool up" /\ UNCHANGED <<pool, disk>>
    BY <1>3, StatementFailsTyped DEF tables
  <2> QED
    BY <2>1, ServeFrame
<1>4. CASE Crash
  <2>1. wk'.pc # "pool up" /\ UNCHANGED <<pool, disk>>
    BY <1>4, CrashTyped
  <2> QED
    BY <2>1, ServeFrame
<1>5. CASE \E s \in Stripe : RebuildFails(s)
  <2>1. wk'.pc # "pool up" /\ UNCHANGED <<pool, disk>>
    BY <1>5, RebuildFailsTyped DEF RebuildFails, tables
  <2> QED
    BY <2>1, ServeFrame
<1>6. CASE \E c \in Chunk : LoseFile(c)
  <2>1. UNCHANGED <<pool, disk, wk>>
    BY <1>6 DEF LoseFile, tables
  <2> QED
    BY <2>1, ServeFrame
<1> QED
  BY <1>1, <1>2, <1>3, <1>4, <1>5, <1>6 DEF Next

(* A pool that serves has no disk in repair, as long as no disk is swapped *)
(* while a job ends: recoverAfterRebuild counts the disks that are still   *)
(* bad in one statement and opens the pool in the next.                    *)
THEOREM PoolServesOnlyWhole ==
    ASSUME "again" \notin Overlaps
    PROVE  Spec => []PoolServesWhole
<1>1. Init => Typed /\ Serving
  <2> SUFFICES ASSUME Init PROVE Typed /\ Serving
    OBVIOUS
  <2>1. wk = NoBatch /\ \A d \in Disk : disk[d].st # "repair"
    BY DEF Init
  <2> QED
    BY <2>1, InitTyped, NoBatchRec DEF Serving, PoolServesWhole
<1>2. Typed /\ Serving /\ [Next]_vars => (Typed /\ Serving)'
  <2> SUFFICES ASSUME Typed, Serving, [Next]_vars PROVE Typed' /\ Serving'
    OBVIOUS
  <2>1. CASE Next
    BY <2>1, NextTyped, NextServing
  <2>2. CASE UNCHANGED vars
    <3>1. UNCHANGED <<pool, disk, wk>>
      BY <2>2 DEF vars, tables
    <3> QED
      BY <2>2, <3>1, StutterTyped, ServeFrame
  <2> QED
    BY <2>1, <2>2
<1>3. Typed /\ Serving => PoolServesWhole
  BY DEF Serving
<1> QED
  BY <1>1, <1>2, <1>3, PTL DEF Spec
-----------------------------------------------------------------------------
(* The shape of stripes.                                                   *)

LEMMA FaultsCount ==
    /\ Init => faults \in Nat
    /\ faults \in Nat /\ [Next]_vars => faults' \in Nat
<1>1. Init => faults \in Nat
  BY DEF Init
<1>2. ASSUME faults \in Nat, [Next]_vars PROVE faults' \in Nat
  <2>1. CASE Request
    BY <1>2, <2>1 DEF Request, CheckPool, StoreSlice, FlushSlice, Reuse, NewStripe, Release, ReadFails,
       SwapDisk, OfflinePool, RebuildPool, AddDisk, AddSlots, counts
  <2>2. CASE WorkerStep
    BY <1>2, <2>2 DEF WorkerStep, ClaimRebuild, LoadMeta, Save, DropEntries, CountLeft, RebuildRead,
       RebuildWrite, VerifyDisks, DisksOnline, CountBad, PoolOnline, EndJob, ClaimParity, LoadRows,
       ComputeParity, CommitParity, counts
  <2>3. CASE StatementFails \/ Crash \/ \E s \in Stripe : RebuildFails(s)
    <3>1. StatementFails => faults' = faults + 1
      BY DEF StatementFails
    <3>2. Crash => faults' = faults + 1
      BY DEF Crash
    <3>3. \A s \in Stripe : RebuildFails(s) => faults' = faults + 1
      BY DEF RebuildFails
    <3>4. faults' = faults + 1
      BY <2>3, <3>1, <3>2, <3>3
    <3> QED
      BY <1>2, <3>4
  <2>4. CASE \E c \in Chunk : LoseFile(c)
    BY <1>2, <2>4 DEF LoseFile
  <2>5. CASE UNCHANGED vars
    BY <1>2, <2>5 DEF vars, counts
  <2> QED
    BY <1>2, <2>1, <2>2, <2>3, <2>4, <2>5 DEF Next
<1> QED
  BY <1>1, <1>2

(* What must hold of a step that makes no slots.                           *)
LEMMA ShapeFrame ==
    ASSUME Slotted, adding' = adding, pool'.ds = pool.ds, pool'.ps = pool.ps,
           \A c \in Chunk : row'[c].st # "double" /\ (row'[c].st = "none" <=> row[c].st = "none"),
           wk'.pc \in {"work", "compute"} =>
                (wk.pc \in {"work", "compute"} /\ wk'.meta = wk.meta) \/ wk'.meta.row = row,
           \A c \in DOMAIN wk'.fix : c \in Chunk /\ row[c].st # "none"
    PROVE  Slotted'
<1>1. \A c \in Chunk : Width(c)' = Width(c)
  BY DEF Width
<1>2. \A s : (s \in Stripes)' <=> s \in Stripes
  BY DEF Stripes, Slots
<1>3. Stripes' = Stripes
  BY <1>2
<1>4. \A c \in Chunk : /\ row'[c].st # "double"
                       /\ StripeOf(c) \in Stripes' => (row'[c].st # "none" <=> Index(c) < Width(c)')
  BY <1>1, <1>3 DEF Slotted
<1>5. wk'.pc \in {"work", "compute"} =>
            \A c \in Chunk : wk'.meta.row[c].st # "none" => row'[c].st # "none"
  BY DEF Slotted
<1>6. \A c \in DOMAIN wk'.fix : row'[c].st # "none"
  OBVIOUS
<1> QED
  BY <1>4, <1>5, <1>6 DEF Slotted

(* ... that leaves rows, disks and the worker to others.                   *)
LEMMA ShapeStill ==
    ASSUME Typed, Slotted, adding' = adding, pool'.ds = pool.ds, pool'.ps = pool.ps,
           UNCHANGED <<row, wk>>
    PROVE  Slotted'
<1>1. \A c \in Chunk : row'[c].st # "double" /\ (row'[c].st = "none" <=> row[c].st = "none")
  BY DEF Slotted
<1>2. \A c \in DOMAIN wk'.fix : c \in Chunk /\ row[c].st # "none"
  BY DEF Slotted, Typed, WorkerTyped
<1> QED
  BY <1>1, <1>2, ShapeFrame

(* ... of the worker, and changes no rows.                                 *)
LEMMA ShapeWork ==
    ASSUME Typed, Slotted, UNCHANGED <<row, adding>>, pool'.ds = pool.ds, pool'.ps = pool.ps,
           wk'.pc \in {"work", "compute"} =>
                (wk.pc \in {"work", "compute"} /\ wk'.meta = wk.meta) \/ wk'.meta.row = row,
           DOMAIN wk'.fix \subseteq DOMAIN wk.fix
    PROVE  Slotted'
<1>1. \A c \in Chunk : row'[c].st # "double" /\ (row'[c].st = "none" <=> row[c].st = "none")
  BY DEF Slotted
<1>2. \A c \in DOMAIN wk'.fix : c \in Chunk /\ row[c].st # "none"
  BY DEF Slotted, Typed, WorkerTyped
<1> QED
  BY <1>1, <1>2, ShapeFrame

LEMMA NewStripeShape ==
    ASSUME Typed, Slotted, NEW w \in Writers, NEW s \in Stripe, NewStripe(w, s), Fits(w)
    PROVE  Slotted'
<1>1. /\ wr[w].pc = "checked" /\ wr[w].ps # Nil /\ s \notin Stripes
      /\ UNCHANGED <<pool, adding, wk>>
  BY DEF NewStripe
<1>3. \A c \in Chunk : StripeOf(c) = s => row[c].st = "none"
  BY <1>1 DEF Stripes, Slots
<1>4. \A c \in Chunk : Width(c)' = Width(c) /\ Width(c) = IF IsData(c) THEN wr[w].ds ELSE wr[w].ps
  <2>1. pool.ds - 0 = pool.ds /\ pool.ps - 0 = pool.ps
    BY Shapes DEF Typed, AdminTyped, PoolRow
  <2> QED
    BY <1>1, <2>1 DEF Width, Fits
<1> DEFINE z == Slot(s, 0)
<1>5. z \in Chunk /\ StripeOf(z) = s /\ IsData(z) /\ Index(z) = 0
  BY NewStripeTyped, SlotIs
<1>6. wr[w].ds \in Nat /\ wr[w].ds > 0
  <2>1. pool.ds \in DS..(DS + MaxAdd) /\ (adding = "data" => pool.ds = DS + 1)
    BY DEF Typed, AdminTyped, PoolRow
  <2> QED
    BY <2>1, Shapes DEF Fits
<1>7. /\ row'[z] = [st |-> "written", hash |-> wr[w].val, gen |-> 0]
      /\ \A c \in Chunk \ {z} :
            row'[c] = IF StripeOf(c) = s /\ Index(c) < (IF IsData(c) THEN wr[w].ds ELSE wr[w].ps)
                      THEN [st |-> "reserved", hash |-> Nil, gen |-> 0] ELSE row[c]
      /\ wr'[w].pc = "allocated" /\ \A v \in Writers \ {w} : wr'[v] = wr[v]
  BY NewStripeTyped
<1>8. ASSUME NEW c \in Chunk
      PROVE  /\ StripeOf(c) = s => (row'[c].st # "none" <=> Index(c) < Width(c)) /\ row'[c].st # "double"
             /\ StripeOf(c) # s => row'[c] = row[c]
             /\ row[c].st # "none" => row'[c].st # "none"
  <2>1. CASE c = z
    <3>1. row'[z].st = "written" /\ Index(z) < Width(z)
      BY <1>4, <1>5, <1>6, <1>7
    <3> QED
      BY <1>5, <2>1, <3>1
  <2>2. CASE c # z /\ StripeOf(c) = s /\ Index(c) < Width(c)
    <3>1. row'[c].st = "reserved"
      BY <1>4, <1>7, <2>2
    <3> QED
      BY <2>2, <3>1
  <2>3. CASE c # z /\ StripeOf(c) = s /\ ~(Index(c) < Width(c))
    <3>1. row'[c] = row[c]
      BY <1>4, <1>7, <2>3
    <3> QED
      BY <1>3, <2>3, <3>1
  <2>4. CASE c # z /\ StripeOf(c) # s
    BY <1>7, <2>4
  <2> QED
    BY <2>1, <2>2, <2>3, <2>4
<1> HIDE DEF z
<1>9. \A t : t # s => ((t \in Stripes)' <=> t \in Stripes)
  BY <1>8 DEF Stripes, Slots
<1>10. \A c \in Chunk : /\ row'[c].st # "double"
                        /\ StripeOf(c) \in Stripes' => (row'[c].st # "none" <=> Index(c) < Width(c)')
  <2> SUFFICES ASSUME NEW c \in Chunk
               PROVE  /\ row'[c].st # "double"
                      /\ StripeOf(c) \in Stripes' => (row'[c].st # "none" <=> Index(c) < Width(c)')
    OBVIOUS
  <2>1. CASE StripeOf(c) = s
    BY <1>4, <1>8, <2>1
  <2>2. CASE StripeOf(c) # s
    <3>1. row[c].st # "double" /\ (StripeOf(c) \in Stripes => (row[c].st # "none" <=> Index(c) < Width(c)))
      BY DEF Slotted
    <3>2. StripeOf(c) \in Stripes' <=> StripeOf(c) \in Stripes
      BY <1>9, <2>2
    <3> QED
      BY <1>4, <1>8, <2>2, <3>1, <3>2
  <2> QED
    BY <2>1, <2>2
<1>12. wk'.pc \in {"work", "compute"} =>
            \A c \in Chunk : wk'.meta.row[c].st # "none" => row'[c].st # "none"
  BY <1>1, <1>8 DEF Slotted
<1>13. \A c \in DOMAIN wk'.fix : row'[c].st # "none"
  BY <1>1, <1>8 DEF Slotted, Typed, WorkerTyped
<1> QED
  BY <1>10, <1>12, <1>13 DEF Slotted

LEMMA AddDiskShape ==
    ASSUME Typed, Slotted, NEW k \in {"data", "parity"}, AddDisk(k)
    PROVE  Slotted'
<1>1. adding' = k /\ UNCHANGED <<row, wr, wk>> /\ k # Nil
  BY SliceIs DEF AddDisk
<1>4. adding = Nil
  <2>1. pool.ds = DS /\ pool.ps = PS
    BY AddDiskTyped
  <2>2. DS # DS + 1 /\ PS # PS + 1
    BY Shapes
  <2> QED
    BY <2>1, <2>2 DEF Typed, AdminTyped
<1>5. /\ pool'.ds = (IF k = "data" THEN pool.ds + 1 ELSE pool.ds)
      /\ pool'.ps = (IF k = "data" THEN pool.ps ELSE pool.ps + 1)
      /\ pool.ds \in Nat /\ pool.ps \in Nat
  BY AddDiskTyped, Shapes
<1>6. pool.ds + 1 - 1 = pool.ds /\ pool.ps + 1 - 1 = pool.ps
  BY <1>5
<1>7. \A c \in Chunk : Width(c)' = Width(c)
  BY <1>1, <1>4, <1>5, <1>6, SliceIs DEF Width
<1>8. Stripes' = Stripes
  BY <1>1 DEF Stripes, Slots
<1>9. \A c \in Chunk : /\ row'[c].st # "double"
                       /\ StripeOf(c) \in Stripes' => (row'[c].st # "none" <=> Index(c) < Width(c)')
  BY <1>1, <1>7, <1>8 DEF Slotted
<1> QED
  BY <1>1, <1>9 DEF Slotted

LEMMA AddSlotsShape ==
    ASSUME Typed, Slotted, AddSlots
    PROVE  Slotted'
<1>1. adding # Nil /\ adding' = Nil /\ UNCHANGED <<pool, wr, wk>>
  BY DEF AddSlots
<1>4. adding \in {"data", "parity"} /\ pool.ds \in Nat /\ pool.ps \in Nat
      /\ (adding = "data" => pool.ds = DS + 1) /\ (adding = "parity" => pool.ps = PS + 1)
  BY <1>1, Shapes DEF Typed, AdminTyped, PoolRow
<1> DEFINE new == {<<s, <<adding, NewIndex>>>> : s \in Stripes}
<1>5. NewIndex \in Nat /\ NewIndex = (IF adding = "data" THEN pool.ds ELSE pool.ps) - 1
  BY <1>4, Shapes DEF NewIndex
<1>6. \A c \in Chunk :
        c \in new <=> StripeOf(c) \in Stripes /\ IsData(c) = (adding = "data") /\ Index(c) = NewIndex
  <2> SUFFICES ASSUME NEW c \in Chunk
               PROVE  c \in new <=> StripeOf(c) \in Stripes /\ IsData(c) = (adding = "data")
                                    /\ Index(c) = NewIndex
    OBVIOUS
  <2>1. ASSUME c \in new
        PROVE  StripeOf(c) \in Stripes /\ IsData(c) = (adding = "data") /\ Index(c) = NewIndex
    <3>1. PICK s \in Stripes : c = <<s, <<adding, NewIndex>>>>
      BY <2>1
    <3>2. s \in Stripe
      BY DEF Stripes
    <3>3. CASE adding = "data"
      <4>1. c = <<s, <<"data", NewIndex>>>>
        BY <3>1, <3>3
      <4>2. IsData(c) /\ StripeOf(c) = s /\ Index(c) = NewIndex
        BY <1>5, <3>2, <4>1, MakeChunk
      <4> QED
        BY <3>3, <4>2
    <3>4. CASE adding = "parity"
      <4>1. c = <<s, <<"parity", NewIndex>>>>
        BY <3>1, <3>4
      <4>2. ~IsData(c) /\ StripeOf(c) = s /\ Index(c) = NewIndex
        BY <1>5, <3>2, <4>1, MakeChunk
      <4>3. IsData(c) = FALSE /\ (adding = "data") = FALSE
        BY <3>4, <4>2, ChunkIs
      <4> QED
        BY <4>2, <4>3
    <3> QED
      BY <1>4, <3>3, <3>4
  <2>2. ASSUME StripeOf(c) \in Stripes, IsData(c) = (adding = "data"), Index(c) = NewIndex
        PROVE  c \in new
    <3>1. c = <<StripeOf(c), <<adding, NewIndex>>>>
      BY <1>4, <2>2, ChunkIs
    <3> QED
      BY <2>2, <3>1
  <2> QED
    BY <2>1, <2>2
<1>7. \A c \in Chunk : Width(c)' = IF IsData(c) THEN pool.ds ELSE pool.ps
  BY <1>1, <1>4, SliceIs DEF Width
<1>8. \A c \in Chunk : Width(c) = IF IsData(c) THEN (IF adding = "data" THEN pool.ds - 1 ELSE pool.ds)
                                  ELSE (IF adding = "data" THEN pool.ps ELSE pool.ps - 1)
  BY <1>4 DEF Width
<1>9. \A c \in Chunk : row'[c] = IF c \in new
                          THEN IF row[c].st = "none"
                               THEN [st |-> "reserved", hash |-> Nil, gen |-> 0]
                               ELSE [row[c] EXCEPT !.st = "double"]
                          ELSE row[c]
  BY AddSlotsTyped
<1> HIDE DEF new
<1>10. ASSUME NEW c \in Chunk
       PROVE  /\ c \in new => row[c].st = "none" /\ row'[c].st = "reserved" /\ Index(c) < Width(c)'
              /\ c \notin new => row'[c] = row[c]
              /\ c \notin new /\ StripeOf(c) \in Stripes => (Index(c) < Width(c)' <=> Index(c) < Width(c))
  <2>1. Index(c) \in Nat /\ IsData(c) \in BOOLEAN
    BY ChunkIs
  <2>2. CASE c \in new
    <3>1. ~(Index(c) < Width(c)) /\ Index(c) < Width(c)' /\ StripeOf(c) \in Stripes
      BY <1>4, <1>5, <1>6, <1>7, <1>8, <2>1, <2>2
    <3>2. row[c].st = "none"
      BY <3>1 DEF Slotted
    <3>3. row'[c] = [st |-> "reserved", hash |-> Nil, gen |-> 0]
      BY <1>9, <2>2, <3>2
    <3> QED
      BY <2>2, <3>1, <3>2, <3>3
  <2>3. CASE c \notin new
    <3>1. StripeOf(c) \in Stripes => (Index(c) < Width(c)' <=> Index(c) < Width(c))
      BY <1>4, <1>5, <1>6, <1>7, <1>8, <2>1, <2>3
    <3> QED
      BY <1>9, <2>3, <3>1
  <2> QED
    BY <2>2, <2>3
<1>11. Stripes' = Stripes
  <2>1. \A s \in Stripe : (\E c \in Chunk : StripeOf(c) = s /\ row'[c].st # "none")
                          <=> (\E c \in Chunk : StripeOf(c) = s /\ row[c].st # "none")
    <3> SUFFICES ASSUME NEW s \in Stripe
                 PROVE  (\E c \in Chunk : StripeOf(c) = s /\ row'[c].st # "none")
                          <=> (\E c \in Chunk : StripeOf(c) = s /\ row[c].st # "none")
      OBVIOUS
    <3>1. \A c \in Chunk : row[c].st # "none" => row'[c].st # "none"
      BY <1>10
    <3>2. \A c \in Chunk : row'[c].st # "none" /\ StripeOf(c) = s => row[c].st # "none" \/ s \in Stripes
      BY <1>6, <1>10
    <3>3. s \in Stripes => \E c \in Chunk : StripeOf(c) = s /\ row[c].st # "none"
      BY DEF Stripes, Slots
    <3> QED
      BY <3>1, <3>2, <3>3
  <2> QED
    BY <2>1 DEF Stripes, Slots
<1>12. \A c \in Chunk : /\ row'[c].st # "double"
                        /\ StripeOf(c) \in Stripes' => (row'[c].st # "none" <=> Index(c) < Width(c)')
  <2> SUFFICES ASSUME NEW c \in Chunk
               PROVE  /\ row'[c].st # "double"
                      /\ StripeOf(c) \in Stripes' => (row'[c].st # "none" <=> Index(c) < Width(c)')
    OBVIOUS
  <2>1. row[c].st # "double" /\ (StripeOf(c) \in Stripes => (row[c].st # "none" <=> Index(c) < Width(c)))
    BY DEF Slotted
  <2> QED
    BY <1>10, <1>11, <2>1
<1>13. \A c \in Chunk : row[c].st # "none" => row'[c].st # "none"
  BY <1>10
<1>14. \A c \in DOMAIN wk.fix : c \in Chunk /\ row[c].st # "none"
  BY DEF Slotted, Typed, WorkerTyped
<1> QED
  BY <1>1, <1>12, <1>13, <1>14 DEF Slotted

LEMMA RequestShape ==
    ASSUME Typed, Slotted, Request,
           \A w \in Writers, s \in Stripe : NewStripe(w, s) => Fits(w)
    PROVE  Slotted'
<1>1. ASSUME NEW w \in Writers, CheckPool(w) PROVE Slotted'
  <2>1. UNCHANGED <<pool, row, wk, adding>>
    BY <1>1 DEF CheckPool, tables
  <2> QED
    BY <2>1, ShapeStill
<1>2. ASSUME NEW w \in Writers, NEW c \in Chunk, Reuse(w, c) PROVE Slotted'
  <2>1. UNCHANGED <<pool, wk, adding>> /\ row[c].st = "reserved"
    BY <1>2 DEF Reuse
  <2>2. wr'[w].pc = "allocated" /\ (\A v \in Writers \ {w} : wr'[v] = wr[v])
        /\ row'[c].st = "written" /\ \A d \in Chunk \ {c} : row'[d] = row[d]
    BY <1>2, ReuseTyped
  <2>3. \A d \in Chunk : row'[d].st # "double" /\ (row'[d].st = "none" <=> row[d].st = "none")
    BY <2>1, <2>2 DEF Slotted
  <2>4. \A d \in DOMAIN wk'.fix : d \in Chunk /\ row[d].st # "none"
    BY <2>1 DEF Slotted, Typed, WorkerTyped
  <2> QED
    BY <2>1, <2>3, <2>4, ShapeFrame
<1>3. ASSUME NEW w \in Writers, NEW s \in Stripe, NewStripe(w, s) PROVE Slotted'
  BY <1>3, NewStripeShape
<1>4. ASSUME NEW w \in Writers, StoreSlice(w) PROVE Slotted'
  <2>1. UNCHANGED <<pool, row, wk, adding>>
    BY <1>4 DEF StoreSlice, tables
  <2> QED
    BY <2>1, ShapeStill
<1>5. ASSUME NEW w \in Writers, FlushSlice(w) PROVE Slotted'
  <2>1. UNCHANGED <<pool, row, wk, adding>>
    BY <1>5 DEF FlushSlice
  <2> QED
    BY <2>1, ShapeStill
<1>6. ASSUME NEW c \in Chunk, Release(c) PROVE Slotted'
  <2>1. UNCHANGED <<pool, wk, adding, wr>> /\ row[c].st = "written"
    BY <1>6 DEF Release, Written
  <2>2. \A d \in Chunk \ {c} : row[d].st = "none" => row'[d] = row[d]
    <3> DEFINE live == \E b \in Slots(StripeOf(c)) \ {c} : IsData(b) /\ Written(b)
               gone == {c} \cup (IF live THEN {} ELSE {p \in Slots(StripeOf(c)) : ~IsData(p) /\ Written(p)})
    <3>1. row' = [b \in Chunk |-> IF b = c THEN Emptied(row[c])
                                  ELSE IF b \in gone THEN [row[b] EXCEPT !.st = "reserved", !.hash = Nil]
                                  ELSE row[b]]
      BY <1>6 DEF Release
    <3>2. \A d \in gone : d # c => row[d].st = "written"
      BY DEF Written
    <3> HIDE DEF gone
    <3>3. \A d \in Chunk : d # c /\ d \notin gone => row'[d] = row[d]
      BY <3>1, Zenon
    <3>4. \A d \in Chunk : row[d].st = "none" /\ d # c => d \notin gone
      BY <3>2
    <3> QED
      BY <3>3, <3>4
  <2>3. /\ row'[c].st = "reserved"
        /\ \A d \in Chunk \ {c} : row'[d] = row[d] \/ row'[d].st = "reserved"
    <3>1. row'[c] = [st |-> "reserved", hash |-> Nil, gen |-> row[c].gen + 1]
      BY <1>6, ReleaseTyped
    <3>2. ASSUME NEW d \in Chunk \ {c} PROVE row'[d] = row[d] \/ row'[d].st = "reserved"
      <4>1. row'[d] = row[d] \/ row'[d] = [st |-> "reserved", hash |-> Nil, gen |-> row[d].gen]
        BY <1>6, ReleaseTyped
      <4> QED
        BY <4>1
    <3> QED
      BY <3>1, <3>2
  <2>4. \A d \in Chunk : row'[d].st # "double" /\ (row'[d].st = "none" <=> row[d].st = "none")
    BY <2>1, <2>2, <2>3 DEF Slotted
  <2>5. \A d \in DOMAIN wk'.fix : d \in Chunk /\ row[d].st # "none"
    BY <2>1 DEF Slotted, Typed, WorkerTyped
  <2> QED
    BY <2>1, <2>4, <2>5, ShapeFrame
<1>7. ASSUME NEW c \in Chunk, ReadFails(c) PROVE Slotted'
  <2>1. UNCHANGED <<pool, row, wk, adding, wr>>
    BY <1>7 DEF ReadFails
  <2> QED
    BY <2>1, ShapeStill
<1>8. ASSUME NEW d \in Disk, SwapDisk(d) PROVE Slotted'
  <2>1. UNCHANGED <<row, wk, adding, wr>>
    BY <1>8 DEF SwapDisk
  <2> QED
    BY <1>8, <2>1, SwapDiskTyped, ShapeStill
<1>9. ASSUME OfflinePool PROVE Slotted'
  <2>1. UNCHANGED <<row, wk, adding, wr>>
    BY <1>9 DEF OfflinePool
  <2> QED
    BY <1>9, <2>1, OfflinePoolTyped, ShapeStill
<1>10. ASSUME NEW t \in Task, RebuildPool(t) PROVE Slotted'
  <2>1. UNCHANGED <<pool, row, wk, adding, wr>>
    BY <1>10 DEF RebuildPool
  <2> QED
    BY <2>1, ShapeStill
<1>11. ASSUME NEW k \in {"data", "parity"}, AddDisk(k) PROVE Slotted'
  BY <1>11, AddDiskShape
<1>12. ASSUME AddSlots PROVE Slotted'
  BY <1>12, AddSlotsShape
<1> QED
  BY <1>1, <1>2, <1>3, <1>4, <1>5, <1>6, <1>7, <1>8, <1>9, <1>10, <1>11, <1>12 DEF Request

(* Rows the worker marks are there.                                        *)
LEMMA MarkedShape ==
    ASSUME Typed, Slotted, row' = Marked, UNCHANGED <<pool, adding, file, want, wr>>,
           wk'.pc \notin {"work", "compute"}, DOMAIN wk'.fix = {}
    PROVE  Slotted'
<1>1. /\ \A c \in Chunk : c \notin DOMAIN wk.fix => row'[c] = row[c]
      /\ \A c \in DOMAIN wk.fix : c \in Chunk /\ row'[c].st = "written"
  BY MarkedTyped
<1>2. \A c \in Chunk : row'[c].st # "double" /\ (row'[c].st = "none" <=> row[c].st = "none")
  BY <1>1 DEF Slotted
<1> QED
  BY <1>2, ShapeFrame

LEMMA WorkerShape ==
    ASSUME Typed, Slotted, WorkerStep
    PROVE  Slotted'
<1>0. WorkerTyped
  BY DEF Typed
<1>1. ASSUME ClaimRebuild PROVE Slotted'
  <2>1. UNCHANGED <<pool, row, wr, adding>>
    BY <1>1 DEF ClaimRebuild
  <2> QED
    BY <1>1, <2>1, ClaimRebuildTyped, ShapeWork
<1>2. ASSUME LoadMeta PROVE Slotted'
  <2>1. UNCHANGED <<pool, row, wr, adding>>
    BY <1>2 DEF LoadMeta, tables
  <2>2. wk'.meta = Meta /\ DOMAIN wk'.fix = {}
    BY <1>2, LoadMetaTyped
  <2>3. wk'.meta.ds = pool.ds /\ wk'.meta.ps = pool.ps /\ wk'.meta.row = row
    BY <2>2, MetaIs DEF Typed
  <2> QED
    BY <2>1, <2>2, <2>3, ShapeWork
<1>3. ASSUME NEW s \in Stripe, RebuildRead(s) PROVE Slotted'
  <2>1. UNCHANGED <<pool, row, wr, adding>>
    BY <1>3 DEF RebuildRead, tables
  <2>2. /\ wk.pc = "work" /\ wk'.pc = "work" /\ wk'.meta = wk.meta
        /\ wk'.fix = wk.fix \/ wk'.fix = Rebuilt(s)
    BY <1>3, RebuildReadTyped
  <2>3. CASE wk'.fix = wk.fix
    BY <2>1, <2>2, <2>3, ShapeWork
  <2>4. CASE wk'.fix = Rebuilt(s)
    <3>1. DOMAIN wk'.fix = DOMAIN wk.fix \cup Missing(s)
      BY <2>4 DEF Rebuilt
    <3>2. \A c \in Missing(s) : c \in Chunk /\ wk.meta.row[c].st = "written"
      BY <1>0, <2>2, RefsIs DEF Missing
    <3>3. \A c \in DOMAIN wk'.fix : c \in Chunk /\ row[c].st # "none"
      BY <1>0, <2>2, <3>1, <3>2 DEF Slotted, WorkerTyped
    <3>4. \A c \in Chunk : row'[c].st # "double" /\ (row'[c].st = "none" <=> row[c].st = "none")
      BY <2>1 DEF Slotted
    <3> QED
      BY <2>1, <2>2, <3>3, <3>4, ShapeFrame
  <2> QED
    BY <2>2, <2>3, <2>4
<1>4. ASSUME NEW s \in Stripe, RebuildWrite(s) PROVE Slotted'
  <2>1. UNCHANGED <<pool, row, wr, adding>>
    BY <1>4 DEF RebuildWrite, tables
  <2> QED
    BY <1>4, <2>1, RebuildWriteTyped, ShapeWork
<1>5. ASSUME Save PROVE Slotted'
  <2>1. row' = Marked /\ UNCHANGED <<pool, adding, file, want, wr>>
    BY <1>5 DEF Save
  <2> QED
    BY <1>5, <2>1, SaveTyped, MarkedShape
<1>6. ASSUME DropEntries PROVE Slotted'
  <2>1. UNCHANGED <<pool, row, wr, adding>>
    BY <1>6 DEF DropEntries
  <2> QED
    BY <1>6, <2>1, DropEntriesTyped, ShapeWork
<1>7. ASSUME CountLeft \/ CountBad PROVE Slotted'
  <2>1. UNCHANGED <<pool, row, wr, adding>> /\ wk'.pc \notin {"work", "compute"} /\ DOMAIN wk'.fix = {}
    BY <1>7, CountsTyped DEF tables
  <2> QED
    BY <2>1, ShapeWork
<1>8. ASSUME VerifyDisks PROVE Slotted'
  <2>1. UNCHANGED <<pool, row, wr, adding>>
    BY <1>8 DEF VerifyDisks, tables
  <2> QED
    BY <1>8, <2>1, VerifyDisksTyped, ShapeWork
<1>9. ASSUME DisksOnline PROVE Slotted'
  <2>1. wk'.pc = "pool" /\ DOMAIN wk'.fix = {} /\ UNCHANGED <<pool, row, wr, adding>>
    BY <1>9, DisksOnlineTyped
  <2> QED
    BY <2>1, ShapeWork
<1>10. ASSUME PoolOnline PROVE Slotted'
  <2>1. wk'.pc = "job" /\ DOMAIN wk'.fix = {} /\ UNCHANGED <<row, wr, adding>>
        /\ pool'.ds = pool.ds /\ pool'.ps = pool.ps
    BY <1>10, PoolOnlineTyped
  <2> QED
    BY <2>1, ShapeWork
<1>11. ASSUME EndJob PROVE Slotted'
  <2>1. wk'.pc = "parity" /\ DOMAIN wk'.fix = {} /\ UNCHANGED <<pool, row, wr, adding>>
    BY <1>11, EndJobTyped
  <2> QED
    BY <2>1, ShapeWork
<1>12. ASSUME ClaimParity PROVE Slotted'
  <2>1. UNCHANGED <<pool, row, wr, adding>>
    BY <1>12 DEF ClaimParity
  <2>2. wk'.pc \notin {"work", "compute"} /\ DOMAIN wk'.fix = {}
    BY <1>12, ClaimParityTyped
  <2> QED
    BY <2>1, <2>2, ShapeWork
<1>13. ASSUME LoadRows PROVE Slotted'
  <2>1. UNCHANGED <<pool, row, wr, adding>>
    BY <1>13 DEF LoadRows, tables
  <2>2. wk'.meta = Meta /\ DOMAIN wk'.fix = {}
    BY <1>13, LoadRowsTyped
  <2>3. wk'.meta.ds = pool.ds /\ wk'.meta.ps = pool.ps /\ wk'.meta.row = row
    BY <2>2, MetaIs DEF Typed
  <2> QED
    BY <2>1, <2>2, <2>3, ShapeWork
<1>14. ASSUME ComputeParity PROVE Slotted'
  <2>1. UNCHANGED <<pool, row, wr, adding>>
    BY <1>14 DEF ComputeParity, tables
  <2>2. /\ wk.pc = "compute" /\ wk'.pc = "commit"
        /\ \A c \in DOMAIN wk'.fix : c \in Chunk /\ c \in ShapeRows(StripeOf(c))
    BY <1>14, ComputeParityTyped
  <2>3. \A c \in DOMAIN wk'.fix : c \in Chunk /\ row[c].st # "none"
    BY <2>2 DEF ShapeRows, JobParity, Slotted
  <2>4. \A c \in Chunk : row'[c].st # "double" /\ (row'[c].st = "none" <=> row[c].st = "none")
    BY <2>1 DEF Slotted
  <2> QED
    BY <2>1, <2>2, <2>3, <2>4, ShapeFrame
<1>15. ASSUME CommitParity PROVE Slotted'
  <2>1. row' = Marked /\ UNCHANGED <<pool, adding, file, want, wr>>
    BY <1>15 DEF CommitParity
  <2> QED
    BY <1>15, <2>1, CommitParityTyped, MarkedShape
<1> QED
  BY <1>1, <1>2, <1>3, <1>4, <1>5, <1>6, <1>7, <1>8, <1>9, <1>10, <1>11, <1>12, <1>13, <1>14, <1>15
     DEF WorkerStep

(* Stripes are made in the shape of those there are, and AddDisk is not    *)
(* interrupted.                                                            *)
Unsplit == /\ \A w \in Writers, s \in Stripe : NewStripe(w, s) => Fits(w)
           /\ faults' # faults => adding' = adding

LEMMA NextSlotted ==
    ASSUME Typed, Slotted, faults \in Nat, Next, Unsplit
    PROVE  Slotted'
<1>0. /\ faults' # faults => adding' = adding
      /\ \A w \in Writers, s \in Stripe : NewStripe(w, s) => Fits(w)
  BY DEF Unsplit
<1>1. ASSUME Request PROVE Slotted'
  BY <1>0, <1>1, RequestShape
<1>2. ASSUME WorkerStep PROVE Slotted'
  BY <1>2, WorkerShape
<1>3. ASSUME StatementFails PROVE Slotted'
  <2>1. UNCHANGED <<pool, row, adding>> /\ wk'.pc \notin {"work", "compute"} /\ DOMAIN wk'.fix = {}
    BY <1>3, StatementFailsTyped DEF tables
  <2> QED
    BY <2>1, ShapeWork
<1>4. ASSUME Crash PROVE Slotted'
  <2>1. faults' = faults + 1
    BY <1>4 DEF Crash
  <2>2. faults' # faults
    BY <2>1
  <2>3. adding' = adding
    BY <1>0, <2>2
  <2>4. UNCHANGED <<pool, row>> /\ wk'.pc = "idle" /\ DOMAIN wk'.fix = {}
    BY <1>4, CrashTyped
  <2> QED
    BY <2>3, <2>4, ShapeWork
<1>5. ASSUME NEW s \in Stripe, RebuildFails(s) PROVE Slotted'
  <2>1. UNCHANGED <<pool, row, adding>>
    BY <1>5 DEF RebuildFails, tables
  <2>2. wk.pc = "work" /\ wk'.meta = wk.meta /\ DOMAIN wk'.fix \subseteq DOMAIN wk.fix
    BY <1>5, RebuildFailsTyped
  <2> QED
    BY <2>1, <2>2, ShapeWork
<1>6. ASSUME NEW c \in Chunk, LoseFile(c) PROVE Slotted'
  <2>1. UNCHANGED <<pool, row, wk, adding>>
    BY <1>6 DEF LoseFile, tables
  <2> QED
    BY <2>1, ShapeStill
<1> QED
  BY <1>1, <1>2, <1>3, <1>4, <1>5, <1>6 DEF Next

LEMMA StutterSlotted ==
    ASSUME Slotted, UNCHANGED vars
    PROVE  Slotted'
<1>1. UNCHANGED <<pool, row, wk, adding>>
  BY DEF vars, tables
<1>2. \A c \in Chunk : Width(c)' = Width(c)
  BY <1>1 DEF Width
<1>3. Stripes' = Stripes
  BY <1>1 DEF Stripes, Slots
<1> QED
  BY <1>1, <1>2, <1>3 DEF Slotted

LEMMA InitSlotted ==
    ASSUME Init
    PROVE  Slotted
<1>1. PICK n \in 0..DS : row = [c \in Chunk |->
            IF n = 0 \/ StripeOf(c) # 1 \/ Index(c) >= (IF IsData(c) THEN DS ELSE PS) THEN None
            ELSE IF ~IsData(c) THEN [st |-> "written", gen |-> 0, hash |->
                     [i \in 0..(DS - 1) |-> IF i < n THEN <<i + 1>> ELSE Zeros]]
            ELSE IF Index(c) < n THEN [st |-> "written", gen |-> 0, hash |-> <<Index(c) + 1>>]
            ELSE [st |-> "reserved", gen |-> 0, hash |-> Nil]]
  BY DEF Init
<1>2. pool.ds = DS /\ pool.ps = PS /\ adding = Nil /\ wk = NoBatch
  BY DEF Init
<1>3. \A c \in Chunk : Width(c) = IF IsData(c) THEN DS ELSE PS
  BY <1>2, SliceIs DEF Width
<1>4. ASSUME NEW c \in Chunk
      PROVE  /\ row[c].st # "double"
             /\ row[c].st # "none" <=> n # 0 /\ StripeOf(c) = 1 /\ Index(c) < Width(c)
  <2>1. Index(c) \in Nat /\ Width(c) \in Nat
    BY <1>3, ChunkIs, Shapes
  <2>2. Index(c) >= Width(c) <=> ~(Index(c) < Width(c))
    BY <2>1
  <2>3. CASE n = 0 \/ StripeOf(c) # 1 \/ Index(c) >= Width(c)
    <3>1. row[c] = None
      BY <1>1, <1>3, <2>3
    <3> QED
      BY <2>2, <2>3, <3>1, NoneIs
  <2>4. CASE ~(n = 0 \/ StripeOf(c) # 1 \/ Index(c) >= Width(c))
    <3>1. row[c].st = "written" \/ row[c].st = "reserved"
      BY <1>1, <1>3, <2>4
    <3> QED
      BY <2>2, <2>4, <3>1
  <2> QED
    BY <2>3, <2>4
<1>5. \A c \in Chunk : StripeOf(c) \in Stripes => (row[c].st # "none" <=> Index(c) < Width(c))
  BY <1>4 DEF Stripes, Slots
<1>6. wk.pc = "idle" /\ DOMAIN wk.fix = {}
  BY <1>2, NoBatchRec
<1> QED
  BY <1>4, <1>5, <1>6 DEF Slotted

(* As many elements as there are indices for them.                         *)
LEMMA CountIs ==
    ASSUME NEW n \in Nat, NEW S, NEW f \in [0..(n - 1) -> S],
           \A i, j \in 0..(n - 1) : f[i] = f[j] => i = j,
           \A x \in S : \E i \in 0..(n - 1) : f[i] = x
    PROVE  IsFiniteSet(S) /\ Cardinality(S) = n
<1>1. IsFiniteSet(0..(n - 1)) /\ Cardinality(0..(n - 1)) = n
  <2>1. 0 \in Int /\ n - 1 \in Int
    OBVIOUS
  <2>2. IsFiniteSet(0..(n - 1)) /\ Cardinality(0..(n - 1)) = IF 0 > n - 1 THEN 0 ELSE n - 1 - 0 + 1
    BY <2>1, FS_Interval
  <2>3. (IF 0 > n - 1 THEN 0 ELSE n - 1 - 0 + 1) = n
    OBVIOUS
  <2> QED
    BY <2>2, <2>3
<1> DEFINE R == 0..(n - 1)
<1>2. f \in [R -> S] /\ (\A i, j \in R : f[i] = f[j] => i = j) /\ \A x \in S : \E i \in R : f[i] = x
  OBVIOUS
<1>3. IsFiniteSet(R) /\ Cardinality(R) = n
  BY <1>1
<1> HIDE DEF R
<1>4. f \in Injection(R, S) /\ f \in Surjection(R, S)
  BY <1>2 DEF Injection, IsInjective, Surjection
<1>5. ExistsBijection(R, S)
  BY <1>4 DEF ExistsBijection, Bijection
<1> QED
  BY <1>3, <1>5, FS_Bijection

(* The slots of one kind in a stripe.                                      *)
KindOf(s, k) == {c \in Chunk : StripeOf(c) = s /\ IsData(c) = k}

LEMMA KindCount ==
    ASSUME NEW s \in Stripe, NEW k \in BOOLEAN, NEW n \in Nat, n <= (IF k THEN DS ELSE PS) + MaxAdd
    PROVE  Cardinality({c \in KindOf(s, k) : Index(c) < n}) = n
<1> DEFINE S == {c \in KindOf(s, k) : Index(c) < n}
           f == [i \in 0..(n - 1) |-> IF k THEN <<s, <<"data", i>>>> ELSE <<s, <<"parity", i>>>>]
<1>1. ASSUME NEW i \in 0..(n - 1)
      PROVE  f[i] \in S /\ Index(f[i]) = i
  <2>1. i \in Nat /\ i < n /\ i < (IF k THEN DS ELSE PS) + MaxAdd
    BY Shapes
  <2>2. CASE k
    <3>1. f[i] = <<s, <<"data", i>>>>
      BY <2>2
    <3>2. f[i] \in Chunk /\ StripeOf(f[i]) = s /\ Index(f[i]) = i /\ IsData(f[i])
      BY <2>1, <2>2, <3>1, MakeChunk
    <3>3. IsData(f[i]) = TRUE
      BY <3>2, ChunkIs
    <3> QED
      BY <2>1, <2>2, <3>2, <3>3 DEF KindOf
  <2>3. CASE ~k
    <3>1. f[i] = <<s, <<"parity", i>>>>
      BY <2>3
    <3>2. f[i] \in Chunk /\ StripeOf(f[i]) = s /\ Index(f[i]) = i /\ ~IsData(f[i])
      BY <2>1, <2>3, <3>1, MakeChunk
    <3>3. IsData(f[i]) = FALSE
      BY <3>2, ChunkIs
    <3> QED
      BY <2>1, <2>3, <3>2, <3>3 DEF KindOf
  <2> QED
    BY <2>2, <2>3
<1>2. ASSUME NEW c \in S
      PROVE  \E i \in 0..(n - 1) : f[i] = c
  <2>1. c \in Chunk /\ StripeOf(c) = s /\ IsData(c) = k /\ Index(c) < n
    BY DEF KindOf
  <2>2. Index(c) \in 0..(n - 1)
    BY <2>1, ChunkIs
  <2>3. f[Index(c)] = c
    <3>1. CASE k
      <4>1. c = <<s, <<"data", Index(c)>>>>
        BY <2>1, <3>1, ChunkIs
      <4> QED
        BY <2>2, <3>1, <4>1
    <3>2. CASE ~k
      <4>1. c = <<s, <<"parity", Index(c)>>>>
        BY <2>1, <3>2, ChunkIs
      <4> QED
        BY <2>2, <3>2, <4>1
    <3> QED
      BY <3>1, <3>2
  <2> QED
    BY <2>2, <2>3
<1>3. f = [i \in 0..(n - 1) |-> f[i]]
  OBVIOUS
<1> HIDE DEF f, S
<1>4. f \in [0..(n - 1) -> S]
  BY <1>1, <1>3
<1>5. \A i, j \in 0..(n - 1) : f[i] = f[j] => i = j
  BY <1>1
<1>6. Cardinality(S) = n
  BY <1>2, <1>4, <1>5, CountIs
<1> QED
  BY <1>6 DEF S

LEMMA ShapedStripes ==
    ASSUME Typed, Slotted
    PROVE  StripeShape
<1> SUFFICES ASSUME adding = Nil, NEW s \in Stripes
             PROVE  /\ Slots(s) = {c \in Chunk : StripeOf(c) = s /\ row[c].st \in {"reserved", "written"}
                                                 /\ Index(c) < (IF IsData(c) THEN pool.ds ELSE pool.ps)}
                    /\ Cardinality(Slots(s)) = pool.ds + pool.ps
  BY DEF StripeShape
<1>1. s \in Stripe
  BY DEF Stripes
<1>2. pool.ds \in DS..(DS + MaxAdd) /\ pool.ps \in PS..(PS + MaxAdd)
  BY DEF Typed, AdminTyped, PoolRow
<1>3. pool.ds \in Nat /\ pool.ps \in Nat /\ pool.ds <= DS + MaxAdd /\ pool.ps <= PS + MaxAdd
  BY <1>2, Shapes
<1>4. \A c \in Chunk : Width(c) = IF IsData(c) THEN pool.ds ELSE pool.ps
  BY SliceIs DEF Width
<1>5. \A c \in Chunk : StripeOf(c) = s =>
        /\ row[c].st # "none" <=> Index(c) < (IF IsData(c) THEN pool.ds ELSE pool.ps)
        /\ row[c].st # "none" <=> row[c].st \in {"reserved", "written"}
  <2>1. \A c \in Chunk : row[c].st \in {"none", "reserved", "written", "double"}
    BY RowIs DEF Typed, ChunksTyped
  <2> QED
    BY <1>4, <2>1 DEF Slotted
<1> DEFINE D == {c \in KindOf(s, TRUE) : Index(c) < pool.ds}
           P == {c \in KindOf(s, FALSE) : Index(c) < pool.ps}
<1>6. Slots(s) = D \cup P
  BY <1>5, ChunkIs DEF Slots, KindOf
<1>7. D \cap P = {} /\ D \subseteq Chunk /\ P \subseteq Chunk
  BY DEF KindOf
<1>8. Cardinality(D) = pool.ds /\ Cardinality(P) = pool.ps
  BY <1>1, <1>3, KindCount
<1>9. IsFiniteSet(D) /\ IsFiniteSet(P)
  BY <1>7, ChunkFinite
<1> HIDE DEF D, P
<1>10. Cardinality(D \cup P) = Cardinality(D) + Cardinality(P) - Cardinality(D \cap P)
  BY <1>9, FS_Union
<1>11. Cardinality(D \cap P) = 0
  BY <1>7, FS_EmptySet
<1>12. Cardinality(Slots(s)) = pool.ds + pool.ps
  BY <1>3, <1>6, <1>8, <1>10, <1>11
<1> QED
  BY <1>5, <1>12 DEF Slots

(* Every stripe has one slot for each shard of the pool once AddDisk is    *)
(* through.  Requests that looked at the pool before it, a worker that     *)
(* loaded its rows before it, jobs, losses and faults do not matter; left  *)
(* out are a stripe made with another shape than those that createChunks   *)
(* lists, and a process that ends between the halves of AddDisk.           *)
THEOREM StripesKeepShape ==
    ASSUME "split" \notin Overlaps
    PROVE  Spec => []StripeShape
<1>1. Init => Typed /\ Slotted /\ faults \in Nat
  BY InitTyped, InitSlotted, FaultsCount
<1>2. Typed /\ Slotted /\ faults \in Nat /\ [Next]_vars => (Typed /\ Slotted /\ faults \in Nat)'
  <2> SUFFICES ASSUME Typed, Slotted, faults \in Nat, [Next]_vars
               PROVE  Typed' /\ Slotted' /\ faults' \in Nat
    OBVIOUS
  <2>1. faults' \in Nat
    BY FaultsCount
  <2>2. CASE Next
    <3>1. Unsplit
      BY <2>2 DEF Next, AllowedStep, Unsplit
    <3> QED
      BY <2>1, <2>2, <3>1, NextTyped, NextSlotted
  <2>3. CASE UNCHANGED vars
    BY <2>1, <2>3, StutterTyped, StutterSlotted
  <2> QED
    BY <2>2, <2>3
<1>3. Typed /\ Slotted /\ faults \in Nat => StripeShape
  BY ShapedStripes
<1> QED
  BY <1>1, <1>2, <1>3, PTL DEF Spec
-----------------------------------------------------------------------------
(* Disks added between requests only: nobody works with an old shape.      *)

GrowsAlone == adding # Nil => wk.pc = "idle" /\ \A w \in Writers : wr[w].pc = "idle"
Level ==
    /\ GrowsAlone
    /\ \A w \in Writers : wr[w].pc = "checked" => wr[w].ds = pool.ds /\ wr[w].ps \in {pool.ps, Nil}
    /\ wk.pc \in {"work", "compute"} => wk.meta.ds = pool.ds /\ wk.meta.ps = pool.ps

LEMMA ShapedIs == Shaped <=> Slotted /\ Level
  BY DEF Shaped, Slotted, Level, GrowsAlone

(* A step that leaves the shape of the pool alone.                         *)
LEMMA LevelFrame ==
    ASSUME Level, GrowsAlone', pool'.ds = pool.ds, pool'.ps = pool.ps,
           \A w \in Writers : wr'[w].pc = "checked" => wr'[w] = wr[w]
                                \/ (wr'[w].ds = pool.ds /\ wr'[w].ps \in {pool.ps, Nil}),
           wk'.pc \in {"work", "compute"} => (wk.pc \in {"work", "compute"} /\ wk'.meta = wk.meta)
                \/ (wk'.meta.ds = pool.ds /\ wk'.meta.ps = pool.ps)
    PROVE  Level'
  BY DEF Level

LEMMA RequestLevel ==
    ASSUME Typed, Level, GrowsAlone', Request
    PROVE  Level'
<1> DEFINE SamePool == pool'.ds = pool.ds /\ pool'.ps = pool.ps
           Others(w) == \A v \in Writers \ {w} : wr'[v] = wr[v]
<1>1. ASSUME NEW w \in Writers, CheckPool(w) PROVE Level'
  <2>1. SamePool /\ wk' = wk
    BY <1>1 DEF CheckPool, tables
  <2> QED
    BY <1>1, <2>1, CheckPoolTyped, LevelFrame
<1>2. ASSUME NEW w \in Writers, SamePool, wk' = wk, wr'[w].pc # "checked", Others(w) PROVE Level'
  BY <1>2, LevelFrame
<1>3. ASSUME NEW w \in Writers, NEW c \in Chunk, Reuse(w, c) PROVE Level'
  <2>1. SamePool /\ wk' = wk
    BY <1>3 DEF Reuse
  <2>2. wr'[w].pc = "allocated" /\ Others(w)
    BY <1>3, ReuseTyped
  <2> QED
    BY <1>2, <2>1, <2>2
<1>4. ASSUME NEW w \in Writers, NEW s \in Stripe, NewStripe(w, s) PROVE Level'
  <2>1. SamePool /\ wk' = wk
    BY <1>4 DEF NewStripe
  <2>2. wr'[w].pc = "allocated" /\ Others(w)
    BY <1>4, NewStripeTyped
  <2> QED
    BY <1>2, <2>1, <2>2
<1>5. ASSUME NEW w \in Writers, StoreSlice(w) PROVE Level'
  <2>1. SamePool /\ wk' = wk
    BY <1>5 DEF StoreSlice, tables
  <2> QED
    BY <1>2, <1>5, <2>1, StoreSliceTyped
<1>6. ASSUME NEW w \in Writers, FlushSlice(w) PROVE Level'
  <2>1. SamePool /\ wk' = wk
    BY <1>6 DEF FlushSlice
  <2> QED
    BY <1>2, <1>6, <2>1, FlushSliceTyped
<1>7. ASSUME SamePool, wk' = wk, wr' = wr PROVE Level'
  BY <1>7, LevelFrame
<1>8. ASSUME NEW c \in Chunk, Release(c) \/ ReadFails(c) PROVE Level'
  <2>1. SamePool /\ wk' = wk /\ wr' = wr
    BY <1>8 DEF Release, ReadFails
  <2> QED
    BY <1>7, <2>1
<1>9. ASSUME NEW d \in Disk, SwapDisk(d) PROVE Level'
  <2>1. wk' = wk /\ wr' = wr
    BY <1>9 DEF SwapDisk
  <2> QED
    BY <1>7, <1>9, <2>1, SwapDiskTyped
<1>10. ASSUME OfflinePool PROVE Level'
  <2>1. wk' = wk /\ wr' = wr
    BY <1>10 DEF OfflinePool
  <2> QED
    BY <1>7, <1>10, <2>1, OfflinePoolTyped
<1>11. ASSUME NEW t \in Task, RebuildPool(t) PROVE Level'
  <2>1. SamePool /\ wk' = wk /\ wr' = wr
    BY <1>11 DEF RebuildPool
  <2> QED
    BY <1>7, <2>1
<1>12. ASSUME NEW k \in {"data", "parity"}, AddDisk(k) PROVE Level'
  <2>1. adding' # Nil
    BY <1>12, SliceIs DEF AddDisk
  <2>2. wk'.pc = "idle" /\ \A w \in Writers : wr'[w].pc = "idle"
    BY <2>1 DEF GrowsAlone
  <2> QED
    BY <2>2 DEF Level
<1>13. ASSUME AddSlots PROVE Level'
  <2>1. SamePool /\ wk' = wk /\ wr' = wr
    BY <1>13 DEF AddSlots
  <2> QED
    BY <1>7, <2>1
<1> QED
  BY <1>1, <1>3, <1>4, <1>5, <1>6, <1>8, <1>9, <1>10, <1>11, <1>12, <1>13 DEF Request

LEMMA WorkerLevel ==
    ASSUME Typed, Level, GrowsAlone', WorkerStep
    PROVE  Level'
<1> DEFINE SamePool == pool'.ds = pool.ds /\ pool'.ps = pool.ps
<1>1. wr' = wr
  BY DEF WorkerStep, ClaimRebuild, LoadMeta, Save, DropEntries, CountLeft, RebuildRead, RebuildWrite,
     VerifyDisks, DisksOnline, CountBad, PoolOnline, EndJob, ClaimParity, LoadRows, ComputeParity,
     CommitParity
<1>2. SamePool
  <2>1. CASE PoolOnline
    BY <2>1, PoolOnlineTyped
  <2>2. CASE ~PoolOnline
    <3>1. pool' = pool
      BY <2>2 DEF WorkerStep, ClaimRebuild, LoadMeta, Save, DropEntries, CountLeft, RebuildRead,
         RebuildWrite, VerifyDisks, DisksOnline, CountBad, EndJob, ClaimParity, LoadRows, ComputeParity,
         CommitParity, tables
    <3> QED
      BY <3>1
  <2> QED
    BY <2>1, <2>2
<1>3. wk'.pc \in {"work", "compute"} => (wk.pc \in {"work", "compute"} /\ wk'.meta = wk.meta)
                \/ (wk'.meta.ds = pool.ds /\ wk'.meta.ps = pool.ps)
  <2>1. CASE LoadMeta \/ LoadRows
    BY <2>1, LoadMetaTyped, LoadRowsTyped, MetaIs DEF Typed
  <2>2. ASSUME NEW s \in Stripe, RebuildRead(s) \/ RebuildWrite(s)
        PROVE  wk.pc = "work" /\ wk'.meta = wk.meta
    BY <2>2, RebuildReadTyped, RebuildWriteTyped
  <2>3. CASE ClaimRebuild \/ Save \/ DropEntries \/ CountLeft \/ CountBad
    BY <2>3, ClaimRebuildTyped, SaveTyped, DropEntriesTyped, CountsTyped
  <2>4. CASE VerifyDisks \/ DisksOnline \/ PoolOnline \/ EndJob
    BY <2>4, VerifyDisksTyped, DisksOnlineTyped, PoolOnlineTyped, EndJobTyped
  <2>5. CASE ClaimParity \/ ComputeParity \/ CommitParity
    BY <2>5, ClaimParityTyped, ComputeParityTyped, CommitParityTyped
  <2> QED
    BY <2>1, <2>2, <2>3, <2>4, <2>5 DEF WorkerStep
<1> QED
  BY <1>1, <1>2, <1>3, LevelFrame

LEMMA NextLevel ==
    ASSUME Typed, Level, GrowsAlone', Next
    PROVE  Level'
<1>1. ASSUME Request PROVE Level'
  BY <1>1, RequestLevel
<1>2. ASSUME WorkerStep PROVE Level'
  BY <1>2, WorkerLevel
<1>3. ASSUME StatementFails PROVE Level'
  <2>1. UNCHANGED <<pool, wr>> /\ wk'.pc \notin {"work", "compute"}
    BY <1>3, StatementFailsTyped DEF tables
  <2> QED
    BY <2>1, LevelFrame
<1>4. ASSUME Crash PROVE Level'
  <2>1. pool' = pool /\ wk'.pc = "idle" /\ \A w \in Writers : wr'[w].pc = "idle"
    BY <1>4, CrashTyped
  <2> QED
    BY <2>1 DEF Level
<1>5. ASSUME NEW s \in Stripe, RebuildFails(s) PROVE Level'
  <2>1. UNCHANGED <<pool, wr>>
    BY <1>5 DEF RebuildFails, tables
  <2>2. wk.pc = "work" /\ wk'.meta = wk.meta
    BY <1>5, RebuildFailsTyped
  <2> QED
    BY <2>1, <2>2, LevelFrame
<1>6. ASSUME NEW c \in Chunk, LoseFile(c) PROVE Level'
  <2>1. UNCHANGED <<pool, wk, wr>>
    BY <1>6 DEF LoseFile, tables
  <2> QED
    BY <2>1, LevelFrame
<1> QED
  BY <1>1, <1>2, <1>3, <1>4, <1>5, <1>6 DEF Next

LEMMA NextShape ==
    ASSUME Typed, Shaped, faults \in Nat, Next, "grow" \notin Overlaps
    PROVE  Shaped'
<1>1. Slotted /\ Level /\ GrowsAlone
  BY ShapedIs DEF Level
<1>2. GrowsAlone' /\ (faults' # faults => adding' = adding)
  BY DEF Next, Allowed, AllowedStep, GrowsAlone
<1>3. ASSUME NEW w \in Writers, NEW s \in Stripe, NewStripe(w, s) PROVE Fits(w)
  <2>1. wr[w].pc = "checked" /\ wr[w].ps # Nil
    BY <1>3 DEF NewStripe
  <2>2. wr[w].ds = pool.ds /\ wr[w].ps = pool.ps /\ adding = Nil
    BY <1>1, <2>1 DEF Level, GrowsAlone
  <2>3. pool.ds - 0 = pool.ds /\ pool.ps - 0 = pool.ps
    BY Shapes DEF Typed, AdminTyped, PoolRow
  <2> QED
    BY <2>2, <2>3, SliceIs DEF Fits
<1>4. Slotted'
  BY <1>1, <1>2, <1>3, NextSlotted DEF Unsplit
<1>5. Level'
  BY <1>1, <1>2, NextLevel
<1> QED
  BY <1>4, <1>5 DEF Shaped, Slotted, Level, GrowsAlone

LEMMA StutterShape ==
    ASSUME Shaped, UNCHANGED vars
    PROVE  Shaped'
<1>1. UNCHANGED <<pool, wk, wr, adding>>
  BY DEF vars, tables
<1>2. Level'
  BY <1>1, ShapedIs DEF Level, GrowsAlone
<1>3. Slotted'
  BY ShapedIs, StutterSlotted
<1> QED
  BY <1>2, <1>3 DEF Shaped, Slotted, Level, GrowsAlone

LEMMA InitShape ==
    ASSUME Init
    PROVE  Shaped
<1>1. adding = Nil /\ wk = NoBatch /\ wr = [w \in Writers |-> Idle]
  BY DEF Init
<1>2. Level
  BY <1>1, IdleIs, NoBatchRec DEF Level, GrowsAlone
<1> QED
  BY <1>2, InitSlotted, ShapedIs
-----------------------------------------------------------------------------
(* What holds of the data: what a step may change without harm.            *)

SameSlots == \A w \in Writers : /\ wr'[w].slot = wr[w].slot
                                /\ wr[w].slot # Nil => wr'[w].val = wr[w].val
SameRow(c) == /\ row'[c].st = "written" <=> row[c].st = "written"
              /\ row'[c].hash = row[c].hash

LEMMA HeldFile ==
    ASSUME Typed, Held, NEW c \in Chunk, IsData(c), Written(c)
    PROVE  file[c] \in {row[c].hash, Nil}
<1>1. CASE \E w \in Writers : wr[w].slot = c
  <2>1. PICK w \in Writers : wr[w].slot = c
    BY <1>1
  <2>2. wr[w].slot # Nil
    BY <2>1, SliceIs
  <2> QED
    BY <2>1, <2>2 DEF Held, HeldOnce
<1>2. CASE \A w \in Writers : wr[w].slot # c
  <2>1. want[c] # Nil
    BY <1>2 DEF Held, WantedElse
  <2> QED
    BY <2>1 DEF Held, Wanted
<1> QED
  BY <1>1, <1>2

LEMMA HeldFrame ==
    ASSUME Typed, Held, want' = want, SameSlots,
           \A c \in Chunk : IsData(c) => /\ SameRow(c)
                                         /\ \/ file'[c] \in {file[c], Nil}
                                            \/ Written(c) /\ file'[c] = row[c].hash
    PROVE  Held'
<1>1. HeldOnce'
  <2> SUFFICES ASSUME NEW w \in Writers, wr'[w].slot # Nil
               PROVE  LET c == wr'[w].slot IN
                      /\ row'[c].st = "written" /\ row'[c].hash = wr'[w].val /\ want'[c] = Nil
                      /\ file'[c] \in {wr'[w].val, Nil}
                      /\ \A v \in Writers \ {w} : wr'[v].slot # c
    BY DEF HeldOnce, Written
  <2> DEFINE c == wr[w].slot
  <2>1. wr'[w].slot = c /\ c # Nil /\ wr'[w].val = wr[w].val
    BY DEF SameSlots
  <2>2. c \in Chunk /\ IsData(c)
    BY <2>1, WriterIs DEF Typed
  <2>3. /\ row[c].st = "written" /\ row[c].hash = wr[w].val /\ want[c] = Nil
        /\ file[c] \in {wr[w].val, Nil}
        /\ \A v \in Writers \ {w} : wr[v].slot # c
    BY <2>1 DEF Held, HeldOnce, Written
  <2>4. SameRow(c) /\ (file'[c] \in {file[c], Nil} \/ file'[c] = row[c].hash)
    BY <2>2
  <2>5. \A v \in Writers \ {w} : wr'[v].slot # c
    BY <2>3 DEF SameSlots
  <2> HIDE DEF c
  <2> QED
    BY <2>1, <2>3, <2>4, <2>5 DEF SameRow
<1>2. WantedElse'
  <2> SUFFICES ASSUME NEW c \in Chunk, IsData(c), row'[c].st = "written",
                      \A w \in Writers : wr'[w].slot # c
               PROVE  want'[c] # Nil
    BY DEF WantedElse, Written
  <2>1. Written(c) /\ \A w \in Writers : wr[w].slot # c
    BY DEF SameSlots, SameRow, Written
  <2> QED
    BY <2>1 DEF Held, WantedElse
<1>3. Wanted'
  <2> SUFFICES ASSUME NEW c \in Chunk, want'[c] # Nil
               PROVE  /\ IsData(c) /\ row'[c].st = "written" /\ row'[c].hash = want'[c]
                      /\ file'[c] \in {want'[c], Nil}
    BY DEF Wanted, Written
  <2>1. /\ IsData(c) /\ row[c].st = "written" /\ row[c].hash = want[c]
        /\ file[c] \in {want[c], Nil}
    BY DEF Held, Wanted, Written
  <2> QED
    BY <2>1 DEF SameRow
<1>4. Bare'
  BY DEF Held, Bare, SameRow, Written
<1> QED
  BY <1>1, <1>2, <1>3, <1>4 DEF Held

LEMMA StaleIs ==
    ASSUME SameSlots, NEW s
    PROVE  /\ pend' \cup run' = pend \cup run => (StaleParity(s)' <=> StaleParity(s))
           /\ pend \cup run \subseteq pend' \cup run' => (StaleParity(s) => StaleParity(s)')
           /\ pend \subseteq pend' => (Dirty(s) => Dirty(s)')
<1>1. (\E w \in Writers : wr'[w].slot # Nil /\ StripeOf(wr'[w].slot) = s)
      <=> \E w \in Writers : wr[w].slot # Nil /\ StripeOf(wr[w].slot) = s
  BY DEF SameSlots
<1> QED
  BY <1>1 DEF StaleParity, Dirty, Filling

LEMMA VecSame ==
    ASSUME NEW s \in Stripe, NEW k \in DS..(DS + MaxAdd),
           \A c \in Chunk : StripeOf(c) = s /\ IsData(c) => SameRow(c)
    PROVE  Vec(s, k)' = Vec(s, k) /\ (Covers(s, k)' <=> Covers(s, k)) /\ (DataIn(s)' <=> DataIn(s))
<1>1. \A i \in 0..(DS + MaxAdd - 1) : /\ Slot(s, i) \in Chunk
                                     /\ StripeOf(Slot(s, i)) = s /\ IsData(Slot(s, i))
  <2>1. \A i \in 0..(DS + MaxAdd - 1) : i \in Nat /\ i < DS + MaxAdd
    BY Shapes
  <2> QED
    BY <2>1, SlotIs
<1>2. k \in Nat /\ k <= DS + MaxAdd
  BY Shapes
<1>3. \A i \in 0..(k - 1) : i \in 0..(DS + MaxAdd - 1)
  BY <1>2, Shapes
<1>4. \A i \in k..(DS + MaxAdd - 1) : i \in 0..(DS + MaxAdd - 1)
  BY <1>2, Shapes
<1>5. \A i \in 0..(DS + MaxAdd - 1) : SameRow(Slot(s, i))
  BY <1>1
<1>6. Vec(s, k)' = Vec(s, k)
  BY <1>3, <1>5 DEF Vec, SameRow, Written
<1>7. Covers(s, k)' <=> Covers(s, k)
  BY <1>4, <1>5 DEF Covers, SameRow, Written
<1>8. DataIn(s)' <=> DataIn(s)
  BY DEF DataIn, SameRow, Written
<1> QED
  BY <1>6, <1>7, <1>8

LEMMA CodedFrame ==
    ASSUME Typed, Typed', Coded, pool'.ds >= pool.ds,
           \A c \in Chunk : SameRow(c),
           \A p \in Chunk : ~IsData(p) /\ Written(p) /\ ~StaleParity(StripeOf(p))
                            => file'[p] \in {file[p], row[p].hash, Nil},
           \A s \in Stripe : StaleParity(s) => StaleParity(s)'
    PROVE  Coded'
<1>1. pool.ds \in DS..(DS + MaxAdd) /\ pool'.ds \in DS..(DS + MaxAdd)
  BY DEF Typed, AdminTyped, PoolRow
<1>2. \A k \in DS..pool.ds : k \in DS..pool'.ds /\ k \in DS..(DS + MaxAdd)
  BY <1>1, Shapes
<1>3. Narrow'
  BY <1>2 DEF Coded, Narrow, SameRow, Written
<1>4. Fresh'
  <2> SUFFICES ASSUME NEW s \in Stripe, ~StaleParity(s)', NEW p \in Chunk, StripeOf(p) = s, ~IsData(p),
                      Written(p)'
               PROVE  Encodes(s, row[p].hash, file[p])'
    BY DEF Fresh, ParityOf
  <2>1. ~StaleParity(s) /\ Written(p) /\ row'[p].hash = row[p].hash
    BY DEF SameRow, Written
  <2>2. Encodes(s, row[p].hash, file[p])
    BY <2>1 DEF Coded, Fresh, ParityOf
  <2>3. PICK k \in DS..pool.ds : row[p].hash = Vec(s, k) /\ Covers(s, k)
    BY <2>2 DEF Encodes
  <2>4. k \in DS..pool'.ds /\ Vec(s, k)' = Vec(s, k) /\ Covers(s, k)'
    BY <1>2, <2>3, VecSame
  <2>5. row'[p].hash = Vec(s, k)'
    BY <2>1, <2>3, <2>4
  <2>6. file'[p] \in {row'[p].hash, Nil}
    BY <2>1, <2>2 DEF Encodes
  <2> QED
    BY <2>4, <2>5, <2>6 DEF Encodes
<1>5. ParityHasData'
  <2> SUFFICES ASSUME NEW s \in Stripe, NEW p \in ParityOf(s), Written(p)'
               PROVE  DataIn(s)'
    BY DEF ParityHasData, ParityOf
  <2>1. Written(p)
    BY DEF SameRow, Written, ParityOf
  <2>2. DataIn(s)
    BY <2>1 DEF Coded, ParityHasData
  <2>3. DS \in DS..(DS + MaxAdd)
    BY Shapes, RebuildAssumption
  <2> QED
    BY <2>2, <2>3, VecSame
<1> QED
  BY <1>3, <1>4, <1>5 DEF Coded

(* ... and of the worker's batch.                                          *)
LEMMA NoRebuild ==
    ASSUME wk'.pc \notin {"load", "work"}
    PROVE  RebuildBatch'
  BY DEF RebuildBatch

LEMMA NoParity ==
    ASSUME wk'.pc \notin {"rows", "compute", "commit"}
    PROVE  ParityBatch'
  BY DEF ParityBatch

LEMMA RebuildStill ==
    ASSUME Typed, RebuildBatch, wk' = wk, rrun' = rrun,
           wk.pc = "work" =>
             /\ pool'.ds = pool.ds
             /\ \A s \in BatchOf : StaleParity(s)' <=> StaleParity(s)
             /\ \A c \in Chunk : StripeOf(c) \in BatchOf =>
                    /\ row'[c] = row[c] /\ file'[c] \in {file[c], Nil}
                    /\ Loc(c)' = Loc(c) \/ file'[c] = Nil
    PROVE  RebuildBatch'
<1>1. wk'.pc \in {"load", "work"} => wk'.ents \subseteq rrun'
  BY DEF RebuildBatch
<1>2. ASSUME wk.pc = "work"
      PROVE  /\ wk'.todo \subseteq BatchOf'
             /\ \A c \in Chunk : StripeOf(c) \in BatchOf' =>
                  /\ wk'.meta.row[c] = row'[c]
                  /\ Written(c)' /\ ~Current(c)' => file'[c] = Nil
             /\ \A c \in DOMAIN wk'.fix :
                  /\ StripeOf(c) \in BatchOf' /\ Written(c)'
                  /\ IsData(c) => wk'.fix[c] = row'[c].hash
                  /\ ~IsData(c) => /\ DOMAIN wk'.fix[c] = 0..(pool'.ds - 1)
                                   /\ ~StaleParity(StripeOf(c))' => wk'.fix[c] = row'[c].hash
  <2>1. BatchOf' = BatchOf
    BY DEF BatchOf
  <2>2. wk'.todo \subseteq BatchOf'
    BY <1>2, <2>1 DEF RebuildBatch
  <2>3. ASSUME NEW c \in Chunk, StripeOf(c) \in BatchOf
        PROVE  wk'.meta.row[c] = row'[c] /\ (Written(c)' /\ ~Current(c)' => file'[c] = Nil)
    <3>1. wk.meta.row[c] = row[c] /\ (Written(c) /\ ~Current(c) => file[c] = Nil)
      BY <1>2, <2>3 DEF RebuildBatch
    <3>2. row'[c] = row[c] /\ file'[c] \in {file[c], Nil} /\ (Loc(c)' = Loc(c) \/ file'[c] = Nil)
      BY <1>2, <2>3
    <3> QED
      BY <3>1, <3>2 DEF Written, Current
  <2>4. ASSUME NEW c \in DOMAIN wk.fix
        PROVE  /\ StripeOf(c) \in BatchOf /\ Written(c)'
               /\ IsData(c) => wk.fix[c] = row'[c].hash
               /\ ~IsData(c) => /\ DOMAIN wk.fix[c] = 0..(pool'.ds - 1)
                                /\ ~StaleParity(StripeOf(c))' => wk.fix[c] = row'[c].hash
    <3>1. c \in Chunk
      BY WorkerParts DEF Typed
    <3>2. /\ StripeOf(c) \in BatchOf /\ Written(c)
          /\ IsData(c) => wk.fix[c] = row[c].hash
          /\ ~IsData(c) => /\ DOMAIN wk.fix[c] = 0..(pool.ds - 1)
                           /\ ~StaleParity(StripeOf(c)) => wk.fix[c] = row[c].hash
      BY <1>2 DEF RebuildBatch
    <3>3. row'[c] = row[c] /\ (StaleParity(StripeOf(c))' <=> StaleParity(StripeOf(c))) /\ pool'.ds = pool.ds
      BY <1>2, <3>1, <3>2
    <3> QED
      BY <3>2, <3>3 DEF Written
  <2> QED
    BY <2>1, <2>2, <2>3, <2>4
<1> QED
  BY <1>1, <1>2 DEF RebuildBatch

LEMMA ParityStill ==
    ASSUME Typed, ParityBatch, wk' = wk, run' = run,
           wk.pc \in {"compute", "commit"} =>
             /\ pool'.ds = pool.ds
             /\ \A s \in run :
                  /\ Dirty(s) => Dirty(s)'
                  /\ \A c \in Chunk : StripeOf(c) = s =>
                        /\ IsData(c) /\ Written(c) => Written(c)'
                        /\ \/ Dirty(s)'
                           \/ /\ row'[c] = row[c] /\ file'[c] \in {file[c], Nil}
                              /\ Loc(c)' = Loc(c) \/ (~Written(c) /\ file'[c] = Nil)
    PROVE  ParityBatch'
<1>1. wk'.pc \in {"rows", "compute"} => wk'.todo = run'
  BY DEF ParityBatch
<1>2. ASSUME wk.pc = "compute", NEW s \in run, NEW c \in Chunk, StripeOf(c) = s
      PROVE  /\ IsData(c) /\ wk'.meta.row[c].st = "written" => Written(c)'
             /\ Dirty(s)' \/ /\ wk'.meta.row[c] = row'[c]
                             /\ Current(c)' \/ (~Written(c)' /\ file'[c] = Nil)
  <2>1. /\ IsData(c) /\ wk.meta.row[c].st = "written" => Written(c)
        /\ Dirty(s) \/ /\ wk.meta.row[c] = row[c]
                       /\ Current(c) \/ (~Written(c) /\ file[c] = Nil)
    BY <1>2 DEF ParityBatch
  <2>2. /\ Dirty(s) => Dirty(s)'
        /\ IsData(c) /\ Written(c) => Written(c)'
        /\ \/ Dirty(s)'
           \/ /\ row'[c] = row[c] /\ file'[c] \in {file[c], Nil}
              /\ Loc(c)' = Loc(c) \/ (~Written(c) /\ file'[c] = Nil)
    BY <1>2
  <2>3. CASE Dirty(s)'
    BY <2>1, <2>2, <2>3
  <2>4. CASE ~Dirty(s)'
    <3>1. /\ row'[c] = row[c] /\ file'[c] \in {file[c], Nil}
          /\ Loc(c)' = Loc(c) \/ (~Written(c) /\ file'[c] = Nil)
          /\ wk.meta.row[c] = row[c]
          /\ Current(c) \/ (~Written(c) /\ file[c] = Nil)
      BY <2>1, <2>2, <2>4
    <3>2. Current(c)' \/ (~Written(c)' /\ file'[c] = Nil)
      BY <3>1 DEF Written, Current
    <3> QED
      BY <2>1, <2>2, <3>1, <3>2
  <2> QED
    BY <2>3, <2>4
<1>3. ASSUME wk.pc = "commit"
      PROVE  /\ \A p \in DOMAIN wk'.fix : /\ ~IsData(p) /\ StripeOf(p) \in run' /\ DataIn(StripeOf(p))'
                                          /\ DOMAIN wk'.fix[p] = 0..(pool'.ds - 1)
             /\ \A s \in run' : Dirty(s)' \/ ~DataIn(s)'
                    \/ \A p \in ParityOf(s) : row'[p].st # "none" =>
                            /\ p \in DOMAIN wk'.fix /\ wk'.fix[p] = Vec(s, pool.ds)'
                            /\ file'[p] \in {wk'.fix[p], Nil}
  <2>1. \A s \in run : DataIn(s) => DataIn(s)'
    <3> SUFFICES ASSUME NEW s \in run, NEW c \in Chunk, StripeOf(c) = s, IsData(c), Written(c)
                 PROVE  DataIn(s)'
      BY DEF DataIn
    <3>1. Written(c)'
      BY <1>3
    <3> QED
      BY <3>1 DEF DataIn
  <2>2. ASSUME NEW p \in DOMAIN wk.fix
        PROVE  /\ ~IsData(p) /\ StripeOf(p) \in run /\ DataIn(StripeOf(p))'
               /\ DOMAIN wk.fix[p] = 0..(pool'.ds - 1)
    <3>1. /\ ~IsData(p) /\ StripeOf(p) \in run /\ DataIn(StripeOf(p))
          /\ DOMAIN wk.fix[p] = 0..(pool.ds - 1)
      BY <1>3 DEF ParityBatch
    <3> QED
      BY <1>3, <2>1, <3>1
  <2>3. ASSUME NEW s \in run, ~Dirty(s)', DataIn(s)', NEW p \in ParityOf(s), row'[p].st # "none"
        PROVE  /\ p \in DOMAIN wk.fix /\ wk.fix[p] = Vec(s, pool.ds)'
               /\ file'[p] \in {wk.fix[p], Nil}
    <3>1. ~Dirty(s) /\ pool'.ds = pool.ds
      BY <1>3, <2>3
    <3>2. \A c \in Chunk : StripeOf(c) = s => row'[c] = row[c] /\ file'[c] \in {file[c], Nil}
      BY <1>3, <2>3
    <3>3. s \in Stripe /\ pool.ds \in DS..(DS + MaxAdd)
      BY DEF Typed, QueuesTyped, AdminTyped, PoolRow
    <3>4. \A c \in Chunk : StripeOf(c) = s /\ IsData(c) => SameRow(c)
      BY <3>2 DEF SameRow
    <3>5. \A k \in DS..(DS + MaxAdd) : Vec(s, k)' = Vec(s, k) /\ (DataIn(s)' <=> DataIn(s))
      BY <3>3, <3>4, VecSame
    <3>6. DataIn(s)
      BY <2>3, <3>3, <3>5
    <3>7. p \in Chunk /\ StripeOf(p) = s /\ row[p].st # "none"
      BY <2>3, <3>2 DEF ParityOf
    <3>8. p \in DOMAIN wk.fix /\ wk.fix[p] = Vec(s, pool.ds) /\ file[p] \in {wk.fix[p], Nil}
      BY <1>3, <3>1, <3>6, <3>7 DEF ParityBatch
    <3>9. Vec(s, pool.ds)' = Vec(s, pool.ds)
      BY <3>1, <3>3, <3>5 DEF Vec
    <3> QED
      BY <3>2, <3>7, <3>8, <3>9
  <2> QED
    BY <2>2, <2>3 DEF ParityOf
<1> QED
  BY <1>1, <1>2, <1>3 DEF ParityBatch
-----------------------------------------------------------------------------
(* What holds of the data: requests.                                       *)

LEMMA QuietKept ==
    ASSUME Typed, Typed', Kept, UNCHANGED <<row, file, want, pend, run, rrun, wk>>, SameSlots,
           pool'.ds = pool.ds, \A c \in Chunk : Loc(c)' = Loc(c)
    PROVE  Kept'
<1>0. Held /\ Coded /\ RebuildBatch /\ ParityBatch
  BY DEF Kept
<1>1. \A c \in Chunk : SameRow(c)
  BY DEF SameRow
<1>2. \A s : (StaleParity(s)' <=> StaleParity(s)) /\ (Dirty(s) => Dirty(s)')
  BY StaleIs
<1>3. Held'
  BY <1>0, <1>1, HeldFrame
<1>4. pool'.ds >= pool.ds
  <2>1. pool.ds \in DS..(DS + MaxAdd)
    BY DEF Typed, AdminTyped, PoolRow
  <2> QED
    BY <2>1, Shapes
<1>5. Coded'
  BY <1>0, <1>1, <1>2, <1>4, CodedFrame
<1>6. RebuildBatch'
  BY <1>0, <1>2, RebuildStill
<1>7. ParityBatch'
  BY <1>0, <1>2, ParityStill DEF Written
<1> QED
  BY <1>3, <1>5, <1>6, <1>7 DEF Kept

(* A stripe that is being rebuilt is queued, so no request fills it.       *)
Undisturbed == \A s \in Stripe : ~(Queued(s) /\ \E w \in Writers : Filling(w, s))

LEMMA BatchQueued ==
    ASSUME Typed, RebuildBatch, wk.pc \in {"load", "work"}, NEW s \in BatchOf
    PROVE  Queued(s) /\ s \in Stripe
<1>1. PICK e \in wk.ents : e[1] = s
  BY DEF BatchOf
<1>2. e \in rrun /\ e \in Entry
  BY <1>1, WorkerParts DEF RebuildBatch, Typed
<1> QED
  BY <1>1, <1>2, EntryIs DEF Queued

(* A request takes a slot that is not written.                             *)
LEMMA TakeKept ==
    ASSUME Typed, Typed', Kept, Undisturbed', NEW w \in Writers, NEW c \in Chunk, IsData(c), ~Written(c),
           UNCHANGED <<pool, disk, pend, run, rpend, rrun, file, want, wk>>,
           wr[w].slot = Nil, wr'[w].slot = c, \A v \in Writers \ {w} : wr'[v] = wr[v],
           row'[c].st = "written", row'[c].hash = wr'[w].val,
           \A d \in Chunk \ {c} : SameRow(d) /\ (StripeOf(d) # StripeOf(c) => row'[d] = row[d])
    PROVE  Kept'
<1>0. Held /\ Coded /\ RebuildBatch /\ ParityBatch
  BY DEF Kept
<1>1. c # Nil /\ wr'[w].slot # Nil
  BY SliceIs
<1>2. want[c] = Nil /\ file[c] = Nil
  BY <1>0 DEF Held, Wanted, Bare
<1>3. \A v \in Writers : wr[v].slot # c
  BY <1>0, <1>1 DEF Held, HeldOnce
<1>4. HeldOnce'
  <2> SUFFICES ASSUME NEW v \in Writers, wr'[v].slot # Nil
               PROVE  LET d == wr'[v].slot IN
                      /\ row'[d].st = "written" /\ row'[d].hash = wr'[v].val /\ want[d] = Nil
                      /\ file[d] \in {wr'[v].val, Nil}
                      /\ \A u \in Writers \ {v} : wr'[u].slot # d
    BY DEF HeldOnce, Written
  <2>1. CASE v = w
    <3>1. \A u \in Writers \ {v} : wr'[u].slot # c
      BY <1>3, <2>1
    <3> QED
      BY <1>2, <2>1, <3>1
  <2>2. CASE v # w
    <3> DEFINE d == wr[v].slot
    <3>1. wr'[v] = wr[v] /\ d # Nil
      BY <2>2
    <3>2. d \in Chunk /\ d # c
      BY <1>3, <3>1, WriterIs DEF Typed
    <3>3. /\ row[d].st = "written" /\ row[d].hash = wr[v].val /\ want[d] = Nil
          /\ file[d] \in {wr[v].val, Nil}
          /\ \A u \in Writers \ {v} : wr[u].slot # d
      BY <1>0, <3>1 DEF Held, HeldOnce, Written
    <3>4. \A u \in Writers \ {v} : wr'[u].slot # d
      BY <3>2, <3>3
    <3>5. SameRow(d)
      BY <3>2
    <3> HIDE DEF d
    <3>6. wr'[v].slot = d
      BY <3>1 DEF d
    <3> QED
      BY <3>1, <3>3, <3>4, <3>5, <3>6 DEF SameRow
  <2> QED
    BY <2>1, <2>2
<1>5. WantedElse'
  <2> SUFFICES ASSUME NEW d \in Chunk, IsData(d), row'[d].st = "written",
                      \A v \in Writers : wr'[v].slot # d
               PROVE  want[d] # Nil
    BY DEF WantedElse, Written
  <2>1. d # c /\ d # Nil
    BY SliceIs
  <2>2. Written(d)
    BY <2>1 DEF SameRow, Written
  <2>3. \A v \in Writers : wr[v].slot # d
    BY <2>1
  <2> QED
    BY <1>0, <2>2, <2>3 DEF Held, WantedElse
<1>6. Wanted'
  <2> SUFFICES ASSUME NEW d \in Chunk, want[d] # Nil
               PROVE  /\ IsData(d) /\ row'[d].st = "written" /\ row'[d].hash = want[d]
                      /\ file[d] \in {want[d], Nil}
    BY DEF Wanted, Written
  <2>1. d # c
    BY <1>2
  <2>2. IsData(d) /\ row[d].st = "written" /\ row[d].hash = want[d] /\ file[d] \in {want[d], Nil}
    BY <1>0 DEF Held, Wanted, Written
  <2> QED
    BY <2>1, <2>2 DEF SameRow
<1>7. Bare'
  BY <1>0 DEF Held, Bare, SameRow, Written
<1>8. \A v \in Writers : \A s : (Filling(v, s)' <=> Filling(v, s)) \/ (v = w /\ s = StripeOf(c))
  BY <1>1 DEF Filling
<1>9. Filling(w, StripeOf(c))' /\ ~Filling(w, StripeOf(c)) /\ StripeOf(c) \in Stripe
  BY <1>1, ChunkIs DEF Filling
<1>10. StaleParity(StripeOf(c))' /\ Dirty(StripeOf(c))'
  BY <1>9 DEF StaleParity, Dirty
<1>11. \A s : s # StripeOf(c) => (StaleParity(s)' <=> StaleParity(s)) /\ (Dirty(s)' <=> Dirty(s))
  BY <1>8 DEF StaleParity, Dirty
<1>12. Coded'
  <2>1. Narrow'
    <3>1. \A p \in Chunk : ~IsData(p) /\ Written(p)' => Written(p) /\ row'[p].hash = row[p].hash
      BY DEF SameRow, Written
    <3> QED
      BY <1>0, <3>1 DEF Coded, Narrow
  <2>2. Fresh'
    <3> SUFFICES ASSUME NEW s \in Stripe, ~StaleParity(s)', NEW p \in Chunk, StripeOf(p) = s, ~IsData(p),
                        Written(p)'
                 PROVE  Encodes(s, row[p].hash, file[p])'
      BY DEF Fresh, ParityOf
    <3>1. s # StripeOf(c) /\ ~StaleParity(s)
      BY <1>10, <1>11
    <3>2. \A d \in Chunk : StripeOf(d) = s => row'[d] = row[d]
      BY <3>1
    <3>3. Encodes(s, row[p].hash, file[p])
      BY <1>0, <3>1, <3>2 DEF Coded, Fresh, ParityOf, Written
    <3>4. PICK k \in DS..pool.ds : row[p].hash = Vec(s, k) /\ Covers(s, k)
      BY <3>3 DEF Encodes
    <3>5. pool.ds \in DS..(DS + MaxAdd) /\ pool'.ds = pool.ds
      BY DEF Typed, AdminTyped, PoolRow
    <3>6. k \in DS..(DS + MaxAdd)
      BY <3>5, Shapes
    <3>7. Vec(s, k)' = Vec(s, k) /\ Covers(s, k)'
      BY <3>2, <3>4, <3>6, VecSame DEF SameRow
    <3>8. row'[p].hash = Vec(s, k)' /\ file'[p] \in {row'[p].hash, Nil}
      BY <3>2, <3>3, <3>4, <3>7 DEF Encodes
    <3> QED
      BY <3>4, <3>5, <3>7, <3>8 DEF Encodes
  <2>3. ParityHasData'
    <3> SUFFICES ASSUME NEW s \in Stripe, NEW p \in ParityOf(s), Written(p)'
                 PROVE  DataIn(s)'
      BY DEF ParityHasData, ParityOf
    <3>1. p \in Chunk /\ ~IsData(p) /\ Written(p)
      BY DEF ParityOf, SameRow, Written
    <3>2. DataIn(s)
      BY <1>0, <3>1 DEF Coded, ParityHasData
    <3>3. \A d \in Chunk : Written(d) => Written(d)'
      BY DEF SameRow, Written
    <3> QED
      BY <3>2, <3>3 DEF DataIn
  <2> QED
    BY <2>1, <2>2, <2>3 DEF Coded
<1>13. \A d \in Chunk : StripeOf(d) # StripeOf(c) => Loc(d)' = Loc(d) /\ row'[d] = row[d]
  BY DEF Loc
<1>14. RebuildBatch'
  <2>1. ASSUME wk.pc = "work", NEW s \in BatchOf PROVE s # StripeOf(c)
    <3>1. Queued(s)
      BY <1>0, <2>1, BatchQueued
    <3>2. Queued(s)' /\ StripeOf(c) \in Stripe
      BY <1>9, <3>1 DEF Queued
    <3> QED
      BY <1>9, <3>2 DEF Undisturbed
  <2> QED
    BY <1>0, <1>11, <1>13, <2>1, RebuildStill
<1>15. ParityBatch'
  <2>1. \A s : Dirty(s) => Dirty(s)'
    BY <1>10, <1>11
  <2>2. \A d \in Chunk : Written(d) => Written(d)'
    BY DEF SameRow, Written
  <2> QED
    BY <1>0, <1>10, <1>13, <2>1, <2>2, ParityStill
<1> QED
  BY <1>4, <1>5, <1>6, <1>7, <1>12, <1>14, <1>15 DEF Kept, Held

LEMMA ReuseKept ==
    ASSUME Typed, Kept, Undisturbed', NEW w \in Writers, NEW c \in Chunk, Reuse(w, c)
    PROVE  Kept'
<1>1. /\ IsData(c) /\ ~Written(c)
      /\ UNCHANGED <<pool, disk, pend, run, rpend, rrun, file, want, wk>>
  BY DEF Reuse, Written
<1>2. /\ Typed' /\ wr'[w].slot = c /\ wr'[w].val = wr[w].val /\ wr[w].slot = Nil
      /\ \A v \in Writers \ {w} : wr'[v] = wr[v]
      /\ row'[c].st = "written" /\ row'[c].hash = wr'[w].val
      /\ \A d \in Chunk \ {c} : row'[d] = row[d]
  BY ReuseTyped
<1>3. \A d \in Chunk \ {c} : SameRow(d) /\ (StripeOf(d) # StripeOf(c) => row'[d] = row[d])
  BY <1>2 DEF SameRow
<1> QED
  BY <1>1, <1>2, <1>3, TakeKept

LEMMA NewStripeKept ==
    ASSUME Typed, Kept, Undisturbed', NEW w \in Writers, NEW s \in Stripe, NewStripe(w, s)
    PROVE  Kept'
<1> DEFINE c == Slot(s, 0)
<1>1. /\ UNCHANGED <<pool, disk, pend, run, rpend, rrun, file, want, wk>>
      /\ s \notin Stripes
  BY DEF NewStripe
<1>2. /\ Typed' /\ c \in Chunk /\ wr'[w].slot = c /\ wr'[w].val = wr[w].val /\ wr[w].slot = Nil
      /\ \A v \in Writers \ {w} : wr'[v] = wr[v]
      /\ row'[c] = [st |-> "written", hash |-> wr[w].val, gen |-> 0]
      /\ \A d \in Chunk \ {c} :
            row'[d] = IF StripeOf(d) = s /\ Index(d) < (IF IsData(d) THEN wr[w].ds ELSE wr[w].ps)
                      THEN [st |-> "reserved", hash |-> Nil, gen |-> 0] ELSE row[d]
  BY NewStripeTyped
<1>3. StripeOf(c) = s /\ IsData(c)
  BY SlotIs
<1> HIDE DEF c
<1>4. \A d \in Chunk : StripeOf(d) = s => row[d].st = "none" /\ row[d].hash = Nil
  <2>1. \A d \in Chunk : StripeOf(d) = s => row[d].st = "none"
    BY <1>1 DEF Stripes, Slots
  <2> QED
    BY <2>1, RowIs DEF Typed, ChunksTyped
<1>5. ~Written(c)
  BY <1>2, <1>3, <1>4 DEF Written
<1>6. ASSUME NEW d \in Chunk \ {c}
      PROVE  SameRow(d) /\ (StripeOf(d) # s => row'[d] = row[d])
  <2>1. CASE row'[d] = row[d]
    BY <2>1 DEF SameRow
  <2>2. CASE StripeOf(d) = s /\ row'[d] = [st |-> "reserved", hash |-> Nil, gen |-> 0]
    BY <1>4, <2>2 DEF SameRow
  <2> QED
    BY <1>2, <2>1, <2>2
<1>7. row'[c].st = "written" /\ row'[c].hash = wr'[w].val
  BY <1>2
<1> QED
  BY <1>1, <1>2, <1>3, <1>5, <1>6, <1>7, TakeKept

LEMMA StoreSliceKept ==
    ASSUME Typed, Kept, Undisturbed, NEW w \in Writers, StoreSlice(w)
    PROVE  Kept'
<1> DEFINE c == wr[w].slot
<1>0. Held /\ Coded /\ RebuildBatch /\ ParityBatch
  BY DEF Kept
<1>1. UNCHANGED <<pool, disk, row, pend, run, rpend, rrun, want, wk>>
  BY DEF StoreSlice, tables
<1>2. /\ Typed' /\ c \in Chunk /\ c # Nil /\ wr'[w].slot = c /\ wr'[w].val = wr[w].val
      /\ \A v \in Writers \ {w} : wr'[v] = wr[v]
      /\ file'[c] \in {wr[w].val, file[c]} /\ \A d \in Chunk \ {c} : file'[d] = file[d]
  BY StoreSliceTyped
<1>3. IsData(c) /\ Written(c) /\ row[c].hash = wr[w].val
  BY <1>0, <1>2, WriterIs DEF Held, HeldOnce, Typed
<1>4. SameSlots /\ \A d \in Chunk : SameRow(d)
  BY <1>1, <1>2 DEF SameSlots, SameRow
<1>5. \A s : (StaleParity(s)' <=> StaleParity(s)) /\ (Dirty(s) => Dirty(s)')
  BY <1>1, <1>4, StaleIs
<1>6. Filling(w, StripeOf(c)) /\ StripeOf(c) \in Stripe
  BY <1>2, ChunkIs DEF Filling
<1> HIDE DEF c
<1>7. Held'
  <2>1. \A d \in Chunk : file'[d] \in {file[d], Nil} \/ (Written(d) /\ file'[d] = row[d].hash)
    BY <1>2, <1>3
  <2> QED
    BY <1>0, <1>1, <1>4, <2>1, HeldFrame
<1>8. Coded'
  <2>1. pool'.ds >= pool.ds
    <3>1. pool.ds \in DS..(DS + MaxAdd)
      BY DEF Typed, AdminTyped, PoolRow
    <3> QED
      BY <1>1, <3>1, Shapes
  <2>2. \A p \in Chunk : ~IsData(p) => file'[p] = file[p]
    BY <1>2, <1>3
  <2> QED
    BY <1>0, <1>2, <1>4, <1>5, <2>1, <2>2, CodedFrame
<1>9. RebuildBatch'
  <2>1. ASSUME wk.pc = "work", NEW s \in BatchOf PROVE s # StripeOf(c)
    <3>1. Queued(s) /\ s \in Stripe
      BY <1>0, <2>1, BatchQueued
    <3> QED
      BY <1>6, <3>1 DEF Undisturbed
  <2>2. \A d \in Chunk : Loc(d)' = Loc(d)
    BY <1>1 DEF Loc
  <2> QED
    BY <1>0, <1>1, <1>2, <1>5, <2>1, <2>2, RebuildStill
<1>10. ParityBatch'
  <2>1. \A s : s = StripeOf(c) => Dirty(s)'
    <3>1. \A s : s = StripeOf(c) => Dirty(s)
      BY <1>6 DEF Dirty
    <3> QED
      BY <1>5, <3>1
  <2>2. \A d \in Chunk : Loc(d)' = Loc(d) /\ (Written(d) => Written(d)')
    BY <1>1 DEF Loc, Written
  <2>3. \A d \in Chunk : StripeOf(d) # StripeOf(c) => row'[d] = row[d] /\ file'[d] = file[d]
    BY <1>1, <1>2
  <2> QED
    BY <1>0, <1>1, <1>5, <2>1, <2>2, <2>3, ParityStill
<1> QED
  BY <1>7, <1>8, <1>9, <1>10 DEF Kept

LEMMA FlushSliceKept ==
    ASSUME Typed, Kept, NEW w \in Writers, FlushSlice(w)
    PROVE  Kept'
<1> DEFINE c == wr[w].slot
<1>0. Held /\ Coded /\ RebuildBatch /\ ParityBatch
  BY DEF Kept
<1>1. UNCHANGED <<pool, disk, row, run, rpend, rrun, file, wk>> /\ pend' = pend \cup {StripeOf(c)}
  BY DEF FlushSlice
<1>2. /\ Typed' /\ c \in Chunk /\ c # Nil /\ wr'[w].slot = Nil
      /\ \A v \in Writers \ {w} : wr'[v] = wr[v]
      /\ want'[c] = wr[w].val /\ wr[w].val \in Slice
      /\ \A d \in Chunk \ {c} : want'[d] = want[d]
  BY FlushSliceTyped
<1>3. /\ IsData(c) /\ Written(c) /\ row[c].hash = wr[w].val /\ file[c] \in {wr[w].val, Nil}
      /\ \A v \in Writers \ {w} : wr[v].slot # c
  BY <1>0, <1>2, WriterIs DEF Held, HeldOnce, Typed
<1>4. \A s : (StaleParity(s)' <=> StaleParity(s)) /\ (Dirty(s) => Dirty(s)')
  <2>1. \A v \in Writers : \A s : Filling(v, s)' => Filling(v, s)
    BY <1>2 DEF Filling
  <2>2. \A v \in Writers : \A s : Filling(v, s) => Filling(v, s)' \/ s = StripeOf(c)
    BY <1>2 DEF Filling
  <2>3. Filling(w, StripeOf(c))
    BY <1>2 DEF Filling
  <2> QED
    BY <1>1, <2>1, <2>2, <2>3 DEF StaleParity, Dirty
<1>5. \A d \in Chunk : SameRow(d) /\ Loc(d)' = Loc(d)
  BY <1>1 DEF SameRow, Loc
<1>6. Held'
  <2>1. HeldOnce'
    <3> SUFFICES ASSUME NEW v \in Writers, wr'[v].slot # Nil
                 PROVE  LET d == wr'[v].slot IN
                        /\ row'[d].st = "written" /\ row'[d].hash = wr'[v].val /\ want'[d] = Nil
                        /\ file'[d] \in {wr'[v].val, Nil}
                        /\ \A u \in Writers \ {v} : wr'[u].slot # d
      BY DEF HeldOnce, Written
    <3> DEFINE d == wr[v].slot
    <3>1. v # w /\ wr'[v] = wr[v] /\ d # Nil
      BY <1>2
    <3>2. d \in Chunk /\ d # c
      BY <1>3, <3>1, WriterIs DEF Typed
    <3>3. /\ row[d].st = "written" /\ row[d].hash = wr[v].val /\ want[d] = Nil
          /\ file[d] \in {wr[v].val, Nil}
          /\ \A u \in Writers \ {v} : wr[u].slot # d
      BY <1>0, <3>1 DEF Held, HeldOnce, Written
    <3>4. \A u \in Writers \ {v} : wr'[u].slot # d
      BY <1>2, <3>1, <3>3
    <3>5. want'[d] = want[d] /\ wr'[v].slot = d
      BY <1>2, <3>1, <3>2
    <3> HIDE DEF d
    <3> QED
      BY <1>1, <3>1, <3>3, <3>4, <3>5
  <2>2. WantedElse'
    <3> SUFFICES ASSUME NEW d \in Chunk, IsData(d), row'[d].st = "written",
                        \A v \in Writers : wr'[v].slot # d
                 PROVE  want'[d] # Nil
      BY DEF WantedElse, Written
    <3>1. CASE d = c
      BY <1>2, <3>1, SliceIs
    <3>2. CASE d # c
      <4>1. Written(d) /\ \A v \in Writers : wr[v].slot # d
        BY <1>1, <1>2, <3>2 DEF Written
      <4> QED
        BY <1>0, <1>2, <3>2, <4>1 DEF Held, WantedElse
    <3> QED
      BY <3>1, <3>2
  <2>3. Wanted'
    BY <1>0, <1>1, <1>2, <1>3 DEF Held, Wanted, Written
  <2>4. Bare'
    BY <1>0, <1>1 DEF Held, Bare, Written
  <2> QED
    BY <2>1, <2>2, <2>3, <2>4 DEF Held
<1> HIDE DEF c
<1>7. Coded'
  <2>1. pool'.ds >= pool.ds
    <3>1. pool.ds \in DS..(DS + MaxAdd)
      BY DEF Typed, AdminTyped, PoolRow
    <3> QED
      BY <1>1, <3>1, Shapes
  <2> QED
    BY <1>0, <1>1, <1>2, <1>4, <1>5, <2>1, CodedFrame
<1>8. RebuildBatch'
  BY <1>0, <1>1, <1>4, <1>5, RebuildStill
<1>9. ParityBatch'
  BY <1>0, <1>1, <1>4, <1>5, ParityStill DEF Written
<1> QED
  BY <1>6, <1>7, <1>8, <1>9 DEF Kept

(* What a release does to its stripe.                                      *)
LEMMA ReleaseParts ==
    ASSUME NEW c \in Chunk, Release(c)
    PROVE  /\ IsData(c) /\ Written(c) /\ (\A w \in Writers : wr[w].slot # c) /\ file'[c] = Nil
           /\ UNCHANGED <<pool, disk, run, rpend, rrun, wr, wk>> /\ pend \subseteq pend'
           /\ pend' \subseteq pend \cup {StripeOf(c)}
           /\ \/ /\ StripeOf(c) \in pend' \cup run
                 /\ \E b \in Chunk \ {c} : StripeOf(b) = StripeOf(c) /\ IsData(b) /\ Written(b)
              \/ \A p \in Chunk : StripeOf(p) = StripeOf(c) /\ ~IsData(p) /\ Written(p)
                                  => row'[p] = [row[p] EXCEPT !.st = "reserved", !.hash = Nil]
<1> DEFINE s    == StripeOf(c)
           live == \E b \in Slots(s) \ {c} : IsData(b) /\ Written(b)
           gone == {c} \cup (IF live THEN {} ELSE {p \in Slots(s) : ~IsData(p) /\ Written(p)})
<1>1. /\ IsData(c) /\ Written(c) /\ \A w \in Writers : wr[w].slot # c
      /\ row' = [b \in Chunk |-> IF b = c THEN Emptied(row[c])
                                 ELSE IF b \in gone THEN [row[b] EXCEPT !.st = "reserved", !.hash = Nil]
                                 ELSE row[b]]
      /\ file' = [b \in Chunk |-> IF b \in gone THEN Nil ELSE file[b]]
      /\ pend' = IF live /\ s \notin run THEN pend \cup {s} ELSE pend
      /\ UNCHANGED <<pool, disk, run, rpend, rrun, wr, wk>>
  BY DEF Release
<1>2. file'[c] = Nil
  BY <1>1
<1>3. pend \subseteq pend' /\ pend' \subseteq pend \cup {s} /\ (live => s \in pend' \cup run)
  BY <1>1
<1>4. live => \E b \in Chunk \ {c} : StripeOf(b) = s /\ IsData(b) /\ Written(b)
  BY DEF Slots
<1>5. ~live => \A p \in Chunk : StripeOf(p) = s /\ ~IsData(p) /\ Written(p) => p \in gone /\ p # c
  BY <1>1 DEF Slots, Written
<1>6. \A p \in gone : p # c /\ p \in Chunk => row'[p] = [row[p] EXCEPT !.st = "reserved", !.hash = Nil]
  BY <1>1, Zenon
<1> HIDE DEF live, gone, s
<1>7. ~live => \A p \in Chunk : StripeOf(p) = s /\ ~IsData(p) /\ Written(p)
                                 => row'[p] = [row[p] EXCEPT !.st = "reserved", !.hash = Nil]
  BY <1>5, <1>6
<1> QED
  BY <1>1, <1>2, <1>3, <1>4, <1>7 DEF s

LEMMA ReleaseKept ==
    ASSUME Typed, Kept, NEW c \in Chunk, Release(c), ~Rebuilding(StripeOf(c)), ~Encoding(StripeOf(c))
    PROVE  Kept'
<1> DEFINE z == StripeOf(c)
<1>0. Held /\ Coded /\ RebuildBatch /\ ParityBatch
  BY DEF Kept
<1>1. /\ IsData(c) /\ Written(c) /\ (\A w \in Writers : wr[w].slot # c) /\ file'[c] = Nil
      /\ UNCHANGED <<pool, disk, run, rpend, rrun, wr, wk>> /\ pend \subseteq pend'
      /\ pend' \subseteq pend \cup {z}
  BY ReleaseParts
<1>2. /\ Typed' /\ row'[c] = [st |-> "reserved", hash |-> Nil, gen |-> row[c].gen + 1]
      /\ want'[c] = Nil /\ \A d \in Chunk \ {c} : want'[d] = want[d]
  BY ReleaseTyped
<1>3. \A d \in Chunk \ {c} :
        \/ row'[d] = row[d] /\ file'[d] = file[d]
        \/ /\ ~IsData(d) /\ StripeOf(d) = z
           /\ row'[d] = [st |-> "reserved", hash |-> Nil, gen |-> row[d].gen]
  BY ReleaseTyped
<1>4. row'[c].st = "reserved" /\ c # Nil
  BY <1>2, SliceIs
<1>5. \A d \in Chunk \ {c} : IsData(d) \/ StripeOf(d) # z => row'[d] = row[d] /\ file'[d] = file[d]
  BY <1>3
<1>6. \A d \in Chunk \ {c} : (row'[d] = row[d] /\ file'[d] = file[d]) \/ row'[d].st = "reserved"
  <2> SUFFICES ASSUME NEW d \in Chunk \ {c}
               PROVE  (row'[d] = row[d] /\ file'[d] = file[d]) \/ row'[d].st = "reserved"
    OBVIOUS
  <2>1. CASE row'[d] = row[d] /\ file'[d] = file[d]
    BY <2>1
  <2>2. CASE row'[d] = [st |-> "reserved", hash |-> Nil, gen |-> row[d].gen]
    BY <2>2
  <2> QED
    BY <1>3, <2>1, <2>2
<1>7. /\ \A s : StaleParity(s) => StaleParity(s)'
      /\ \A s : s # z => (StaleParity(s)' <=> StaleParity(s))
      /\ \A s : Dirty(s) => Dirty(s)'
  <2>1. \A v \in Writers : \A s : Filling(v, s)' <=> Filling(v, s)
    BY <1>1 DEF Filling
  <2> QED
    BY <1>1, <2>1 DEF StaleParity, Dirty
<1>8. Held'
  <2>1. HeldOnce'
    <3> SUFFICES ASSUME NEW v \in Writers, wr[v].slot # Nil
                 PROVE  LET d == wr[v].slot IN
                        /\ row'[d].st = "written" /\ row'[d].hash = wr[v].val /\ want'[d] = Nil
                        /\ file'[d] \in {wr[v].val, Nil}
                        /\ \A u \in Writers \ {v} : wr[u].slot # d
      BY <1>1 DEF HeldOnce, Written
    <3> DEFINE d == wr[v].slot
    <3>1. d \in Chunk /\ d # c /\ IsData(d)
      BY <1>1, WriterIs DEF Typed
    <3>2. /\ row[d].st = "written" /\ row[d].hash = wr[v].val /\ want[d] = Nil
          /\ file[d] \in {wr[v].val, Nil}
          /\ \A u \in Writers \ {v} : wr[u].slot # d
      BY <1>0 DEF Held, HeldOnce, Written
    <3>3. row'[d] = row[d] /\ file'[d] = file[d] /\ want'[d] = want[d]
      BY <1>2, <1>5, <3>1
    <3> QED
      BY <3>2, <3>3
  <2>2. WantedElse'
    <3> SUFFICES ASSUME NEW d \in Chunk, IsData(d), row'[d].st = "written",
                        \A v \in Writers : wr'[v].slot # d
                 PROVE  want'[d] # Nil
      BY DEF WantedElse, Written
    <3>1. d # c
      BY <1>4
    <3>2. row'[d] = row[d]
      BY <1>5, <3>1
    <3>3. Written(d) /\ \A v \in Writers : wr[v].slot # d
      BY <1>1, <3>2 DEF Written
    <3> QED
      BY <1>0, <1>2, <3>1, <3>3 DEF Held, WantedElse
  <2>3. Wanted'
    <3> SUFFICES ASSUME NEW d \in Chunk, want'[d] # Nil
                 PROVE  /\ IsData(d) /\ row'[d].st = "written" /\ row'[d].hash = want'[d]
                        /\ file'[d] \in {want'[d], Nil}
      BY DEF Wanted, Written
    <3>1. d # c /\ want'[d] = want[d]
      BY <1>2
    <3>2. IsData(d) /\ row[d].st = "written" /\ row[d].hash = want[d] /\ file[d] \in {want[d], Nil}
      BY <1>0, <3>1 DEF Held, Wanted, Written
    <3> QED
      BY <1>5, <3>1, <3>2
  <2>4. Bare'
    <3> SUFFICES ASSUME NEW d \in Chunk, IsData(d), row'[d].st # "written"
                 PROVE  file'[d] = Nil
      BY DEF Bare, Written
    <3>1. CASE d = c
      BY <1>1, <3>1
    <3>2. CASE d # c
      <4>1. row'[d] = row[d] /\ file'[d] = file[d]
        BY <1>5, <3>2
      <4> QED
        BY <1>0, <4>1 DEF Held, Bare, Written
    <3> QED
      BY <3>1, <3>2
  <2> QED
    BY <2>1, <2>2, <2>3, <2>4 DEF Held
<1>9. \A p \in Chunk : Written(p)' => p # c /\ row'[p] = row[p] /\ file'[p] = file[p] /\ Written(p)
  BY <1>4, <1>6 DEF Written
<1>10. \/ /\ StripeOf(c) \in pend' \cup run
          /\ \E b \in Chunk \ {c} : StripeOf(b) = StripeOf(c) /\ IsData(b) /\ Written(b)
       \/ \A p \in Chunk : StripeOf(p) = StripeOf(c) /\ ~IsData(p) => ~Written(p)'
  <2>1. CASE \A p \in Chunk : StripeOf(p) = StripeOf(c) /\ ~IsData(p) /\ Written(p)
                                  => row'[p] = [row[p] EXCEPT !.st = "reserved", !.hash = Nil]
    <3> SUFFICES ASSUME NEW p \in Chunk, StripeOf(p) = StripeOf(c), ~IsData(p), Written(p)'
                 PROVE  FALSE
      OBVIOUS
    <3>1. Written(p) /\ row'[p] = row[p]
      BY <1>9
    <3>2. row[p] = [row[p] EXCEPT !.st = "reserved", !.hash = Nil] /\ row[p] \in ChunkRow
      BY <2>1, <3>1, RowIs DEF Typed, ChunksTyped
    <3>3. row[p] = [st |-> "reserved", hash |-> Nil, gen |-> row[p].gen]
      BY <3>2, RowSet
    <3>4. row[p].st = "reserved"
      BY ONLY <3>3
    <3> QED
      BY <3>1, <3>4 DEF Written
  <2> QED
    BY <2>1, ReleaseParts
<1>11. Coded'
  <2>1. Narrow'
    BY <1>0, <1>1, <1>9 DEF Coded, Narrow
  <2>2. Fresh'
    <3> SUFFICES ASSUME NEW s \in Stripe, ~StaleParity(s)', NEW p \in Chunk, StripeOf(p) = s, ~IsData(p),
                        Written(p)'
                 PROVE  Encodes(s, row[p].hash, file[p])'
      BY DEF Fresh, ParityOf
    <3>1. s # z
      <4>1. z \in pend' \cup run => StaleParity(z)'
        BY <1>1 DEF StaleParity
      <4> QED
        BY <1>10, <4>1
    <3>2. ~StaleParity(s) /\ Written(p) /\ row'[p] = row[p] /\ file'[p] = file[p]
      BY <1>7, <1>9
    <3>3. Encodes(s, row[p].hash, file[p])
      BY <1>0, <3>2 DEF Coded, Fresh, ParityOf
    <3>4. PICK k \in DS..pool.ds : row[p].hash = Vec(s, k) /\ Covers(s, k)
      BY <3>3 DEF Encodes
    <3>5. pool.ds \in DS..(DS + MaxAdd) /\ pool'.ds = pool.ds
      BY <1>1 DEF Typed, AdminTyped, PoolRow
    <3>6. k \in DS..(DS + MaxAdd)
      BY <3>5, Shapes
    <3>7. \A d \in Chunk : StripeOf(d) = s /\ IsData(d) => SameRow(d)
      BY <1>5, <3>1 DEF SameRow
    <3>8. Vec(s, k)' = Vec(s, k) /\ Covers(s, k)'
      BY <3>4, <3>6, <3>7, VecSame
    <3>9. row'[p].hash = Vec(s, k)' /\ file'[p] \in {row'[p].hash, Nil}
      BY <3>2, <3>3, <3>4, <3>8 DEF Encodes
    <3> QED
      BY <3>4, <3>5, <3>8, <3>9 DEF Encodes
  <2>3. ParityHasData'
    <3> SUFFICES ASSUME NEW s \in Stripe, NEW p \in Chunk, StripeOf(p) = s, ~IsData(p), Written(p)'
                 PROVE  DataIn(s)'
      BY DEF ParityHasData, ParityOf
    <3>1. CASE s = z
      <4>1. PICK b \in Chunk \ {c} : StripeOf(b) = z /\ IsData(b) /\ Written(b)
        BY <1>10, <3>1
      <4>2. Written(b)'
        BY <1>5, <4>1 DEF Written
      <4> QED
        BY <3>1, <4>1, <4>2 DEF DataIn
    <3>2. CASE s # z
      <4>1. DataIn(s)
        BY <1>0, <1>9 DEF Coded, ParityHasData, ParityOf
      <4>2. \A b \in Chunk : StripeOf(b) = s /\ Written(b) => Written(b)'
        BY <1>5, <3>2 DEF Written
      <4> QED
        BY <4>1, <4>2 DEF DataIn
    <3> QED
      BY <3>1, <3>2
  <2> QED
    BY <2>1, <2>2, <2>3 DEF Coded
<1>12. \A d \in Chunk : StripeOf(d) # z => row'[d] = row[d] /\ file'[d] = file[d] /\ Loc(d)' = Loc(d)
  BY <1>1, <1>5 DEF Loc
<1>13. RebuildBatch'
  <2>1. ASSUME wk.pc = "work", NEW s \in BatchOf PROVE s # z
    BY <2>1 DEF Rebuilding
  <2> QED
    BY <1>0, <1>1, <1>7, <1>12, <2>1, RebuildStill
<1>14. ParityBatch'
  <2>1. ASSUME wk.pc \in {"compute", "commit"}, NEW s \in run PROVE s # z
    BY <2>1 DEF Encoding
  <2>2. \A d \in Chunk : StripeOf(d) # z => (Written(d) => Written(d)')
    BY <1>12 DEF Written
  <2> QED
    BY <1>0, <1>1, <1>7, <1>12, <2>1, <2>2, ParityStill
<1> QED
  BY <1>8, <1>11, <1>13, <1>14 DEF Kept

(* A file goes: what is lost is no bytes of another slice.                 *)
LEMMA LoseFileKept ==
    ASSUME Typed, Kept, NEW c \in Chunk, LoseFile(c)
    PROVE  Kept'
<1>0. Held /\ Coded /\ RebuildBatch /\ ParityBatch
  BY DEF Kept
<1>1. UNCHANGED <<pool, disk, row, pend, run, rpend, rrun, want, wr, wk>>
  BY DEF LoseFile, tables
<1>2. Typed' /\ \A d \in Chunk : file'[d] \in {file[d], Nil}
  BY LoseFileTyped
<1>3. SameSlots /\ \A d \in Chunk : SameRow(d) /\ Loc(d)' = Loc(d) /\ (Written(d) => Written(d)')
  BY <1>1 DEF SameSlots, SameRow, Loc, Written
<1>4. \A s : (StaleParity(s)' <=> StaleParity(s)) /\ (Dirty(s) => Dirty(s)')
  BY <1>1, <1>3, StaleIs
<1>5. pool'.ds >= pool.ds
  <2>1. pool.ds \in DS..(DS + MaxAdd)
    BY DEF Typed, AdminTyped, PoolRow
  <2> QED
    BY <1>1, <2>1, Shapes
<1>6. Held'
  BY <1>0, <1>1, <1>2, <1>3, HeldFrame
<1>7. Coded'
  BY <1>0, <1>2, <1>3, <1>4, <1>5, CodedFrame
<1>8. RebuildBatch'
  BY <1>0, <1>1, <1>2, <1>3, <1>4, RebuildStill
<1>9. ParityBatch'
  BY <1>0, <1>1, <1>2, <1>3, <1>4, ParityStill
<1> QED
  BY <1>6, <1>7, <1>8, <1>9 DEF Kept

LEMMA SwapDiskKept ==
    ASSUME Typed, Kept, NEW d \in Disk, SwapDisk(d),
           \A s \in Stripe : StaleParity(s) => \A c \in Slots(s) :
                                file'[c] = file[c] /\ disk'[DiskOf(c)] = disk[DiskOf(c)]
    PROVE  Kept'
<1>0. Held /\ Coded /\ RebuildBatch /\ ParityBatch
  BY DEF Kept
<1>1. UNCHANGED <<row, pend, run, rpend, rrun, want, wr, wk>>
  BY DEF SwapDisk
<1>2. /\ Typed' /\ disk'[d].swaps = disk[d].swaps + 1 /\ pool'.ds = pool.ds
      /\ \A e \in Disk \ {d} : disk'[e] = disk[e]
      /\ \A c \in Chunk : file'[c] = IF DiskOf(c) = d THEN Nil ELSE file[c]
  BY SwapDiskTyped
<1>3. SameSlots /\ \A c \in Chunk : SameRow(c) /\ (Written(c) => Written(c)')
  BY <1>1 DEF SameSlots, SameRow, Written
<1>4. \A s : (StaleParity(s)' <=> StaleParity(s)) /\ (Dirty(s) => Dirty(s)')
  BY <1>1, <1>3, StaleIs
<1>5. \A c \in Chunk : /\ file'[c] \in {file[c], Nil}
                       /\ DiskOf(c) = d => file'[c] = Nil
                       /\ DiskOf(c) # d => Loc(c)' = Loc(c)
  BY <1>1, <1>2, DiskIs DEF Loc
<1>6. disk'[d] # disk[d]
  <2>1. disk[d].swaps \in Nat
    BY Shapes DEF Typed, AdminTyped, DiskRow
  <2>2. disk[d].swaps + 1 # disk[d].swaps
    BY <2>1
  <2> QED
    BY <1>2, <2>2
<1>7. pool'.ds >= pool.ds
  <2>1. pool.ds \in DS..(DS + MaxAdd)
    BY DEF Typed, AdminTyped, PoolRow
  <2> QED
    BY <1>2, <2>1, Shapes
<1>8. Held'
  BY <1>0, <1>1, <1>3, <1>5, HeldFrame
<1>9. Coded'
  BY <1>0, <1>2, <1>3, <1>4, <1>5, <1>7, CodedFrame
<1>10. RebuildBatch'
  BY <1>0, <1>1, <1>2, <1>4, <1>5, RebuildStill
<1>11. ParityBatch'
  <2>1. ASSUME NEW s \in run, NEW c \in Chunk, StripeOf(c) = s, Written(c)
        PROVE  DiskOf(c) # d
    <3>1. s \in Stripe /\ StaleParity(s) /\ c \in Slots(s)
      BY <2>1 DEF Typed, QueuesTyped, StaleParity, Slots, Written
    <3>2. disk'[DiskOf(c)] = disk[DiskOf(c)]
      BY <3>1
    <3> QED
      BY <1>6, <3>2
  <2> QED
    BY <1>0, <1>1, <1>2, <1>3, <1>4, <1>5, <2>1, ParityStill
<1> QED
  BY <1>8, <1>9, <1>10, <1>11 DEF Kept

LEMMA AddDiskKept ==
    ASSUME Typed, Kept, GrowsAlone', NEW k \in {"data", "parity"}, AddDisk(k)
    PROVE  Kept'
<1>0. Held /\ Coded
  BY DEF Kept
<1>1. UNCHANGED <<row, pend, run, rpend, rrun, file, want, wr, wk>> /\ adding' = k /\ k # Nil
  BY SliceIs DEF AddDisk
<1>2. wk'.pc = "idle"
  BY <1>1 DEF GrowsAlone
<1>3. Typed' /\ pool'.ds = (IF k = "data" THEN pool.ds + 1 ELSE pool.ds)
  BY AddDiskTyped
<1>4. SameSlots /\ \A c \in Chunk : SameRow(c)
  BY <1>1 DEF SameSlots, SameRow
<1>5. \A s : StaleParity(s)' <=> StaleParity(s)
  BY <1>1, <1>4, StaleIs
<1>6. pool'.ds >= pool.ds
  <2>1. pool.ds \in DS..(DS + MaxAdd)
    BY DEF Typed, AdminTyped, PoolRow
  <2> QED
    BY <1>3, <2>1, Shapes
<1>7. Held'
  BY <1>0, <1>1, <1>4, HeldFrame
<1>8. Coded'
  BY <1>0, <1>1, <1>3, <1>4, <1>5, <1>6, CodedFrame
<1> QED
  BY <1>2, <1>7, <1>8, NoRebuild, NoParity DEF Kept

LEMMA AddSlotsKept ==
    ASSUME Typed, Shaped, Shaped', Kept, AddSlots
    PROVE  Kept'
<1>0. Held /\ Coded
  BY DEF Kept
<1>1. UNCHANGED <<pool, disk, pend, run, rpend, rrun, file, want, wr, wk>> /\ adding # Nil
  BY DEF AddSlots
<1>2. wk'.pc = "idle"
  BY <1>1 DEF Shaped
<1>3. Typed' /\ \A c \in Chunk :
            row'[c] = IF c \in {<<s, <<adding, NewIndex>>>> : s \in Stripes}
                      THEN IF row[c].st = "none"
                           THEN [st |-> "reserved", hash |-> Nil, gen |-> 0]
                           ELSE [row[c] EXCEPT !.st = "double"]
                      ELSE row[c]
  BY AddSlotsTyped
<1>4. ASSUME NEW c \in Chunk PROVE SameRow(c)
  <2>1. CASE row'[c] = row[c]
    BY <2>1 DEF SameRow
  <2>2. CASE row[c].st = "none" /\ row'[c] = [st |-> "reserved", hash |-> Nil, gen |-> 0]
    <3>1. row[c].hash = Nil
      BY <2>2, RowIs DEF Typed, ChunksTyped
    <3> QED
      BY <2>2, <3>1 DEF SameRow
  <2>3. CASE row'[c] = [row[c] EXCEPT !.st = "double"]
    <3>1. row[c] \in ChunkRow
      BY RowIs DEF Typed, ChunksTyped
    <3>2. row'[c].st = "double"
      BY <2>3, <3>1 DEF ChunkRow
    <3> QED
      BY <3>2 DEF Shaped
  <2> QED
    BY <1>3, <2>1, <2>2, <2>3
<1>5. SameSlots
  BY <1>1 DEF SameSlots
<1>6. \A s : StaleParity(s)' <=> StaleParity(s)
  BY <1>1, <1>5, StaleIs
<1>7. pool'.ds >= pool.ds
  <2>1. pool.ds \in DS..(DS + MaxAdd)
    BY DEF Typed, AdminTyped, PoolRow
  <2> QED
    BY <1>1, <2>1, Shapes
<1>8. Held'
  BY <1>0, <1>1, <1>4, <1>5, HeldFrame
<1>9. Coded'
  BY <1>0, <1>1, <1>3, <1>4, <1>6, <1>7, CodedFrame
<1> QED
  BY <1>2, <1>8, <1>9, NoRebuild, NoParity DEF Kept

(* The races that spoil data, and the steps without them.                  *)
Calm == {"stale", "shape", "inflight", "release", "grow", "torn"} \cap Overlaps = {}

LEMMA RequestKept ==
    ASSUME Typed, Shaped, Shaped', Kept, Allowed, Allowed', AllowedStep, Calm, Request
    PROVE  Kept'
<1>1. Undisturbed /\ Undisturbed' /\ GrowsAlone'
  BY DEF Calm, Allowed, Undisturbed, GrowsAlone
<1>2. ASSUME NEW w \in Writers, CheckPool(w) PROVE Kept'
  <2>1. UNCHANGED <<pool, disk, row, file, want, pend, run, rrun, wk>>
    BY <1>2 DEF CheckPool, tables
  <2>2. Typed' /\ wr'[w].slot = Nil /\ wr[w].slot = Nil /\ \A v \in Writers \ {w} : wr'[v] = wr[v]
    <3>1. wr[w].pc = "idle"
      BY <1>2 DEF CheckPool
    <3>2. wr[w].slot = Nil
      BY <3>1, WriterIs DEF Typed
    <3> QED
      BY <1>2, <3>2, CheckPoolTyped
  <2>3. SameSlots /\ \A c \in Chunk : Loc(c)' = Loc(c)
    BY <2>1, <2>2 DEF SameSlots, Loc
  <2> QED
    BY <2>1, <2>2, <2>3, QuietKept
<1>3. ASSUME NEW w \in Writers, NEW c \in Chunk, Reuse(w, c) PROVE Kept'
  BY <1>1, <1>3, ReuseKept
<1>4. ASSUME NEW w \in Writers, NEW s \in Stripe, NewStripe(w, s) PROVE Kept'
  BY <1>1, <1>4, NewStripeKept
<1>5. ASSUME NEW w \in Writers, StoreSlice(w) PROVE Kept'
  BY <1>1, <1>5, StoreSliceKept
<1>6. ASSUME NEW w \in Writers, FlushSlice(w) PROVE Kept'
  BY <1>6, FlushSliceKept
<1>7. ASSUME NEW c \in Chunk, Release(c) PROVE Kept'
  <2>1. row'[c].gen = row[c].gen + 1 /\ row[c].gen \in Nat
    <3>1. row'[c] = [st |-> "reserved", hash |-> Nil, gen |-> row[c].gen + 1]
      BY <1>7, ReleaseTyped
    <3> QED
      BY <3>1, RowIs DEF Typed, ChunksTyped
  <2>2. row[c].gen # row'[c].gen
    BY <2>1
  <2>3. ~Rebuilding(StripeOf(c)) /\ ~Encoding(StripeOf(c))
    BY <2>2 DEF Calm, AllowedStep
  <2> QED
    BY <1>7, <2>3, ReleaseKept
<1>8. ASSUME NEW c \in Chunk, ReadFails(c) PROVE Kept'
  <2>1. UNCHANGED <<pool, disk, row, file, want, pend, run, rrun, wr, wk>>
    BY <1>8 DEF ReadFails
  <2>2. SameSlots /\ \A d \in Chunk : Loc(d)' = Loc(d)
    BY <2>1 DEF SameSlots, Loc
  <2> QED
    BY <1>8, <2>1, <2>2, ReadFailsTyped, QuietKept
<1>9. ASSUME NEW d \in Disk, SwapDisk(d) PROVE Kept'
  <2>1. losses' = losses + 1 /\ losses \in Nat
    BY <1>9 DEF SwapDisk, Typed, AdminTyped
  <2>2. losses' # losses
    BY <2>1
  <2>3. \A s \in Stripe : StaleParity(s) => \A c \in Slots(s) :
                                file'[c] = file[c] /\ disk'[DiskOf(c)] = disk[DiskOf(c)]
    BY <2>2 DEF Calm, AllowedStep
  <2> QED
    BY <1>9, <2>3, SwapDiskKept
<1>10. ASSUME OfflinePool PROVE Kept'
  <2>1. UNCHANGED <<disk, row, file, want, pend, run, rrun, wr, wk>>
    BY <1>10 DEF OfflinePool
  <2>2. SameSlots /\ \A d \in Chunk : Loc(d)' = Loc(d)
    BY <2>1 DEF SameSlots, Loc
  <2> QED
    BY <1>10, <2>1, <2>2, OfflinePoolTyped, QuietKept
<1>11. ASSUME NEW t \in Task, RebuildPool(t) PROVE Kept'
  <2>1. UNCHANGED <<pool, disk, row, file, want, pend, run, rrun, wr, wk>>
    BY <1>11 DEF RebuildPool
  <2>2. SameSlots /\ \A d \in Chunk : Loc(d)' = Loc(d)
    BY <2>1 DEF SameSlots, Loc
  <2> QED
    BY <1>11, <2>1, <2>2, RebuildPoolTyped, QuietKept
<1>12. ASSUME NEW k \in {"data", "parity"}, AddDisk(k) PROVE Kept'
  BY <1>1, <1>12, AddDiskKept
<1>13. ASSUME AddSlots PROVE Kept'
  BY <1>13, AddSlotsKept
<1> QED
  BY <1>2, <1>3, <1>4, <1>5, <1>6, <1>7, <1>8, <1>9, <1>10, <1>11, <1>12, <1>13 DEF Request
-----------------------------------------------------------------------------
(* What a rebuild decodes is what was lost.                                *)

LEMMA RangeCount ==
    ASSUME NEW n \in Nat
    PROVE  IsFiniteSet(0..(n - 1)) /\ Cardinality(0..(n - 1)) = n
<1>1. 0 \in Int /\ n - 1 \in Int
  OBVIOUS
<1>2. IsFiniteSet(0..(n - 1)) /\ Cardinality(0..(n - 1)) = IF 0 > n - 1 THEN 0 ELSE n - 1 - 0 + 1
  BY <1>1, FS_Interval
<1>3. (IF 0 > n - 1 THEN 0 ELSE n - 1 - 0 + 1) = n
  OBVIOUS
<1> QED
  BY <1>2, <1>3

LEMMA LeastOf ==
    ASSUME NEW T \in SUBSET Nat, T # {}
    PROVE  \E x \in T : \A y \in T : ~(y < x)
<1>1. \E x \in T : \A y \in T : ~(<<y, x>> \in OpToRel(<, Nat))
  BY NatLessThanWellFounded, WFMin
<1>2. \A x, y \in Nat : y < x => <<y, x>> \in OpToRel(<, Nat)
  BY DEF OpToRel
<1> QED
  BY <1>1, <1>2

(* The decoder gives back an encoding when all shards it is given are of   *)
(* that one, and it has all data or some parity.                           *)
LEMMA DecodesTo ==
    ASSUME NEW ds \in Nat, NEW v, v = [i \in 0..(ds - 1) |-> v[i]], NEW data, NEW parity,
           DOMAIN data \subseteq 0..(ds - 1), \A i \in DOMAIN data : data[i] = v[i],
           DOMAIN parity \subseteq Nat, \A p \in DOMAIN parity : parity[p] = v,
           DOMAIN data = 0..(ds - 1) \/ DOMAIN parity # {}
    PROVE  Decoded(data, parity, ds) = v
<1> DEFINE short == ds - Cardinality(DOMAIN data)
           used == {p \in DOMAIN parity : Cardinality({q \in DOMAIN parity : q < p}) < short}
           fits(u) == /\ \A p \in used : parity[p] = u
                      /\ DOMAIN u = 0..(ds - 1)
                      /\ \A i \in DOMAIN data : data[i] = u[i]
           shards == {parity[p] : p \in used}
           out(i) == IF i \in DOMAIN data THEN data[i]
                     ELSE IF \E u \in shards : fits(u) THEN (CHOOSE u \in shards : fits(u))[i]
                     ELSE Garbage
<1>1. Decoded(data, parity, ds) = [i \in 0..(ds - 1) |-> out(i)]
  BY DEF Decoded
<1>2. DOMAIN v = 0..(ds - 1)
  <2> DEFINE R == 0..(ds - 1)
  <2>1. v = [i \in R |-> v[i]]
    OBVIOUS
  <2> HIDE DEF R
  <2>2. DOMAIN v = R
    BY <2>1
  <2> QED
    BY <2>2 DEF R
<1>3. \A u \in shards : u = v
  OBVIOUS
<1>4. ASSUME DOMAIN data # 0..(ds - 1)
      PROVE  v \in shards
  <2>1. IsFiniteSet(0..(ds - 1)) /\ Cardinality(0..(ds - 1)) = ds
    BY RangeCount
  <2>2. /\ Cardinality(DOMAIN data) <= ds /\ Cardinality(DOMAIN data) # ds
        /\ IsFiniteSet(DOMAIN data)
    BY <1>4, <2>1, FS_Subset
  <2>3. Cardinality(DOMAIN data) \in Nat
    BY <2>2, FS_CardinalityType
  <2>4. short > 0
    BY <2>2, <2>3
  <2>5. PICK p \in DOMAIN parity : \A q \in DOMAIN parity : ~(q < p)
    BY <1>4, LeastOf
  <2>6. {q \in DOMAIN parity : q < p} = {}
    BY <2>5
  <2>7. Cardinality({q \in DOMAIN parity : q < p}) = 0
    BY <2>6, FS_EmptySet
  <2> HIDE DEF short
  <2>8. p \in used
    BY <2>4, <2>7
  <2> QED
    BY <2>8
<1>5. fits(v)
  BY <1>2
<1> HIDE DEF used, shards, fits
<1>6. ASSUME NEW i \in 0..(ds - 1) PROVE out(i) = v[i]
  <2>1. CASE i \in DOMAIN data
    BY <2>1
  <2>2. CASE i \notin DOMAIN data
    <3>1. v \in shards
      BY <1>4, <2>2
    <3>2. \E u \in shards : fits(u)
      BY <1>5, <3>1
    <3>3. (CHOOSE u \in shards : fits(u)) \in shards
      BY <3>2
    <3>4. (CHOOSE u \in shards : fits(u)) = v
      BY <1>3, <3>3
    <3> QED
      BY <2>2, <3>2, <3>4
  <2> QED
    BY <2>1, <2>2
<1> HIDE DEF out
<1> QED
  BY <1>1, <1>6

LEMMA RangeEq ==
    ASSUME NEW a \in Nat, NEW b \in Nat, a > 0, b > 0, 0..(a - 1) = 0..(b - 1)
    PROVE  a = b
<1>1. a - 1 \in 0..(a - 1) /\ b - 1 \in 0..(b - 1)
  OBVIOUS
<1>2. a - 1 \in 0..(b - 1) /\ b - 1 \in 0..(a - 1)
  BY <1>1
<1> QED
  BY <1>2

(* What a rebuild finds missing, and what it finds.                        *)
LEMMA MissingIs ==
    ASSUME Typed, Shaped, Kept, wk.pc = "work", NEW s \in wk.todo
    PROVE  /\ s \in BatchOf /\ s \in Stripe /\ Queued(s) /\ wk.meta.ds = pool.ds /\ wk.meta.ps = pool.ps
           /\ Missing(s) \subseteq Refs(s)
           /\ \A c \in Refs(s) : /\ c \in Chunk /\ StripeOf(c) = s /\ Written(c)
                                 /\ wk.meta.row[c] = row[c]
                                 /\ c \notin Missing(s) => Found(c) = row[c].hash /\ Current(c)
                                 /\ c \in Missing(s) /\ file[c] \in {row[c].hash, Nil} => file[c] = Nil
<1>0. RebuildBatch
  BY DEF Kept
<1>1. s \in BatchOf
  BY <1>0 DEF RebuildBatch
<1>2. s \in Stripe /\ Queued(s)
  BY <1>0, <1>1, BatchQueued
<1>3. wk.meta.ds = pool.ds /\ wk.meta.ps = pool.ps
  BY DEF Shaped
<1>4. ASSUME NEW c \in Refs(s)
      PROVE  /\ c \in Chunk /\ StripeOf(c) = s /\ Written(c) /\ wk.meta.row[c] = row[c]
             /\ c \notin Missing(s) => Found(c) = row[c].hash /\ Current(c)
             /\ c \in Missing(s) /\ file[c] \in {row[c].hash, Nil} => file[c] = Nil
  <2>1. c \in Chunk /\ StripeOf(c) = s /\ wk.meta.row[c].st = "written"
    BY RefsIs DEF Typed
  <2>2. wk.meta.row[c] = row[c] /\ (Written(c) /\ ~Current(c) => file[c] = Nil)
    BY <1>0, <1>1, <2>1 DEF RebuildBatch
  <2>3. Written(c)
    BY <2>1, <2>2 DEF Written
  <2>4. c \notin Missing(s) => Found(c) # Nil /\ Found(c) = row[c].hash
    BY <2>2 DEF Missing
  <2>5. c \notin Missing(s) => Current(c)
    BY <2>4 DEF Found
  <2>6. c \in Missing(s) => Found(c) = Nil \/ Found(c) # row[c].hash
    BY <2>2 DEF Missing
  <2>7. c \in Missing(s) /\ file[c] \in {row[c].hash, Nil} => file[c] = Nil
    BY <2>2, <2>3, <2>6 DEF Found
  <2> QED
    BY <2>1, <2>2, <2>3, <2>4, <2>5, <2>7
<1> QED
  BY <1>1, <1>2, <1>3, <1>4 DEF Missing

(* A stripe whose parity is out of date has lost no data, and one of an    *)
(* older shape has lost nothing.                                           *)
LEMMA LostHere ==
    ASSUME Typed, Shaped, Kept, Allowed, Calm, wk.pc = "work", NEW s \in wk.todo,
           NEW c \in Missing(s), IsData(c) \/ ~StaleParity(s)
    PROVE  ~StaleParity(s) /\ ~OldShape(s) /\ file[c] = Nil
<1>1. /\ s \in Stripe /\ Queued(s) /\ c \in Refs(s) /\ c \in Chunk /\ StripeOf(c) = s /\ Written(c)
      /\ file[c] \in {row[c].hash, Nil} => file[c] = Nil
  BY MissingIs
<1>2. file[c] \in {row[c].hash, Nil}
  <2>1. CASE IsData(c)
    BY <1>1, <2>1, HeldFile DEF Kept
  <2>2. CASE ~IsData(c)
    BY <1>1, <2>2 DEF Kept, Coded, Fresh, Encodes, ParityOf
  <2> QED
    BY <2>1, <2>2
<1>3. \A w \in Writers : wr[w].slot # c
  <2> SUFFICES ASSUME NEW w \in Writers, wr[w].slot = c PROVE FALSE
    OBVIOUS
  <2>1. c # Nil
    BY <1>1, SliceIs
  <2>2. Filling(w, s)
    BY <1>1, <2>1 DEF Filling
  <2> QED
    BY <1>1, <2>2 DEF Allowed, Calm
<1>4. c \in LostIn(s)
  BY <1>1, <1>2, <1>3 DEF LostIn, Slots, Written
<1> QED
  BY <1>1, <1>2, <1>4 DEF Allowed, Calm

LEMMA OutRight ==
    ASSUME Typed, Shaped, Kept, Allowed, Calm, wk.pc = "work", NEW s \in wk.todo,
           Missing(s) # {}, Cardinality(Refs(s) \ Missing(s)) >= wk.meta.ds, ~StaleParity(s)
    PROVE  /\ Out(s) = Vec(s, pool.ds)
           /\ \A c \in Missing(s) : IF IsData(c) THEN Out(s)[Index(c)] = row[c].hash ELSE Out(s) = row[c].hash
<1> DEFINE there == Refs(s) \ Missing(s)
           D == {c \in there : IsData(c)}
           P == {c \in there : ~IsData(c)}
           v == Vec(s, pool.ds)
<1>1. /\ s \in Stripe /\ wk.meta.ds = pool.ds /\ Missing(s) \subseteq Refs(s)
      /\ \A c \in Refs(s) : /\ c \in Chunk /\ StripeOf(c) = s /\ Written(c)
                            /\ c \notin Missing(s) => Found(c) = row[c].hash
  BY MissingIs
<1>2. ~OldShape(s)
  BY LostHere
<1>3. pool.ds \in DS..(DS + MaxAdd) /\ pool.ds \in Nat /\ pool.ds > 0
  <2>1. pool.ds \in DS..(DS + MaxAdd)
    BY DEF Typed, AdminTyped, PoolRow
  <2> QED
    BY <2>1, Shapes
<1>4. v = [i \in 0..(pool.ds - 1) |-> v[i]] /\ DOMAIN v = 0..(pool.ds - 1)
  BY DEF Vec
<1>5. ASSUME NEW p \in Chunk, StripeOf(p) = s, ~IsData(p), Written(p) PROVE row[p].hash = v
  <2>1. Encodes(s, row[p].hash, file[p])
    BY <1>1, <1>5 DEF Kept, Coded, Fresh, ParityOf
  <2>2. PICK k \in DS..pool.ds : row[p].hash = Vec(s, k)
    BY <2>1 DEF Encodes
  <2>3. p \in Slots(s)
    BY <1>5 DEF Slots, Written
  <2>4. DOMAIN row[p].hash = 0..(pool.ds - 1)
    BY <1>2, <1>5, <2>3 DEF OldShape
  <2>5. DOMAIN Vec(s, k) = 0..(k - 1)
    BY DEF Vec
  <2>6. 0..(k - 1) = 0..(pool.ds - 1)
    BY <2>2, <2>4, <2>5
  <2>7. k \in Nat /\ k > 0
    BY Shapes
  <2>8. k = pool.ds
    BY <1>3, <2>6, <2>7, RangeEq
  <2> QED
    BY <2>2, <2>8
<1>6. ASSUME NEW c \in Refs(s), IsData(c)
      PROVE  Index(c) \in 0..(pool.ds - 1) /\ row[c].hash = v[Index(c)]
  <2>1. Index(c) \in 0..(pool.ds - 1)
    BY <1>1, <1>6, RefsIs DEF Typed
  <2>2. c = Slot(s, Index(c)) /\ Written(c)
    BY <1>1, <1>6, DataIsSlot
  <2>3. v[Index(c)] = IF Written(Slot(s, Index(c))) THEN row[Slot(s, Index(c))].hash ELSE Zeros
    BY <2>1 DEF Vec
  <2> QED
    BY <2>1, <2>2, <2>3
<1>13. \A c \in D : c \in Refs(s) /\ c \notin Missing(s) /\ c \in Chunk /\ IsData(c)
  BY <1>1
<1>14. \A c \in P : c \in Refs(s) /\ c \notin Missing(s) /\ c \in Chunk /\ ~IsData(c)
  BY <1>1
<1> HIDE DEF v, D, P
<1>15. /\ DOMAIN Shards(D) = {Index(c) : c \in D}
       /\ \A i \in DOMAIN Shards(D) : \E c \in D : Index(c) = i /\ Shards(D)[i] = Found(c)
  BY ShardsAre
<1>16. /\ DOMAIN Shards(P) = {Index(c) : c \in P}
       /\ \A i \in DOMAIN Shards(P) : \E c \in P : Index(c) = i /\ Shards(P)[i] = Found(c)
  BY ShardsAre
<1>7. /\ DOMAIN Shards(D) \subseteq 0..(pool.ds - 1)
      /\ \A i \in DOMAIN Shards(D) : Shards(D)[i] = v[i]
  <2>1. DOMAIN Shards(D) \subseteq 0..(pool.ds - 1)
    BY <1>6, <1>13, <1>15
  <2>2. ASSUME NEW i \in DOMAIN Shards(D) PROVE Shards(D)[i] = v[i]
    <3>1. PICK c \in D : Index(c) = i /\ Shards(D)[i] = Found(c)
      BY <1>15
    <3> QED
      BY <1>1, <1>6, <1>13, <3>1
  <2> QED
    BY <2>1, <2>2
<1>8. /\ DOMAIN Shards(P) \subseteq Nat
      /\ \A i \in DOMAIN Shards(P) : Shards(P)[i] = v
  <2>1. DOMAIN Shards(P) \subseteq Nat
    BY <1>14, <1>16, ChunkIs
  <2>2. ASSUME NEW i \in DOMAIN Shards(P) PROVE Shards(P)[i] = v
    <3>1. PICK c \in P : Index(c) = i /\ Shards(P)[i] = Found(c)
      BY <1>16
    <3> QED
      BY <1>1, <1>5, <1>14, <3>1
  <2> QED
    BY <2>1, <2>2
<1>9. DOMAIN Shards(D) = 0..(pool.ds - 1) \/ DOMAIN Shards(P) # {}
  <2> SUFFICES ASSUME DOMAIN Shards(D) # 0..(pool.ds - 1), DOMAIN Shards(P) = {}
               PROVE  FALSE
    OBVIOUS
  <2> DEFINE I == DOMAIN Shards(D)
             f == [c \in D |-> Index(c)]
  <2>1. P = {}
    BY <1>16
  <2>2. there = D
    BY <2>1 DEF D, P
  <2>3. IsFiniteSet(0..(pool.ds - 1)) /\ Cardinality(0..(pool.ds - 1)) = pool.ds
    BY <1>3, RangeCount
  <2>4. IsFiniteSet(I) /\ Cardinality(I) <= pool.ds /\ Cardinality(I) # pool.ds
    BY <1>7, <2>3, FS_Subset
  <2>5. \A c \in D : Index(c) \in I
    BY <1>15
  <2>6. \A c, d \in D : Index(c) = Index(d) => c = d
    <3> SUFFICES ASSUME NEW c \in D, NEW d \in D, Index(c) = Index(d) PROVE c = d
      OBVIOUS
    <3>1. c = Slot(s, Index(c)) /\ d = Slot(s, Index(d))
      BY <1>1, <1>13, DataIsSlot
    <3> QED
      BY <3>1
  <2> HIDE DEF I
  <2>7. f \in Injection(D, I)
    BY <2>5, <2>6 DEF Injection, IsInjective
  <2>8. IsFiniteSet(D) /\ Cardinality(D) <= Cardinality(I)
    BY <2>4, <2>7, FS_Injection
  <2>9. Cardinality(D) \in Nat /\ Cardinality(I) \in Nat
    BY <2>4, <2>8, FS_CardinalityType
  <2>10. Cardinality(D) >= pool.ds
    BY <1>1, <2>2
  <2> QED
    BY ONLY <1>3, <2>4, <2>8, <2>9, <2>10
<1>10. Decoded(Shards(D), Shards(P), pool.ds) = v
  <2> DEFINE dd == Shards(D)
             pp == Shards(P)
             n  == pool.ds
  <2>1. /\ n \in Nat /\ v = [i \in 0..(n - 1) |-> v[i]]
        /\ DOMAIN dd \subseteq 0..(n - 1) /\ \A i \in DOMAIN dd : dd[i] = v[i]
        /\ DOMAIN pp \subseteq Nat /\ \A p \in DOMAIN pp : pp[p] = v
        /\ DOMAIN dd = 0..(n - 1) \/ DOMAIN pp # {}
    BY <1>3, <1>4, <1>7, <1>8, <1>9
  <2> HIDE DEF dd, pp, n
  <2>2. Decoded(dd, pp, n) = v
    BY ONLY <2>1, DecodesTo
  <2> QED
    BY <2>2 DEF dd, pp, n
<1>11. Out(s) = v
  BY <1>1, <1>10 DEF Out, D, P
<1>12. ASSUME NEW c \in Missing(s)
       PROVE  IF IsData(c) THEN Out(s)[Index(c)] = row[c].hash ELSE Out(s) = row[c].hash
  <2>1. c \in Refs(s)
    BY DEF Missing
  <2> QED
    BY <1>1, <1>5, <1>6, <1>11, <2>1
<1> QED
  BY <1>11, <1>12 DEF v
-----------------------------------------------------------------------------
(* What holds of the data: the worker.                                     *)

(* A step that touches no rows and no files.                               *)
LEMMA PaperKept ==
    ASSUME Typed, Typed', Kept, UNCHANGED <<row, file, want, wr>>, pool'.ds = pool.ds,
           pend' \cup run' = pend \cup run, RebuildBatch', ParityBatch'
    PROVE  Kept'
<1>1. SameSlots /\ \A c \in Chunk : SameRow(c)
  BY DEF SameSlots, SameRow
<1>2. \A s : StaleParity(s)' <=> StaleParity(s)
  BY <1>1, StaleIs
<1>3. pool'.ds >= pool.ds
  <2>1. pool.ds \in DS..(DS + MaxAdd)
    BY DEF Typed, AdminTyped, PoolRow
  <2> QED
    BY <2>1, Shapes
<1>4. Held' /\ Coded'
  BY <1>1, <1>2, <1>3, HeldFrame, CodedFrame DEF Kept
<1> QED
  BY <1>4 DEF Kept

LEMMA PlainKept ==
    ASSUME Typed, Typed', Kept, UNCHANGED <<row, file, want, wr>>, pool'.ds = pool.ds,
           pend' \cup run' = pend \cup run, wk'.pc \notin {"load", "work", "rows", "compute", "commit"}
    PROVE  Kept'
  BY PaperKept, NoRebuild, NoParity

LEMMA LoadMetaKept ==
    ASSUME Typed, Kept, LoadMeta
    PROVE  Kept'
<1>1. UNCHANGED <<pool, disk, row, file, want, wr, pend, run, rrun>> /\ wk.pc = "load"
  BY DEF LoadMeta, tables
<1>2. /\ Typed' /\ wk'.pc = "work" /\ wk'.ents = wk.ents /\ wk'.meta = Meta
      /\ wk'.todo = BatchOf /\ DOMAIN wk'.fix = {}
  BY LoadMetaTyped
<1>3. BatchOf' = BatchOf
  BY <1>2 DEF BatchOf
<1>4. wk.ents \subseteq rrun
  BY <1>1 DEF Kept, RebuildBatch
<1>5. \A c \in Chunk : wk'.meta.row[c] = row'[c] /\ wk'.meta.loc[c] = Loc(c)'
  BY <1>1, <1>2, MetaIs DEF Typed, Loc
<1>6. RebuildBatch'
  BY <1>1, <1>2, <1>3, <1>4, <1>5 DEF RebuildBatch, Current
<1> QED
  BY <1>1, <1>2, <1>6, PaperKept, NoParity

LEMMA LoadRowsKept ==
    ASSUME Typed, Kept, LoadRows
    PROVE  Kept'
<1>1. UNCHANGED <<pool, disk, row, file, want, wr, pend, run, rrun>> /\ wk.pc = "rows"
  BY DEF LoadRows, tables
<1>2. Typed' /\ wk'.pc = "compute" /\ wk'.meta = Meta /\ wk'.todo = wk.todo
  BY LoadRowsTyped
<1>3. wk.todo = run
  BY <1>1 DEF Kept, ParityBatch
<1>4. \A c \in Chunk : wk'.meta.row[c] = row'[c] /\ wk'.meta.loc[c] = Loc(c)'
  BY <1>1, <1>2, MetaIs DEF Typed, Loc
<1>5. \A c \in Chunk : Current(c)' /\ (wk'.meta.row[c].st = "written" => Written(c)')
  BY <1>4 DEF Current, Written
<1>6. ParityBatch'
  BY <1>1, <1>2, <1>3, <1>4, <1>5 DEF ParityBatch
<1> QED
  BY <1>1, <1>2, <1>6, PaperKept, NoRebuild

LEMMA RebuildReadKept ==
    ASSUME Typed, Shaped, Kept, Allowed, Calm, NEW s \in Stripe, RebuildRead(s)
    PROVE  Kept'
<1>0. RebuildBatch
  BY DEF Kept
<1>1. UNCHANGED <<pool, disk, row, file, want, wr, pend, run, rrun>>
  BY DEF RebuildRead, tables
<1>2. /\ Typed'
      /\ wk.pc = "work" /\ wk'.pc = "work" /\ s \in wk.todo
      /\ wk'.ents = wk.ents /\ wk'.meta = wk.meta
      /\ \/ wk'.todo = wk.todo \ {s} /\ wk'.fix = wk.fix
         \/ /\ Missing(s) # {} /\ Cardinality(Refs(s) \ Missing(s)) >= wk.meta.ds
            /\ wk'.todo = wk.todo /\ wk'.fix = Rebuilt(s)
  BY RebuildReadTyped
<1>3. BatchOf' = BatchOf /\ wk'.todo \subseteq BatchOf
  BY <1>0, <1>2 DEF BatchOf, RebuildBatch
<1>4. \A c \in Chunk : (Current(c)' <=> Current(c)) /\ (Written(c)' <=> Written(c))
  BY <1>1, <1>2 DEF Current, Loc, Written
<1>5. \A z : StaleParity(z)' <=> StaleParity(z)
  BY <1>1 DEF StaleParity, Filling
<1>6. ASSUME NEW c \in DOMAIN wk'.fix
      PROVE  /\ StripeOf(c) \in BatchOf /\ Written(c)
             /\ IsData(c) => wk'.fix[c] = row[c].hash
             /\ ~IsData(c) => /\ DOMAIN wk'.fix[c] = 0..(pool.ds - 1)
                              /\ ~StaleParity(StripeOf(c)) => wk'.fix[c] = row[c].hash
  <2>1. CASE c \in DOMAIN wk.fix /\ wk'.fix[c] = wk.fix[c]
    BY <1>0, <1>2, <2>1 DEF RebuildBatch
  <2>2. CASE wk'.fix = Rebuilt(s) /\ c \notin DOMAIN wk.fix /\ Missing(s) # {}
             /\ Cardinality(Refs(s) \ Missing(s)) >= wk.meta.ds
    <3>1. c \in Missing(s)
      BY <2>2 DEF Rebuilt
    <3>2. wk'.fix[c] = IF IsData(c) THEN Out(s)[Index(c)] ELSE Out(s)
      BY <2>2, <3>1 DEF Rebuilt
    <3>3. c \in Chunk /\ StripeOf(c) = s /\ Written(c) /\ wk.meta.ds = pool.ds /\ s \in BatchOf
      BY <1>2, <3>1, MissingIs
    <3>4. ~StaleParity(s) => IF IsData(c) THEN Out(s)[Index(c)] = row[c].hash ELSE Out(s) = row[c].hash
      BY <1>2, <2>2, <3>1, OutRight
    <3>5. IsData(c) => ~StaleParity(s)
      BY <1>2, <3>1, LostHere
    <3>6. DOMAIN Out(s) = 0..(pool.ds - 1)
      <4>1. Out(s) \in [0..(wk.meta.ds - 1) -> Element]
        BY <1>2, OutTyped
      <4> QED
        BY <3>3, <4>1
    <3> QED
      BY <3>2, <3>3, <3>4, <3>5, <3>6
  <2>3. c \in DOMAIN wk.fix \/ c \notin DOMAIN wk.fix
    OBVIOUS
  <2>4. wk'.fix = Rebuilt(s) /\ c \in DOMAIN wk.fix => wk'.fix[c] = wk.fix[c]
    BY DEF Rebuilt
  <2> QED
    BY <1>2, <2>1, <2>2, <2>4
<1>7. RebuildBatch'
  <2>1. wk'.ents \subseteq rrun'
    BY <1>0, <1>1, <1>2 DEF RebuildBatch
  <2>2. \A c \in Chunk : StripeOf(c) \in BatchOf =>
            wk'.meta.row[c] = row'[c] /\ (Written(c)' /\ ~Current(c)' => file'[c] = Nil)
    BY <1>0, <1>1, <1>2, <1>4 DEF RebuildBatch
  <2>3. \A c \in DOMAIN wk'.fix :
            /\ StripeOf(c) \in BatchOf' /\ Written(c)'
            /\ IsData(c) => wk'.fix[c] = row'[c].hash
            /\ ~IsData(c) => /\ DOMAIN wk'.fix[c] = 0..(pool'.ds - 1)
                             /\ ~StaleParity(StripeOf(c))' => wk'.fix[c] = row'[c].hash
    <3>1. \A c \in DOMAIN wk'.fix : c \in Chunk
      BY <1>2, WorkerParts DEF Typed, WorkerTyped
    <3> QED
      BY <1>1, <1>3, <1>4, <1>5, <1>6, <3>1
  <2> QED
    BY <1>2, <1>3, <2>1, <2>2, <2>3 DEF RebuildBatch
<1> QED
  BY <1>1, <1>2, <1>7, PaperKept, NoParity

(* Chunks of the batch are written back, by a rebuild that goes on or one  *)
(* that fails.                                                             *)
LEMMA StoreKept ==
    ASSUME Typed, Typed', Kept, wk.pc = "work", wk'.pc = "work", wk'.ents = wk.ents, wk'.meta = wk.meta,
           wk'.todo \subseteq wk.todo, DOMAIN wk'.fix \subseteq DOMAIN wk.fix,
           \A c \in DOMAIN wk'.fix : wk'.fix[c] = wk.fix[c],
           UNCHANGED <<pool, disk, row, want, wr, pend, run, rrun>>,
           NEW P \in SUBSET DOMAIN wk.fix,
           \A c \in Chunk : file'[c] = IF c \in P /\ Current(c) THEN wk.fix[c] ELSE file[c]
    PROVE  Kept'
<1>0. Held /\ Coded /\ RebuildBatch
  BY DEF Kept
<1>1. SameSlots /\ \A c \in Chunk : SameRow(c)
  BY DEF SameSlots, SameRow
<1>2. \A s : StaleParity(s)' <=> StaleParity(s)
  BY <1>1, StaleIs
<1>3. \A c \in P : /\ StripeOf(c) \in BatchOf /\ Written(c)
                   /\ IsData(c) \/ ~StaleParity(StripeOf(c)) => wk.fix[c] = row[c].hash
  BY <1>0 DEF RebuildBatch
<1>4. pool'.ds >= pool.ds
  <2>1. pool.ds \in DS..(DS + MaxAdd)
    BY DEF Typed, AdminTyped, PoolRow
  <2> QED
    BY <2>1, Shapes
<1>5. Held'
  <2>1. \A c \in Chunk : IsData(c) => file'[c] = file[c] \/ (Written(c) /\ file'[c] = row[c].hash)
    BY <1>3
  <2> QED
    BY <1>0, <1>1, <2>1, HeldFrame
<1>6. Coded'
  <2>1. \A p \in Chunk : ~StaleParity(StripeOf(p)) => file'[p] \in {file[p], row[p].hash, Nil}
    BY <1>3
  <2> QED
    BY <1>0, <1>1, <1>2, <1>4, <2>1, CodedFrame
<1>7. RebuildBatch'
  <2>1. BatchOf' = BatchOf
    BY DEF BatchOf
  <2>2. \A c \in Chunk : (Current(c)' <=> Current(c)) /\ (Written(c)' <=> Written(c))
    BY DEF Current, Loc, Written
  <2>3. wk'.ents \subseteq rrun' /\ wk'.todo \subseteq BatchOf'
    BY <1>0, <2>1 DEF RebuildBatch
  <2>4. \A c \in Chunk : StripeOf(c) \in BatchOf' =>
            wk'.meta.row[c] = row'[c] /\ (Written(c)' /\ ~Current(c)' => file'[c] = Nil)
    BY <1>0, <2>1, <2>2 DEF RebuildBatch
  <2>5. \A c \in DOMAIN wk'.fix : c \in Chunk /\ c \in DOMAIN wk.fix
    BY WorkerParts DEF Typed
  <2>6. \A c \in DOMAIN wk'.fix :
            /\ StripeOf(c) \in BatchOf' /\ Written(c)'
            /\ IsData(c) => wk'.fix[c] = row'[c].hash
            /\ ~IsData(c) => /\ DOMAIN wk'.fix[c] = 0..(pool'.ds - 1)
                             /\ ~StaleParity(StripeOf(c))' => wk'.fix[c] = row'[c].hash
    <3> SUFFICES ASSUME NEW c \in DOMAIN wk'.fix
                 PROVE  /\ StripeOf(c) \in BatchOf' /\ Written(c)'
                        /\ IsData(c) => wk'.fix[c] = row'[c].hash
                        /\ ~IsData(c) => /\ DOMAIN wk'.fix[c] = 0..(pool'.ds - 1)
                                         /\ ~StaleParity(StripeOf(c))' => wk'.fix[c] = row'[c].hash
      OBVIOUS
    <3>1. c \in Chunk /\ c \in DOMAIN wk.fix /\ wk'.fix[c] = wk.fix[c]
      BY <2>5
    <3>2. /\ StripeOf(c) \in BatchOf /\ Written(c)
          /\ IsData(c) => wk.fix[c] = row[c].hash
          /\ ~IsData(c) => /\ DOMAIN wk.fix[c] = 0..(pool.ds - 1)
                           /\ ~StaleParity(StripeOf(c)) => wk.fix[c] = row[c].hash
      BY <1>0, <3>1 DEF RebuildBatch
    <3>3. pool'.ds = pool.ds /\ row' = row /\ (Written(c)' <=> Written(c))
          /\ (StaleParity(StripeOf(c))' <=> StaleParity(StripeOf(c)))
      BY <1>2, <2>2, <3>1
    <3> QED
      BY <2>1, <3>1, <3>2, <3>3
  <2> QED
    BY <2>3, <2>4, <2>6 DEF RebuildBatch
<1> QED
  BY <1>5, <1>6, <1>7, NoParity DEF Kept

LEMMA SaveKept ==
    ASSUME Typed, Kept, Save
    PROVE  Kept'
<1>0. Held /\ Coded /\ RebuildBatch
  BY DEF Kept
<1>1. UNCHANGED <<pool, disk, file, want, wr, pend, run, rrun>>
  BY DEF Save
<1>2. /\ Typed' /\ wk.pc = "work" /\ wk'.pc = "drop"
      /\ \A c \in Chunk : c \notin DOMAIN wk.fix => row'[c] = row[c]
      /\ \A c \in DOMAIN wk.fix : /\ c \in Chunk /\ row'[c].st = "written" /\ row'[c].hash = wk.fix[c]
  BY SaveTyped
<1>3. \A c \in DOMAIN wk.fix :
        /\ Written(c)
        /\ IsData(c) \/ ~StaleParity(StripeOf(c)) => wk.fix[c] = row[c].hash
        /\ ~IsData(c) => DOMAIN wk.fix[c] = 0..(pool.ds - 1)
  BY <1>0, <1>2 DEF RebuildBatch
<1>4. SameSlots /\ \A c \in Chunk : /\ row'[c].st = "written" <=> row[c].st = "written"
                                    /\ IsData(c) \/ ~StaleParity(StripeOf(c)) => SameRow(c)
  BY <1>1, <1>2, <1>3 DEF SameSlots, SameRow, Written
<1>5. \A s : StaleParity(s)' <=> StaleParity(s)
  BY <1>1, <1>4, StaleIs
<1>6. Held'
  BY <1>0, <1>1, <1>4, HeldFrame
<1>7. pool.ds \in DS..(DS + MaxAdd) /\ pool.ds \in DS..pool.ds
  <2>1. pool.ds \in DS..(DS + MaxAdd)
    BY DEF Typed, AdminTyped, PoolRow
  <2> QED
    BY <2>1, Shapes
<1>8. Coded'
  <2>1. Narrow'
    <3> SUFFICES ASSUME NEW c \in Chunk, ~IsData(c), Written(c)'
                 PROVE  \E k \in DS..pool.ds : DOMAIN row'[c].hash = 0..(k - 1)
      BY <1>1 DEF Narrow
    <3>1. CASE c \in DOMAIN wk.fix
      <4>1. DOMAIN row'[c].hash = 0..(pool.ds - 1)
        BY <1>2, <1>3, <3>1
      <4> QED
        BY <1>7, <4>1
    <3>2. CASE c \notin DOMAIN wk.fix
      <4>1. row'[c] = row[c] /\ Written(c)
        BY <1>2, <3>2 DEF Written
      <4> QED
        BY <1>0, <4>1 DEF Coded, Narrow
    <3> QED
      BY <3>1, <3>2
  <2>2. Fresh'
    <3> SUFFICES ASSUME NEW s \in Stripe, ~StaleParity(s)', NEW p \in Chunk, StripeOf(p) = s, ~IsData(p),
                        Written(p)'
                 PROVE  Encodes(s, row[p].hash, file[p])'
      BY DEF Fresh, ParityOf
    <3>1. ~StaleParity(s) /\ Written(p) /\ row'[p].hash = row[p].hash
      BY <1>4, <1>5 DEF SameRow, Written
    <3>2. Encodes(s, row[p].hash, file[p])
      BY <1>0, <3>1 DEF Coded, Fresh, ParityOf
    <3>3. PICK k \in DS..pool.ds : row[p].hash = Vec(s, k) /\ Covers(s, k)
      BY <3>2 DEF Encodes
    <3>4. k \in DS..(DS + MaxAdd)
      BY <1>7, Shapes
    <3>5. Vec(s, k)' = Vec(s, k) /\ Covers(s, k)'
      BY <1>4, <3>3, <3>4, VecSame
    <3>6. row'[p].hash = Vec(s, k)' /\ file'[p] \in {row'[p].hash, Nil} /\ k \in DS..pool'.ds
      BY <1>1, <3>1, <3>2, <3>3, <3>5 DEF Encodes
    <3> QED
      BY <3>5, <3>6 DEF Encodes
  <2>3. ParityHasData'
    <3> SUFFICES ASSUME NEW s \in Stripe, NEW p \in Chunk, StripeOf(p) = s, ~IsData(p), Written(p)'
                 PROVE  DataIn(s)'
      BY DEF ParityHasData, ParityOf
    <3>1. DataIn(s)
      BY <1>0, <1>4 DEF Coded, ParityHasData, ParityOf, Written
    <3>2. \A c \in Chunk : Written(c) => Written(c)'
      BY <1>4 DEF Written
    <3> QED
      BY <3>1, <3>2 DEF DataIn
  <2> QED
    BY <2>1, <2>2, <2>3 DEF Coded
<1> QED
  BY <1>2, <1>6, <1>8, NoRebuild, NoParity DEF Kept

(* A stripe of the batch that nothing has changed since is encoded as it is. *)
LEMMA EncodesNow ==
    ASSUME Typed, Shaped, Kept, Allowed, Calm, wk.pc = "compute", NEW s \in run, ~Dirty(s), DataIn(s)
    PROVE  /\ s \in Stripe /\ s \in wk.todo /\ Complete(s) /\ Encoded(s) = Vec(s, pool.ds)
           /\ \A p \in ParityOf(s) : row[p].st # "none" =>
                p \in ShapeRows(s) /\ (Current(p) \/ (~Written(p) /\ file[p] = Nil))
<1>0. Held /\ ParityBatch /\ Typed
  BY DEF Kept
<1>1. /\ s \in Stripe /\ s \in wk.todo /\ adding = Nil
      /\ wk.meta.ds = pool.ds /\ wk.meta.ps = pool.ps
  BY <1>0 DEF Typed, QueuesTyped, ParityBatch, Shaped
<1>2. \A c \in Chunk : StripeOf(c) = s =>
        wk.meta.row[c] = row[c] /\ (Current(c) \/ (~Written(c) /\ file[c] = Nil))
  BY <1>0 DEF ParityBatch
<1>3. LostIn(s) = {} /\ \A w \in Writers : ~Filling(w, s)
  <2>1. StaleParity(s)
    BY DEF StaleParity
  <2> QED
    BY <1>1, <2>1 DEF Calm, Allowed, Dirty
<1>4. PICK d \in Chunk : StripeOf(d) = s /\ IsData(d) /\ Written(d)
  BY DEF DataIn
<1>5. s \in Stripes
  BY <1>1, <1>4 DEF Stripes, Slots, Written
<1>6. \A c \in Chunk : StripeOf(c) = s =>
        (row[c].st # "none" <=> Index(c) < (IF IsData(c) THEN pool.ds ELSE pool.ps))
  <2>1. adding # "data" /\ adding # "parity"
    BY <1>1, SliceIs
  <2> QED
    BY <1>5, <2>1 DEF Shaped, Width
<1>7. \A c \in Chunk : StripeOf(c) = s /\ IsData(c) /\ Written(c) =>
        c \in JobData(s) /\ Found(c) = row[c].hash /\ Found(c) # Nil
  <2> SUFFICES ASSUME NEW c \in Chunk, StripeOf(c) = s, IsData(c), Written(c)
               PROVE  c \in JobData(s) /\ Found(c) = row[c].hash /\ Found(c) # Nil
    OBVIOUS
  <2>1. row[c].st = "written" /\ row[c].st # "none" /\ Current(c) /\ wk.meta.row[c] = row[c]
    BY <1>2 DEF Written
  <2>2. Index(c) < wk.meta.ds
    BY <1>1, <1>6, <2>1
  <2>3. c \in JobData(s)
    BY <2>1, <2>2 DEF JobData
  <2>4. \A w \in Writers : wr[w].slot # c
    <3>1. c # Nil
      BY SliceIs
    <3> QED
      BY <1>3, <3>1 DEF Filling
  <2>5. file[c] # Nil
    BY <1>3, <2>1, <2>4 DEF LostIn, Slots
  <2>6. file[c] = row[c].hash
    BY <1>0, <2>5, HeldFile
  <2> QED
    BY <2>1, <2>3, <2>5, <2>6 DEF Found
<1>8. \A c \in JobData(s) : c \in Chunk /\ StripeOf(c) = s /\ IsData(c) /\ Written(c)
  BY <1>2 DEF JobData, Written
<1>9. Computable(s)
  <2>1. d \in JobData(s)
    BY <1>4, <1>7
  <2>2. \A c \in JobData(s) : Found(c) # Nil
    BY <1>7, <1>8
  <2> QED
    BY <2>1, <2>2 DEF Computable
<1>10. ShapeRows(s) = {c \in KindOf(s, FALSE) : Index(c) < pool.ps}
  <2>1. \A c \in Chunk : StripeOf(c) = s /\ ~IsData(c) =>
            (wk.meta.row[c].st # "none" <=> Index(c) < pool.ps)
    BY <1>2, <1>6
  <2>2. \A c \in Chunk : ~IsData(c) <=> IsData(c) = FALSE
    BY ChunkIs
  <2> QED
    BY <1>1, <2>1, <2>2 DEF ShapeRows, JobParity, KindOf
<1>11. Complete(s)
  <2>1. pool.ps \in Nat /\ pool.ps <= PS + MaxAdd
    <3>1. pool.ps \in PS..(PS + MaxAdd)
      BY DEF Typed, AdminTyped, PoolRow
    <3> QED
      BY <3>1, Shapes
  <2>2. Cardinality({c \in KindOf(s, FALSE) : Index(c) < pool.ps}) = pool.ps
    BY <1>1, <2>1, KindCount
  <2> QED
    BY <1>1, <1>9, <1>10, <2>2 DEF Complete
<1>12. Encoded(s) = Vec(s, pool.ds)
  <2> DEFINE n == pool.ds
             u == Encoded(s)
             v == Vec(s, pool.ds)
  <2>1. u = [i \in 0..(n - 1) |-> u[i]]
    BY <1>1 DEF Encoded
  <2>2. v = [i \in 0..(n - 1) |-> v[i]]
    BY DEF Vec
  <2>3. ASSUME NEW i \in 0..(n - 1) PROVE u[i] = v[i]
    <3>1. i \in Nat /\ i < DS + MaxAdd
      <4>1. pool.ds \in DS..(DS + MaxAdd)
        BY DEF Typed, AdminTyped, PoolRow
      <4> QED
        BY <4>1, Shapes
    <3>2. Slot(s, i) \in Chunk /\ IsData(Slot(s, i)) /\ StripeOf(Slot(s, i)) = s /\ Index(Slot(s, i)) = i
      BY <1>1, <3>1, SlotIs
    <3>3. v[i] = IF Written(Slot(s, i)) THEN row[Slot(s, i)].hash ELSE Zeros
      BY DEF Vec
    <3>4. \/ u[i] = Zeros /\ \A c \in JobData(s) : Index(c) # i
          \/ \E c \in JobData(s) : Index(c) = i /\ u[i] = Found(c)
      BY <1>1, <1>9, EncodedIs
    <3>5. CASE u[i] = Zeros /\ \A c \in JobData(s) : Index(c) # i
      <4>1. ~Written(Slot(s, i))
        BY <1>7, <3>2, <3>5
      <4> QED
        BY <3>3, <3>5, <4>1
    <3>6. CASE \E c \in JobData(s) : Index(c) = i /\ u[i] = Found(c)
      <4>1. PICK c \in JobData(s) : Index(c) = i /\ u[i] = Found(c)
        BY <3>6
      <4>2. c = Slot(s, i) /\ Written(c) /\ Found(c) = row[c].hash
        BY <1>7, <1>8, <4>1, DataIsSlot
      <4> QED
        BY <3>3, <4>1, <4>2
    <3> QED
      BY <3>4, <3>5, <3>6
  <2> HIDE DEF u, v, n
  <2>4. u = v
    BY <2>1, <2>2, <2>3
  <2> QED
    BY <2>4 DEF u, v
<1>13. ASSUME NEW p \in ParityOf(s), row[p].st # "none"
       PROVE  p \in ShapeRows(s) /\ (Current(p) \/ (~Written(p) /\ file[p] = Nil))
  <2>1. p \in Chunk /\ StripeOf(p) = s /\ ~IsData(p)
    BY DEF ParityOf
  <2>2. wk.meta.row[p].st # "none" /\ Index(p) < wk.meta.ps
    BY <1>1, <1>2, <1>6, <1>13, <2>1
  <2> QED
    BY <1>2, <2>1, <2>2 DEF ShapeRows, JobParity
<1> QED
  BY <1>1, <1>11, <1>12, <1>13

LEMMA ComputeParityKept ==
    ASSUME Typed, Shaped, Kept, Allowed, Calm, ComputeParity
    PROVE  Kept'
<1>0. Held /\ Coded /\ ParityBatch
  BY DEF Kept
<1>1. UNCHANGED <<pool, disk, row, pend, run, rpend, rrun, want, wr>>
  BY DEF ComputeParity, tables
<1>2. /\ Typed' /\ wk.pc = "compute" /\ wk'.pc = "commit"
      /\ DOMAIN wk'.fix = UNION {ShapeRows(s) : s \in {s \in wk.todo : Complete(s)}}
      /\ \A c \in DOMAIN wk'.fix : /\ c \in Chunk /\ ~IsData(c) /\ StripeOf(c) \in wk.todo
                                   /\ Complete(StripeOf(c)) /\ c \in ShapeRows(StripeOf(c))
                                   /\ wk'.fix[c] = Encoded(StripeOf(c))
      /\ \A c \in Chunk :
           \/ file'[c] = file[c] /\ (StripeOf(c) \in wk.todo /\ Computable(StripeOf(c))
                                     => c \notin ShapeRows(StripeOf(c)) \/ ~Current(c))
           \/ /\ ~IsData(c) /\ StripeOf(c) \in wk.todo /\ Computable(StripeOf(c)) /\ Current(c)
              /\ c \in ShapeRows(StripeOf(c)) /\ file'[c] = Encoded(StripeOf(c))
  BY ComputeParityTyped
<1>3. wk.todo = run /\ wk.meta.ds = pool.ds /\ run \subseteq Stripe
  BY <1>0, <1>2 DEF ParityBatch, Shaped, Typed, QueuesTyped
<1>4. SameSlots /\ \A c \in Chunk : SameRow(c)
  BY <1>1 DEF SameSlots, SameRow
<1>5. \A s : StaleParity(s)' <=> StaleParity(s)
  BY <1>1, <1>4, StaleIs
<1>6. pool'.ds >= pool.ds /\ pool.ds \in DS..(DS + MaxAdd)
  <2>1. pool.ds \in DS..(DS + MaxAdd)
    BY DEF Typed, AdminTyped, PoolRow
  <2> QED
    BY <1>1, <2>1, Shapes
<1>7. Held'
  <2>1. \A c \in Chunk : IsData(c) => file'[c] = file[c]
    BY <1>2
  <2> QED
    BY <1>0, <1>1, <1>4, <2>1, HeldFrame
<1>8. Coded'
  <2>1. \A p \in Chunk : ~StaleParity(StripeOf(p)) => file'[p] = file[p]
    BY <1>2, <1>3 DEF StaleParity
  <2> QED
    BY <1>0, <1>2, <1>4, <1>5, <1>6, <2>1, CodedFrame
<1>9. ASSUME NEW p \in DOMAIN wk'.fix
      PROVE  /\ ~IsData(p) /\ StripeOf(p) \in run' /\ DataIn(StripeOf(p))'
             /\ DOMAIN wk'.fix[p] = 0..(pool'.ds - 1)
  <2> DEFINE s == StripeOf(p)
  <2>1. ~IsData(p) /\ s \in run /\ Computable(s) /\ wk'.fix[p] = Encoded(s)
    BY <1>2, <1>3 DEF Complete
  <2>2. PICK c \in JobData(s) : TRUE
    BY <2>1 DEF Computable
  <2>3. c \in Chunk /\ StripeOf(c) = s /\ IsData(c) /\ wk.meta.row[c].st = "written"
    BY <2>2 DEF JobData
  <2>4. Written(c)
    BY <1>0, <1>2, <2>1, <2>3 DEF ParityBatch
  <2>5. \E b \in Chunk : StripeOf(b) = s /\ IsData(b) /\ Written(b)'
    BY <1>1, <2>3, <2>4 DEF Written
  <2>6. DOMAIN Encoded(s) = 0..(pool.ds - 1)
    BY <1>2, <1>3, <2>1, EncodedIs
  <2> QED
    BY <1>1, <2>1, <2>5, <2>6 DEF DataIn
<1>10. ASSUME NEW s \in run, ~Dirty(s), DataIn(s), NEW p \in ParityOf(s), row[p].st # "none"
       PROVE  /\ p \in DOMAIN wk'.fix /\ wk'.fix[p] = Vec(s, pool.ds)
              /\ file'[p] \in {wk'.fix[p], Nil}
  <2>1. /\ s \in wk.todo /\ Complete(s) /\ Encoded(s) = Vec(s, pool.ds) /\ p \in ShapeRows(s)
        /\ Current(p) \/ (~Written(p) /\ file[p] = Nil)
    BY <1>2, <1>10, EncodesNow
  <2>2. p \in Chunk /\ StripeOf(p) = s /\ Computable(s)
    BY <2>1 DEF ParityOf, Complete
  <2>3. p \in DOMAIN wk'.fix
    BY <1>2, <2>1
  <2>4. wk'.fix[p] = Encoded(s)
    BY <1>2, <2>2, <2>3
  <2>5. file'[p] = Encoded(s) \/ (file'[p] = file[p] /\ ~Current(p))
    BY <1>2, <2>1, <2>2
  <2> QED
    BY <2>1, <2>3, <2>4, <2>5
<1>11. ParityBatch'
  <2>1. \A s \in run : Dirty(s)' \/ ~DataIn(s)'
            \/ \A p \in ParityOf(s) : row'[p].st # "none" =>
                    /\ p \in DOMAIN wk'.fix /\ wk'.fix[p] = Vec(s, pool.ds)'
                    /\ file'[p] \in {wk'.fix[p], Nil}
    <3> SUFFICES ASSUME NEW s \in run, ~Dirty(s)', DataIn(s)', NEW p \in ParityOf(s), row'[p].st # "none"
                 PROVE  /\ p \in DOMAIN wk'.fix /\ wk'.fix[p] = Vec(s, pool.ds)'
                        /\ file'[p] \in {wk'.fix[p], Nil}
      OBVIOUS
    <3>1. ~Dirty(s) /\ DataIn(s)
      BY <1>1 DEF Dirty, Filling, DataIn, Written
    <3>2. Vec(s, pool.ds)' = Vec(s, pool.ds)
      BY <1>1 DEF Vec, Written
    <3> QED
      BY <1>1, <1>10, <3>1, <3>2
  <2> QED
    BY <1>1, <1>2, <1>9, <2>1 DEF ParityBatch, ParityOf
<1> QED
  BY <1>2, <1>7, <1>8, <1>11, NoRebuild DEF Kept

LEMMA CommitParityKept ==
    ASSUME Typed, Shaped, Kept, CommitParity
    PROVE  Kept'
<1>0. Held /\ Coded /\ ParityBatch
  BY DEF Kept
<1>1. UNCHANGED <<pool, disk, pend, file, want, wr>>
  BY DEF CommitParity
<1>2. /\ Typed' /\ wk.pc = "commit" /\ wk'.pc = "idle" /\ run' = {}
      /\ \A c \in Chunk : c \notin DOMAIN wk.fix => row'[c] = row[c]
      /\ \A c \in DOMAIN wk.fix : /\ c \in Chunk /\ row'[c].st = "written" /\ row'[c].hash = wk.fix[c]
  BY CommitParityTyped
<1>3. /\ \A p \in DOMAIN wk.fix : /\ ~IsData(p) /\ StripeOf(p) \in run /\ DataIn(StripeOf(p))
                                  /\ DOMAIN wk.fix[p] = 0..(pool.ds - 1) /\ row[p].st # "none"
      /\ \A s \in run : Dirty(s) \/ ~DataIn(s)
              \/ \A p \in ParityOf(s) : row[p].st # "none" =>
                      /\ p \in DOMAIN wk.fix /\ wk.fix[p] = Vec(s, pool.ds)
                      /\ file[p] \in {wk.fix[p], Nil}
  BY <1>0, <1>2 DEF ParityBatch, Shaped
<1>4. SameSlots /\ \A c \in Chunk : IsData(c) => SameRow(c)
  BY <1>1, <1>2, <1>3 DEF SameSlots, SameRow
<1>5. \A s : /\ Dirty(s) => StaleParity(s)'
             /\ s \notin run => (StaleParity(s)' <=> StaleParity(s))
  BY <1>1, <1>2 DEF StaleParity, Dirty, Filling
<1>6. Held'
  BY <1>0, <1>1, <1>4, HeldFrame
<1>7. /\ pool.ds \in DS..(DS + MaxAdd) /\ pool.ds \in DS..pool.ds
      /\ \A k \in DS..pool.ds : k \in DS..(DS + MaxAdd)
  <2>1. pool.ds \in DS..(DS + MaxAdd)
    BY DEF Typed, AdminTyped, PoolRow
  <2> QED
    BY <2>1, Shapes
<1>8. \A s \in Stripe, k \in DS..(DS + MaxAdd) :
        Vec(s, k)' = Vec(s, k) /\ (Covers(s, k)' <=> Covers(s, k)) /\ (DataIn(s)' <=> DataIn(s))
  BY <1>4, VecSame
<1>9. Narrow'
  <2> SUFFICES ASSUME NEW c \in Chunk, ~IsData(c), Written(c)'
               PROVE  \E k \in DS..pool.ds : DOMAIN row'[c].hash = 0..(k - 1)
    BY <1>1 DEF Narrow
  <2>1. CASE c \in DOMAIN wk.fix
    <3>1. DOMAIN row'[c].hash = 0..(pool.ds - 1)
      BY <1>2, <1>3, <2>1
    <3> QED
      BY <1>7, <3>1
  <2>2. CASE c \notin DOMAIN wk.fix
    <3>1. row'[c] = row[c] /\ Written(c)
      BY <1>2, <2>2 DEF Written
    <3> QED
      BY <1>0, <3>1 DEF Coded, Narrow
  <2> QED
    BY <2>1, <2>2
<1>10. ParityHasData'
  <2> SUFFICES ASSUME NEW s \in Stripe, NEW p \in Chunk, StripeOf(p) = s, ~IsData(p), Written(p)'
               PROVE  DataIn(s)'
    BY DEF ParityHasData, ParityOf
  <2>1. DataIn(s)
    <3>1. CASE p \in DOMAIN wk.fix
      BY <1>3, <3>1
    <3>2. CASE p \notin DOMAIN wk.fix
      <4>1. Written(p)
        BY <1>2, <3>2 DEF Written
      <4> QED
        BY <1>0, <4>1 DEF Coded, ParityHasData, ParityOf
    <3> QED
      BY <3>1, <3>2
  <2> QED
    BY <1>7, <1>8, <2>1
<1>11. Fresh'
  <2> SUFFICES ASSUME NEW s \in Stripe, ~StaleParity(s)', NEW p \in Chunk, StripeOf(p) = s, ~IsData(p),
                      Written(p)'
               PROVE  Encodes(s, row[p].hash, file[p])'
    BY DEF Fresh, ParityOf
  <2>1. CASE s \in run
    <3>1. ~Dirty(s)
      BY <1>5
    <3>2. DataIn(s)
      <4>1. DataIn(s)'
        BY <1>10 DEF ParityHasData, ParityOf
      <4> QED
        BY <1>7, <1>8, <4>1
    <3>3. row[p].st # "none"
      <4>1. CASE p \in DOMAIN wk.fix
        BY <1>3, <4>1
      <4>2. CASE p \notin DOMAIN wk.fix
        BY <1>2, <4>2 DEF Written
      <4> QED
        BY <4>1, <4>2
    <3>4. /\ p \in DOMAIN wk.fix /\ wk.fix[p] = Vec(s, pool.ds) /\ file[p] \in {wk.fix[p], Nil}
      BY <1>3, <2>1, <3>1, <3>2, <3>3 DEF ParityOf
    <3>5. row'[p].hash = Vec(s, pool.ds)' /\ file'[p] \in {row'[p].hash, Nil}
      <4>1. \A k \in DS..(DS + MaxAdd) : k = pool.ds => Vec(s, k)' = Vec(s, pool.ds)
        BY <1>8
      <4>2. Vec(s, pool.ds)' = Vec(s, pool.ds)
        BY <1>1, <1>7, <4>1 DEF Vec
      <4>3. row'[p].hash = wk.fix[p]
        BY <1>2, <3>4
      <4> QED
        BY <1>1, <3>4, <4>2, <4>3
    <3>6. Covers(s, pool.ds)
      <4> SUFFICES ASSUME NEW i \in pool.ds..(DS + MaxAdd - 1) PROVE ~Written(Slot(s, i))
        BY DEF Covers
      <4>1. i \in Nat /\ i < DS + MaxAdd /\ ~(i < pool.ds)
        BY <1>7, Shapes
      <4>2. Slot(s, i) \in Chunk /\ IsData(Slot(s, i)) /\ StripeOf(Slot(s, i)) = s /\ Index(Slot(s, i)) = i
        BY <4>1, SlotIs
      <4>3. s \in Stripes
        BY <3>3 DEF Stripes, Slots
      <4>4. adding # "data"
        BY <1>2, SliceIs DEF Shaped
      <4> QED
        BY <4>1, <4>2, <4>3, <4>4 DEF Shaped, Width, Written
    <3>7. Covers(s, pool.ds)'
      BY <1>1, <1>7, <1>8, <3>6 DEF Covers
    <3> QED
      BY <1>1, <1>7, <3>5, <3>7 DEF Encodes
  <2>2. CASE s \notin run
    <3>1. ~StaleParity(s) /\ p \notin DOMAIN wk.fix
      BY <1>3, <1>5, <2>2
    <3>2. row'[p] = row[p] /\ Written(p)
      BY <1>2, <3>1 DEF Written
    <3>3. Encodes(s, row[p].hash, file[p])
      BY <1>0, <3>1, <3>2 DEF Coded, Fresh, ParityOf
    <3>4. PICK k \in DS..pool.ds : row[p].hash = Vec(s, k) /\ Covers(s, k)
      BY <3>3 DEF Encodes
    <3>5. Vec(s, k)' = Vec(s, k) /\ Covers(s, k)' /\ k \in DS..pool'.ds
      BY <1>1, <1>7, <1>8, <3>4
    <3>6. row'[p].hash = Vec(s, k)' /\ file'[p] \in {row'[p].hash, Nil}
      BY <1>1, <3>2, <3>3, <3>4, <3>5 DEF Encodes
    <3> QED
      BY <3>5, <3>6 DEF Encodes
  <2> QED
    BY <2>1, <2>2
<1> QED
  BY <1>2, <1>6, <1>9, <1>10, <1>11, NoRebuild, NoParity DEF Kept, Coded

LEMMA ClaimsKept ==
    ASSUME Typed, Kept, ClaimRebuild \/ ClaimParity
    PROVE  Kept'
<1>1. CASE ClaimRebuild
  <2>1. UNCHANGED <<pool, row, file, want, wr, pend, run>> /\ rrun' = rpend \cup rrun
    BY <1>1 DEF ClaimRebuild
  <2>2. Typed' /\ wk'.pc = "load" /\ wk'.ents = rpend \cup rrun
    BY <1>1, ClaimRebuildTyped
  <2>3. RebuildBatch'
    BY <2>1, <2>2 DEF RebuildBatch
  <2> QED
    BY <2>1, <2>2, <2>3, PaperKept, NoParity
<1>2. CASE ClaimParity
  <2>1. UNCHANGED <<pool, row, file, want, wr>>
    BY <1>2 DEF ClaimParity
  <2>2. /\ Typed'
        /\ \/ pend \cup run = {} /\ wk'.pc = "idle" /\ UNCHANGED <<pend, run>>
           \/ /\ wk'.pc = "rows" /\ wk'.todo = pend \cup run /\ run' = pend \cup run /\ pend' = {}
    BY <1>2, ClaimParityTyped
  <2>3. pend' \cup run' = pend \cup run
    BY <2>2
  <2>4. ParityBatch'
    BY <2>2 DEF ParityBatch
  <2> QED
    BY <2>1, <2>2, <2>3, <2>4, PaperKept, NoRebuild
<1> QED
  BY <1>1, <1>2

(* The end of a batch, and of a job.                                       *)
LEMMA EndsKept ==
    ASSUME Typed, Kept,
           DropEntries \/ CountLeft \/ VerifyDisks \/ DisksOnline \/ CountBad \/ PoolOnline \/ EndJob
    PROVE  Kept'
<1>1. CASE DropEntries
  <2>1. UNCHANGED <<pool, row, file, want, wr, pend, run>>
    BY <1>1 DEF DropEntries
  <2> QED
    BY <1>1, <2>1, DropEntriesTyped, PlainKept
<1>2. CASE CountLeft \/ CountBad
  <2>1. Typed' /\ UNCHANGED <<tables, file, want, wr>> /\ wk'.pc \in {"verify", "parity", "job", "pool up"}
    BY <1>2, CountsTyped
  <2>2. UNCHANGED <<pool, row, pend, run>>
    BY <2>1 DEF tables
  <2> QED
    BY <2>1, <2>2, PlainKept
<1>3. CASE VerifyDisks
  <2>1. UNCHANGED <<pool, row, file, want, wr, pend, run>>
    BY <1>3 DEF VerifyDisks, tables
  <2> QED
    BY <1>3, <2>1, VerifyDisksTyped, PlainKept
<1>4. CASE DisksOnline
  BY <1>4, DisksOnlineTyped, PlainKept
<1>5. CASE PoolOnline
  BY <1>5, PoolOnlineTyped, PlainKept
<1>6. CASE EndJob
  BY <1>6, EndJobTyped, PlainKept
<1> QED
  BY <1>1, <1>2, <1>3, <1>4, <1>5, <1>6

LEMMA RebuildWriteKept ==
    ASSUME Typed, Kept, NEW s \in Stripe, RebuildWrite(s)
    PROVE  Kept'
<1>1. UNCHANGED <<pool, disk, row, want, wr, pend, run, rrun>>
  BY DEF RebuildWrite, tables
<1>2. /\ Typed' /\ wk.pc = "work" /\ wk'.pc = "work"
      /\ wk'.ents = wk.ents /\ wk'.meta = wk.meta
      /\ wk'.todo = wk.todo \ {s} /\ wk'.fix = wk.fix
      /\ \A c \in Chunk : file'[c] = IF c \in Fixed(s) /\ Current(c) THEN wk.fix[c] ELSE file[c]
  BY RebuildWriteTyped
<1>3. wk'.todo \subseteq wk.todo
  BY <1>2
<1>4. Fixed(s) \in SUBSET DOMAIN wk.fix
  BY FixedIs
<1> QED
  BY <1>1, <1>2, <1>3, <1>4, StoreKept

LEMMA WorkerKept ==
    ASSUME Typed, Shaped, Kept, Allowed, Calm, WorkerStep
    PROVE  Kept'
<1>1. CASE ClaimRebuild \/ ClaimParity
  BY <1>1, ClaimsKept
<1>2. CASE LoadMeta \/ LoadRows
  BY <1>2, LoadMetaKept, LoadRowsKept
<1>3. CASE Save \/ CommitParity
  BY <1>3, SaveKept, CommitParityKept
<1>4. CASE DropEntries \/ CountLeft \/ VerifyDisks \/ DisksOnline \/ CountBad \/ PoolOnline \/ EndJob
  BY <1>4, EndsKept
<1>5. ASSUME NEW s \in Stripe, RebuildRead(s) PROVE Kept'
  BY <1>5, RebuildReadKept
<1>6. ASSUME NEW s \in Stripe, RebuildWrite(s) PROVE Kept'
  BY <1>6, RebuildWriteKept
<1>7. CASE ComputeParity
  BY <1>7, ComputeParityKept
<1> QED
  BY <1>1, <1>2, <1>3, <1>4, <1>5, <1>6, <1>7 DEF WorkerStep

LEMMA RebuildFailsKept ==
    ASSUME Typed, Kept, NEW s \in Stripe, RebuildFails(s)
    PROVE  Kept'
<1>1. UNCHANGED <<pool, disk, row, want, wr, pend, run, rrun>>
  BY DEF RebuildFails, tables
<1>2. /\ Typed' /\ wk.pc = "work" /\ wk'.pc = "work"
      /\ wk'.ents = wk.ents /\ wk'.meta = wk.meta
      /\ wk'.todo = wk.todo \ {s} /\ DOMAIN wk'.fix = DOMAIN wk.fix \ Fixed(s)
      /\ \A c \in DOMAIN wk'.fix : wk'.fix[c] = wk.fix[c]
      /\ \E P \in SUBSET Fixed(s) : \A c \in Chunk :
               file'[c] = IF c \in P /\ Current(c) THEN wk.fix[c] ELSE file[c]
  BY RebuildFailsTyped
<1>3. PICK P \in SUBSET Fixed(s) : \A c \in Chunk :
               file'[c] = IF c \in P /\ Current(c) THEN wk.fix[c] ELSE file[c]
  BY <1>2
<1>4. P \in SUBSET DOMAIN wk.fix
  BY FixedIs
<1>5. wk'.todo \subseteq wk.todo /\ DOMAIN wk'.fix \subseteq DOMAIN wk.fix
  BY <1>2
<1> QED
  BY <1>1, <1>2, <1>3, <1>4, <1>5, StoreKept

LEMMA StatementFailsKept ==
    ASSUME Typed, Kept, StatementFails
    PROVE  Kept'
<1>1. /\ Typed' /\ UNCHANGED <<tables, file, want, wr>>
      /\ wk'.pc \in {"parity", "drop", "finish", "job", "idle"}
  BY StatementFailsTyped
<1>2. UNCHANGED <<pool, row, pend, run>>
  BY <1>1 DEF tables
<1> QED
  BY <1>1, <1>2, PlainKept

(* A crash that tears no request queues parity that is stored, and no more. *)
LEMMA CrashKept ==
    ASSUME Typed, Kept, faults \in Nat, AllowedStep, Calm, Crash
    PROVE  Kept'
<1>0. Held /\ Coded
  BY DEF Kept
<1>1. /\ Typed' /\ wk'.pc = "idle" /\ \A w \in Writers : wr'[w].slot = Nil
      /\ pend \subseteq pend' /\ UNCHANGED <<pool, row, run, file, want>>
  BY CrashTyped
<1>2. faults' # faults
  <2>1. faults' = faults + 1
    BY DEF Crash
  <2> QED
    BY <2>1
<1>3. \A w \in Writers : wr[w].slot # Nil => wr'[w] = wr[w]
  BY <1>2 DEF Calm, AllowedStep
<1>4. SameSlots
  BY <1>1, <1>3 DEF SameSlots
<1>5. \A c \in Chunk : SameRow(c)
  BY <1>1 DEF SameRow
<1>6. \A s : StaleParity(s) => StaleParity(s)'
  BY <1>1, <1>4, StaleIs
<1>7. pool'.ds >= pool.ds
  <2>1. pool.ds \in DS..(DS + MaxAdd)
    BY DEF Typed, AdminTyped, PoolRow
  <2> QED
    BY <1>1, <2>1, Shapes
<1>8. Held'
  BY <1>0, <1>1, <1>4, <1>5, HeldFrame
<1>9. Coded'
  BY <1>0, <1>1, <1>5, <1>6, <1>7, CodedFrame
<1> QED
  BY <1>1, <1>8, <1>9, NoRebuild, NoParity DEF Kept

LEMMA NextKept ==
    ASSUME Typed, Shaped, Shaped', Kept, Allowed, faults \in Nat, Calm, Next
    PROVE  Kept'
<1>1. Allowed' /\ AllowedStep
  BY DEF Next
<1>2. CASE Request
  BY <1>1, <1>2, RequestKept
<1>3. CASE WorkerStep
  BY <1>3, WorkerKept
<1>4. CASE StatementFails
  BY <1>4, StatementFailsKept
<1>5. CASE Crash
  BY <1>1, <1>5, CrashKept
<1>6. CASE \E s \in Stripe : RebuildFails(s)
  BY <1>6, RebuildFailsKept
<1>7. CASE \E c \in Chunk : LoseFile(c)
  BY <1>7, LoseFileKept
<1> QED
  BY <1>2, <1>3, <1>4, <1>5, <1>6, <1>7 DEF Next

LEMMA StutterKept ==
    ASSUME Typed, Kept, UNCHANGED vars
    PROVE  Kept'
<1>1. UNCHANGED <<pool, disk, row, pend, run, rrun, file, want, wr, wk>>
  BY DEF vars, tables
<1>2. SameSlots /\ \A c \in Chunk : Loc(c)' = Loc(c)
  BY <1>1 DEF SameSlots, Loc
<1>3. Typed'
  BY StutterTyped
<1> QED
  BY <1>1, <1>2, <1>3, QuietKept

LEMMA AllowedStill ==
    ASSUME Allowed, UNCHANGED vars
    PROVE  Allowed'
<1>1. UNCHANGED <<pool, disk, row, pend, run, rpend, rrun, task, file, want, wr, adding, wk>>
  BY DEF vars, tables
<1>2. \A s : (StaleParity(s)' <=> StaleParity(s)) /\ (Queued(s)' <=> Queued(s))
  BY <1>1 DEF StaleParity, Filling, Queued
<1>3. \A s : LostIn(s)' = LostIn(s) /\ (OldShape(s)' <=> OldShape(s))
  BY <1>1 DEF LostIn, OldShape, Slots, Written
<1>4. \A s : (\E w \in Writers : Filling(w, s))' <=> \E w \in Writers : Filling(w, s)
  BY <1>1 DEF Filling
<1>5. Finishing' <=> Finishing
  BY <1>1 DEF Finishing
<1> QED
  BY <1>1, <1>2, <1>3, <1>4, <1>5 DEF Allowed

(* The pool starts with the parity of what it holds, and nothing to do.    *)
LEMMA InitKept ==
    ASSUME Init
    PROVE  Kept /\ Allowed
<1> DEFINE vec(n) == [i \in 0..(DS - 1) |-> IF i < n THEN <<i + 1>> ELSE Zeros]
           held(c, n) == IF n = 0 \/ StripeOf(c) # 1 \/ Index(c) >= (IF IsData(c) THEN DS ELSE PS) THEN None
                      ELSE IF ~IsData(c) THEN [st |-> "written", gen |-> 0, hash |-> vec(n)]
                      ELSE IF Index(c) < n THEN [st |-> "written", gen |-> 0, hash |-> <<Index(c) + 1>>]
                      ELSE [st |-> "reserved", gen |-> 0, hash |-> Nil]
<1>1. PICK n \in {n \in 0..DS : n <= MaxWrite} :
            /\ row  = [c \in Chunk |-> held(c, n)]
            /\ file = [c \in Chunk |-> held(c, n).hash]
            /\ want = [c \in Chunk |-> IF IsData(c) THEN held(c, n).hash ELSE Nil]
            /\ pool = [status |-> "online", ds |-> DS, ps |-> PS]
            /\ pend = {} /\ run = {} /\ rpend = {} /\ rrun = {}
            /\ wr = [w \in Writers |-> Idle]
            /\ adding = Nil /\ wk = NoBatch
  BY DEF Init
<1>2. Typed /\ pool.ds = DS /\ wk.pc = "idle" /\ \A w \in Writers : wr[w].slot = Nil /\ wr[w].pc = "idle"
  BY <1>1, InitTyped, NoBatchRec, IdleIs
<1> DEFINE v == vec(n)
<1>3. v = [i \in 0..(DS - 1) |-> v[i]] /\ \A i \in 0..(DS - 1) : v[i] = IF i < n THEN <<i + 1>> ELSE Zeros
  OBVIOUS
<1> HIDE DEF v
<1>4. ASSUME NEW c \in Chunk
      PROVE  /\ row[c].hash = file[c] /\ want[c] = (IF IsData(c) THEN row[c].hash ELSE Nil)
             /\ row[c].st = "written" <=>
                    n # 0 /\ StripeOf(c) = 1 /\ (IF IsData(c) THEN Index(c) < n ELSE Index(c) < PS)
             /\ row[c].st = "written" => row[c].hash = IF IsData(c) THEN <<Index(c) + 1>> ELSE v
  <2>1. Index(c) \in Nat /\ n \in Nat /\ n <= DS /\ DS \in Nat /\ PS \in Nat
    BY ChunkIs, Shapes
  <2>2. row[c] = held(c, n) /\ file[c] = held(c, n).hash
        /\ want[c] = (IF IsData(c) THEN held(c, n).hash ELSE Nil)
    BY <1>1
  <2>3. held(c, n) = IF n = 0 \/ StripeOf(c) # 1 \/ Index(c) >= (IF IsData(c) THEN DS ELSE PS) THEN None
                     ELSE IF ~IsData(c) THEN [st |-> "written", gen |-> 0, hash |-> v]
                     ELSE IF Index(c) < n THEN [st |-> "written", gen |-> 0, hash |-> <<Index(c) + 1>>]
                     ELSE [st |-> "reserved", gen |-> 0, hash |-> Nil]
    BY DEF v
  <2> DEFINE r == held(c, n)
             x == <<Index(c) + 1>>
  <2>4. row[c] = r /\ file[c] = r.hash /\ want[c] = (IF IsData(c) THEN r.hash ELSE Nil)
    BY <2>2
  <2>5. r = IF n = 0 \/ StripeOf(c) # 1 \/ Index(c) >= (IF IsData(c) THEN DS ELSE PS) THEN None
            ELSE IF ~IsData(c) THEN [st |-> "written", gen |-> 0, hash |-> v]
            ELSE IF Index(c) < n THEN [st |-> "written", gen |-> 0, hash |-> x]
            ELSE [st |-> "reserved", gen |-> 0, hash |-> Nil]
    BY <2>3
  <2>6. None.st = "none"
    BY NoneIs
  <2> HIDE DEF r, x, held
  <2>7. /\ r.st = "written" <=>
              n # 0 /\ StripeOf(c) = 1 /\ (IF IsData(c) THEN Index(c) < n ELSE Index(c) < PS)
        /\ r.st = "written" => r.hash = IF IsData(c) THEN x ELSE v
    BY ONLY <2>1, <2>5, <2>6
  <2> QED
    BY <2>4, <2>7 DEF x
<1> HIDE DEF held
<1>5. \A c \in Chunk : row[c].st # "written" => row[c].hash = Nil
  BY <1>1, NoneIs DEF held
<1>6. Held
  <2>1. HeldOnce
    BY <1>2 DEF HeldOnce
  <2>2. WantedElse /\ Wanted /\ Bare
    <3>1. \A c \in Chunk : IsData(c) /\ Written(c) => want[c] # Nil
      <4>1. \A c \in Chunk : IsData(c) => want[c] \in Slice \cup {Nil}
        BY <1>2 DEF Typed, ChunksTyped
      <4>2. \A c \in Chunk : IsData(c) /\ Written(c) => want[c] = <<Index(c) + 1>>
        BY <1>4 DEF Written
      <4>3. ASSUME NEW c \in Chunk, IsData(c), Written(c) PROVE <<Index(c) + 1>> \in Slice
        <5>1. Index(c) < n
          BY <1>4, <4>3 DEF Written
        <5>2. Index(c) \in Nat
          BY ChunkIs
        <5>3. n <= MaxWrite /\ n \in Nat /\ MaxWrite \in Nat
          BY Shapes
        <5>4. Index(c) + 1 \in 1..MaxWrite
          BY ONLY <5>1, <5>2, <5>3
        <5> QED
          BY <5>4 DEF Slice
      <4> QED
        BY <4>2, <4>3, SliceIs
    <3> QED
      BY <1>4, <1>5, <3>1 DEF WantedElse, Wanted, Bare, Written
  <2> QED
    BY <2>1, <2>2 DEF Held
<1>7. n \in Nat /\ n <= DS /\ DS \in Nat /\ DS > 0
  BY Shapes
<1>8. \A p \in Chunk : ~IsData(p) /\ Written(p) => n # 0 /\ StripeOf(p) = 1 /\ row[p].hash = v
  BY <1>4 DEF Written
<1>9. DS \in DS..pool.ds
  BY <1>2, <1>7
<1>10. Narrow
  BY <1>3, <1>8, <1>9 DEF Narrow
<1>11. \A i \in 0..(DS + MaxAdd - 1) : 1 \in Stripe =>
          /\ Slot(1, i) \in Chunk
          /\ Written(Slot(1, i)) <=> n # 0 /\ i < n
          /\ Written(Slot(1, i)) => row[Slot(1, i)].hash = <<i + 1>>
  <2> SUFFICES ASSUME NEW i \in 0..(DS + MaxAdd - 1), 1 \in Stripe
               PROVE  /\ Slot(1, i) \in Chunk
                      /\ Written(Slot(1, i)) <=> n # 0 /\ i < n
                      /\ Written(Slot(1, i)) => row[Slot(1, i)].hash = <<i + 1>>
    OBVIOUS
  <2>1. i \in Nat /\ i < DS + MaxAdd
    BY Shapes
  <2>2. Slot(1, i) \in Chunk /\ IsData(Slot(1, i)) /\ StripeOf(Slot(1, i)) = 1 /\ Index(Slot(1, i)) = i
    BY <2>1, SlotIs
  <2> QED
    BY <1>4, <2>2 DEF Written
<1>12. ASSUME NEW p \in Chunk, ~IsData(p), Written(p)
       PROVE  /\ Encodes(StripeOf(p), row[p].hash, file[p]) /\ DataIn(StripeOf(p))
  <2>1. StripeOf(p) = 1 /\ 1 \in Stripe /\ row[p].hash = v /\ file[p] = v /\ n # 0
    BY <1>4, <1>8, <1>12, ChunkIs DEF Written
  <2>2. v = Vec(1, DS)
    <3> DEFINE u == Vec(1, DS)
    <3>1. u = [i \in 0..(DS - 1) |-> u[i]]
      BY DEF Vec
    <3>2. \A i \in 0..(DS - 1) : u[i] = IF Written(Slot(1, i)) THEN row[Slot(1, i)].hash ELSE Zeros
      BY DEF Vec
    <3>3. \A i \in 0..(DS - 1) : i \in 0..(DS + MaxAdd - 1)
      BY Shapes
    <3>4. \A i \in 0..(DS - 1) : u[i] = v[i]
      BY <1>3, <1>11, <2>1, <3>2, <3>3
    <3> HIDE DEF u
    <3>5. u = v
      BY <1>3, <3>1, <3>4
    <3> QED
      BY <3>5 DEF u
  <2>3. Covers(1, DS)
    <3> SUFFICES ASSUME NEW i \in DS..(DS + MaxAdd - 1) PROVE ~Written(Slot(1, i))
      BY DEF Covers
    <3>1. i \in 0..(DS + MaxAdd - 1) /\ ~(i < n)
      BY <1>7, Shapes
    <3> QED
      BY <1>11, <2>1, <3>1
  <2>4. DataIn(1)
    <3>1. 0 \in 0..(DS + MaxAdd - 1) /\ 0 \in Nat /\ 0 < n /\ 0 < DS + MaxAdd
      BY <1>7, <2>1, Shapes
    <3>2. Slot(1, 0) \in Chunk /\ IsData(Slot(1, 0)) /\ StripeOf(Slot(1, 0)) = 1 /\ Written(Slot(1, 0))
      BY <1>11, <2>1, <3>1, SlotIs
    <3> QED
      BY <3>2 DEF DataIn
  <2> QED
    BY <1>9, <2>1, <2>2, <2>3, <2>4 DEF Encodes
<1>13. Coded
  BY <1>10, <1>12 DEF Coded, Fresh, ParityHasData, ParityOf
<1>14. RebuildBatch /\ ParityBatch
  BY <1>2 DEF RebuildBatch, ParityBatch
<1>15. Allowed
  BY <1>1, <1>2 DEF Allowed, StaleParity, Filling, Queued, Finishing
<1> QED
  BY <1>6, <1>13, <1>14, <1>15 DEF Kept

(* Whatever is lost, rebuilt, written or released meanwhile, whichever     *)
(* statement of the worker fails and wherever it crashes: a chunk that a   *)
(* version refers to keeps its hash, and its file is the slice or missing, *)
(* never bytes the decoder made up.  Without the races of the data, each   *)
(* of which spoils it: a loss where the parity is out of date, a rebuild   *)
(* after the pool has grown, one of a stripe that is being filled, a       *)
(* release under the worker, a disk added under it, a torn write.          *)
THEOREM RebuiltDataKept ==
    ASSUME {"stale", "shape", "inflight", "release", "grow", "torn"} \cap Overlaps = {}
    PROVE  Spec => []RebuildKeepsData
<1> DEFINE Inv == Typed /\ Shaped /\ Allowed /\ Kept /\ faults \in Nat
<1>1. Init => Inv
  BY InitTyped, InitShape, InitKept, FaultsCount
<1>2. Inv /\ [Next]_vars => Inv'
  <2> SUFFICES ASSUME Inv, [Next]_vars
               PROVE  Inv'
    OBVIOUS
  <2>1. Calm /\ "grow" \notin Overlaps
    BY DEF Calm
  <2>2. faults' \in Nat
    BY FaultsCount
  <2>3. CASE Next
    <3>1. Typed' /\ Shaped'
      BY <2>1, <2>3, NextTyped, NextShape
    <3>2. Kept'
      BY <2>1, <2>3, <3>1, NextKept
    <3>3. Allowed'
      BY <2>3 DEF Next
    <3> QED
      BY <2>2, <3>1, <3>2, <3>3
  <2>4. CASE UNCHANGED vars
    BY <2>2, <2>4, StutterTyped, StutterShape, StutterKept, AllowedStill
  <2> QED
    BY <2>3, <2>4
<1>3. Inv => RebuildKeepsData
  BY DEF Kept, Held, Wanted, RebuildKeepsData
<1> QED
  BY <1>1, <1>2, <1>3, PTL DEF Spec
-----------------------------------------------------------------------------
(* A disk leaves repair only when it is whole.                             *)

(* A slot there has never been has the first path.                         *)
Unused == \A c \in Chunk : row[c].st = "none" => row[c].gen = 0

LEMMA UnusedFrame ==
    ASSUME Unused, \A c \in Chunk : row'[c].st = "none" => row'[c] = row[c]
    PROVE  Unused'
  BY DEF Unused

LEMMA ReleasedRow ==
    ASSUME Typed, NEW c \in Chunk, Release(c), NEW d \in Chunk
    PROVE  (row'[d] = row[d] /\ file'[d] = file[d]) \/ row'[d].st = "reserved"
<1>1. CASE row'[d] = [st |-> "reserved", hash |-> Nil, gen |-> row[d].gen]
  BY <1>1
<1>2. CASE d = c
  <2>1. row'[c] = [st |-> "reserved", hash |-> Nil, gen |-> row[c].gen + 1]
    BY ReleaseTyped
  <2> QED
    BY <1>2, <2>1
<1> QED
  BY <1>1, <1>2, ReleaseTyped

LEMMA NextUnused ==
    ASSUME Typed, Unused, Next
    PROVE  Unused'
<1>1. CASE row' = row
  BY <1>1, UnusedFrame
<1>2. ASSUME NEW w \in Writers, NEW c \in Chunk, Reuse(w, c) PROVE Unused'
  BY <1>2, ReuseTyped, UnusedFrame
<1>3. ASSUME NEW w \in Writers, NEW s \in Stripe, NewStripe(w, s) PROVE Unused'
  <2>1. \A c \in Chunk : \/ row'[c] = row[c] \/ row'[c] = [st |-> "written", hash |-> wr[w].val, gen |-> 0]
                         \/ row'[c] = [st |-> "reserved", hash |-> Nil, gen |-> 0]
    BY <1>3, NewStripeTyped
  <2>2. \A c \in Chunk : row'[c] = row[c] \/ row'[c].st = "written" \/ row'[c].st = "reserved"
    BY <2>1
  <2> QED
    BY <2>2, UnusedFrame
<1>4. ASSUME NEW c \in Chunk, Release(c) PROVE Unused'
  <2>1. \A d \in Chunk : row'[d] = row[d] \/ row'[d].st = "reserved"
    BY <1>4, ReleasedRow
  <2> QED
    BY <2>1, UnusedFrame
<1>5. CASE AddSlots
  <2>1. \A c \in Chunk : \/ row'[c] = row[c] \/ row'[c] = [st |-> "reserved", hash |-> Nil, gen |-> 0]
                         \/ row'[c] = [row[c] EXCEPT !.st = "double"]
    BY <1>5, AddSlotsTyped
  <2>2. ASSUME NEW c \in Chunk PROVE row'[c] = row[c] \/ row'[c].st # "none"
    <3>1. CASE row'[c] = [row[c] EXCEPT !.st = "double"]
      <4>1. row[c] \in ChunkRow
        BY RowIs DEF Typed, ChunksTyped
      <4>2. row'[c].st = "double"
        BY <3>1, <4>1 DEF ChunkRow
      <4> QED
        BY <4>2
    <3>2. CASE row'[c] = [st |-> "reserved", hash |-> Nil, gen |-> 0]
      BY <3>2
    <3> QED
      BY <2>1, <3>1, <3>2
  <2> QED
    BY <2>2, UnusedFrame
<1>6. CASE Save \/ CommitParity
  <2>1. \A c \in Chunk : row'[c] = row[c] \/ row'[c].st = "written"
    BY <1>6, SaveTyped, CommitParityTyped
  <2> QED
    BY <2>1, UnusedFrame
<1>7. Request => row' = row \/ (\E w \in Writers, c \in Chunk : Reuse(w, c))
                 \/ (\E w \in Writers, s \in Stripe : NewStripe(w, s)) \/ (\E c \in Chunk : Release(c)) \/ AddSlots
  BY DEF Request, CheckPool, StoreSlice, FlushSlice, ReadFails, SwapDisk, OfflinePool, RebuildPool,
         AddDisk, tables
<1>8. WorkerStep => row' = row \/ Save \/ CommitParity
  BY DEF WorkerStep, ClaimRebuild, LoadMeta, DropEntries, CountLeft, RebuildRead, RebuildWrite, VerifyDisks,
         DisksOnline, CountBad, PoolOnline, EndJob, ClaimParity, LoadRows, ComputeParity, tables
<1>9. ASSUME StatementFails \/ Crash \/ (\E s \in Stripe : RebuildFails(s)) \/ (\E c \in Chunk : LoseFile(c))
      PROVE  row' = row
  BY <1>9 DEF StatementFails, Crash, RebuildFails, LoseFile, tables
<1> QED
  BY <1>1, <1>2, <1>3, <1>4, <1>5, <1>6, <1>7, <1>8, <1>9 DEF Next

LEMMA InitUnused ==
    ASSUME Init
    PROVE  Unused
<1> DEFINE held(c, n) == IF n = 0 \/ StripeOf(c) # 1 \/ Index(c) >= (IF IsData(c) THEN DS ELSE PS) THEN None
                      ELSE IF ~IsData(c) THEN [st |-> "written", gen |-> 0, hash |->
                                [i \in 0..(DS - 1) |-> IF i < n THEN <<i + 1>> ELSE Zeros]]
                      ELSE IF Index(c) < n THEN [st |-> "written", gen |-> 0, hash |-> <<Index(c) + 1>>]
                      ELSE [st |-> "reserved", gen |-> 0, hash |-> Nil]
<1>1. PICK n \in {n \in 0..DS : n <= MaxWrite} : row = [c \in Chunk |-> held(c, n)]
  BY DEF Init
<1>2. \A c \in Chunk : held(c, n).gen = 0
  BY DEF None
<1> HIDE DEF held
<1> QED
  BY <1>1, <1>2 DEF Unused

LEMMA VerifiedFrame ==
    ASSUME Typed, Verified, wk' = wk,
           wk.pc = "online" => \A c \in Chunk : DiskOf(c) \in wk.good /\ Lost(c)' =>
                \/ \E w \in Writers : wr'[w].slot = c /\ wr'[w].pc = "allocated" /\ wr'[w].loc = Loc(c)'
                \/ /\ Lost(c) /\ Loc(c)' = Loc(c)
                   /\ \A w \in Writers : wr[w].slot = c /\ wr[w].pc = "allocated" => wr'[w] = wr[w]
    PROVE  Verified'
<1> SUFFICES ASSUME wk.pc = "online", NEW c \in Chunk, DiskOf(c) \in wk.good, Lost(c)'
             PROVE  \E w \in Writers : wr'[w].slot = c /\ wr'[w].pc = "allocated" /\ wr'[w].loc = Loc(c)'
  BY DEF Verified
<1>1. CASE /\ Lost(c) /\ Loc(c)' = Loc(c)
           /\ \A w \in Writers : wr[w].slot = c /\ wr[w].pc = "allocated" => wr'[w] = wr[w]
  <2>1. PICK w \in Writers : wr[w].slot = c /\ wr[w].pc = "allocated" /\ wr[w].loc = Loc(c)
    BY <1>1 DEF Verified
  <2> QED
    BY <1>1, <2>1
<1> QED
  BY <1>1

LEMMA VerifiedStill ==
    ASSUME Typed, Verified, UNCHANGED <<row, file, wk, wr>>, \A d \in Disk : disk'[d].swaps = disk[d].swaps
    PROVE  Verified'
<1>1. \A c \in Chunk : (Lost(c)' <=> Lost(c)) /\ Loc(c)' = Loc(c)
  BY DiskIs DEF Lost, Written, Readable, Loc
<1> QED
  BY <1>1, VerifiedFrame

LEMMA HoldingLoc ==
    ASSUME Typed, NEW w \in Writers, NEW c \in Chunk, Update(w, Holding(wr[w], c))
    PROVE  wr'[w].loc = Loc(c)
<1>1. wr[w] \in WriterRow
  BY WriterIs DEF Typed
<1>2. Holding(wr[w], c).loc = Loc(c)
  BY <1>1 DEF Holding, WriterRow
<1>3. wr'[w] = Holding(wr[w], c)
  BY DEF Update, Typed, WritersTyped
<1> QED
  BY <1>2, <1>3

(* A slot just taken is one that is just to be written.                    *)
LEMMA TakeVerified ==
    ASSUME Typed, Verified, NEW w \in Writers, NEW c \in Chunk, UNCHANGED <<disk, file, wk>>,
           wr'[w].slot = c, wr'[w].pc = "allocated", wr'[w].loc = Loc(c), row'[c].gen = row[c].gen,
           wr[w].pc = "checked", \A v \in Writers \ {w} : wr'[v] = wr[v],
           \A d \in Chunk \ {c} : row'[d] = row[d] \/ row'[d].st # "written"
    PROVE  Verified'
<1>1. Loc(c)' = Loc(c)
  BY DEF Loc
<1>2. \A d \in Chunk \ {c} : Lost(d)' => Lost(d) /\ Loc(d)' = Loc(d)
  BY DEF Lost, Written, Readable, Loc
<1>3. \A v \in Writers : wr[v].pc = "allocated" => wr'[v] = wr[v]
  OBVIOUS
<1> QED
  BY <1>1, <1>2, <1>3, VerifiedFrame

LEMMA StoreVerified ==
    ASSUME Typed, Verified, Held, NEW w \in Writers, StoreSlice(w)
    PROVE  Verified'
<1>0. PICK c \in Chunk : c = wr[w].slot
  BY StoreSliceTyped
<1>1. /\ c # Nil /\ \A v \in Writers \ {w} : wr'[v] = wr[v]
      /\ file'[c] \in {wr[w].val, file[c]} /\ \A d \in Chunk \ {c} : file'[d] = file[d]
  BY <1>0, StoreSliceTyped
<1>2. UNCHANGED <<row, disk, wk>> /\ wr[w].pc = "allocated"
  BY DEF StoreSlice, tables
<1>3. file' = IF wr[w].loc = Loc(c) THEN [file EXCEPT ![c] = wr[w].val] ELSE file
  BY <1>0 DEF StoreSlice
<1>4. wr[w].loc = Loc(c) => file'[c] = wr[w].val
  BY <1>1, <1>3 DEF Typed, ChunksTyped
<1>5. /\ Written(c) /\ row[c].hash = wr[w].val /\ file[c] \in {wr[w].val, Nil}
      /\ \A v \in Writers \ {w} : wr[v].slot # c
  BY <1>0, <1>1 DEF Held, HeldOnce
<1>6. wr[w].val # Nil
  BY <1>2 DEF Typed, WritersTyped
<1>7. wk.pc = "online" /\ DiskOf(c) \in wk.good => ~Lost(c)'
  <2> SUFFICES ASSUME wk.pc = "online", DiskOf(c) \in wk.good PROVE ~Lost(c)'
    OBVIOUS
  <2>1. CASE Lost(c)
    <3>1. PICK v \in Writers : wr[v].slot = c /\ wr[v].loc = Loc(c)
      BY <1>1, <2>1 DEF Verified
    <3>2. v = w
      BY <1>5, <3>1
    <3>3. file'[c] = wr[w].val
      BY <1>4, <3>1, <3>2
    <3> QED
      BY <1>2, <1>5, <1>6, <3>3 DEF Lost, Readable
  <2>2. CASE ~Lost(c)
    <3>1. file[c] = wr[w].val
      BY <1>5, <2>2 DEF Lost, Readable
    <3>2. file'[c] = wr[w].val
      BY <1>1, <3>1
    <3> QED
      BY <1>2, <1>5, <1>6, <3>2 DEF Lost, Readable
  <2> QED
    BY <2>1, <2>2
<1>8. \A d \in Chunk \ {c} : /\ (Lost(d)' <=> Lost(d)) /\ Loc(d)' = Loc(d)
                             /\ \A v \in Writers : wr[v].slot = d => wr'[v] = wr[v]
  BY <1>0, <1>1, <1>2 DEF Lost, Written, Readable, Loc
<1> QED
  BY <1>1, <1>2, <1>7, <1>8, VerifiedFrame

LEMMA RequestVerified ==
    ASSUME Typed, Shaped, Verified, Held, Unused, Allowed', Calm, Request,
           ~\E d \in Disk : SwapDisk(d)
    PROVE  Verified'
<1>1. ASSUME NEW w \in Writers, CheckPool(w) PROVE Verified'
  <2>1. UNCHANGED <<row, file, disk, wk>> /\ wr[w].pc = "idle"
    BY <1>1 DEF CheckPool, tables
  <2>2. \A v \in Writers : wr[v].pc = "allocated" => wr'[v] = wr[v]
    BY <1>1, <2>1, CheckPoolTyped
  <2>3. \A c \in Chunk : (Lost(c)' <=> Lost(c)) /\ Loc(c)' = Loc(c)
    BY <2>1 DEF Lost, Written, Readable, Loc
  <2> QED
    BY <2>1, <2>2, <2>3, VerifiedFrame
<1>2. ASSUME NEW w \in Writers, NEW c \in Chunk, Reuse(w, c) PROVE Verified'
  <2>1. UNCHANGED <<disk, file, wk>> /\ wr[w].pc = "checked" /\ Update(w, Holding(wr[w], c))
    BY <1>2 DEF Reuse
  <2>2. /\ wr'[w].pc = "allocated" /\ wr'[w].slot = c /\ \A v \in Writers \ {w} : wr'[v] = wr[v]
        /\ row'[c].gen = row[c].gen /\ \A d \in Chunk \ {c} : row'[d] = row[d]
    BY <1>2, ReuseTyped
  <2>3. wr'[w].loc = Loc(c)
    BY <2>1, HoldingLoc
  <2> QED
    BY <2>1, <2>2, <2>3, TakeVerified
<1>3. ASSUME NEW w \in Writers, NEW s \in Stripe, NewStripe(w, s) PROVE Verified'
  <2> DEFINE c == Slot(s, 0)
  <2>1. UNCHANGED <<disk, file, wk>> /\ wr[w].pc = "checked" /\ s \notin Stripes
        /\ Update(w, Holding(wr[w], c))
    BY <1>3 DEF NewStripe, Slot
  <2>2. /\ c \in Chunk /\ wr'[w].pc = "allocated" /\ wr'[w].slot = c /\ \A v \in Writers \ {w} : wr'[v] = wr[v]
        /\ row'[c] = [st |-> "written", hash |-> wr[w].val, gen |-> 0]
        /\ \A d \in Chunk \ {c} : row'[d] = row[d] \/ row'[d] = [st |-> "reserved", hash |-> Nil, gen |-> 0]
    BY <1>3, NewStripeTyped
  <2>3. StripeOf(c) = s
    BY SlotIs
  <2> HIDE DEF c
  <2>4. row[c].st = "none"
    BY <2>1, <2>2, <2>3 DEF Stripes, Slots
  <2>5. row'[c].gen = 0 /\ row[c].gen = 0
    BY <2>2, <2>4 DEF Unused
  <2>6. \A d \in Chunk \ {c} : row'[d] = row[d] \/ row'[d].st # "written"
    BY <2>2
  <2>7. wr'[w].loc = Loc(c)
    BY <2>1, <2>2, HoldingLoc
  <2> QED
    BY <2>1, <2>2, <2>5, <2>6, <2>7, TakeVerified
<1>4. ASSUME NEW w \in Writers, StoreSlice(w) PROVE Verified'
  BY <1>4, StoreVerified
<1>5. ASSUME NEW w \in Writers, FlushSlice(w) PROVE Verified'
  <2>1. UNCHANGED <<row, file, disk, wk>> /\ wr[w].pc = "stored"
    BY <1>5 DEF FlushSlice
  <2>2. \A v \in Writers : wr[v].pc = "allocated" => wr'[v] = wr[v]
    BY <1>5, <2>1, FlushSliceTyped
  <2>3. \A c \in Chunk : (Lost(c)' <=> Lost(c)) /\ Loc(c)' = Loc(c)
    BY <2>1 DEF Lost, Written, Readable, Loc
  <2> QED
    BY <2>1, <2>2, <2>3, VerifiedFrame
<1>6. ASSUME NEW c \in Chunk, Release(c) PROVE Verified'
  <2>1. UNCHANGED <<disk, wr, wk>>
    BY <1>6 DEF Release
  <2>3. \A d \in Chunk : (row'[d] = row[d] /\ file'[d] = file[d]) \/ row'[d].st = "reserved"
    BY <1>6, ReleasedRow
  <2>4. \A d \in Chunk : Lost(d)' => Lost(d) /\ Loc(d)' = Loc(d)
    BY <2>1, <2>3 DEF Lost, Written, Readable, Loc
  <2> QED
    BY <2>1, <2>4, VerifiedFrame
<1>7. ASSUME NEW k \in {"data", "parity"}, AddDisk(k) PROVE Verified'
  <2>1. adding' = k /\ k # Nil
    BY <1>7, SliceIs DEF AddDisk
  <2>2. wk'.pc = "idle"
    BY <2>1 DEF Calm, Allowed
  <2> QED
    BY <2>2 DEF Verified
<1>8. ASSUME AddSlots PROVE Verified'
  BY <1>8 DEF AddSlots, Shaped, Verified
<1>9. ASSUME OfflinePool \/ (\E c \in Chunk : ReadFails(c)) \/ (\E t \in Task : RebuildPool(t))
      PROVE  Verified'
  BY <1>9, VerifiedStill DEF OfflinePool, ReadFails, RebuildPool
<1> QED
  BY <1>1, <1>2, <1>3, <1>4, <1>5, <1>6, <1>7, <1>8, <1>9 DEF Request

LEMMA NextVerified ==
    ASSUME Typed, Shaped, Verified, Held, Unused, Calm, "again" \notin Overlaps, Next
    PROVE  Verified'
<1>0. Allowed' /\ AllowedStep /\ losses \in Nat
  BY DEF Next, Typed, AdminTyped
<1>1. CASE Request /\ ~\E d \in Disk : SwapDisk(d)
  BY <1>0, <1>1, RequestVerified
<1>2. CASE (\E d \in Disk : SwapDisk(d)) \/ \E c \in Chunk : LoseFile(c)
  <2>1. losses' = losses + 1 /\ wk' = wk
    BY <1>2 DEF SwapDisk, LoseFile
  <2>2. losses' # losses
    BY <1>0, <2>1
  <2> QED
    BY <1>0, <2>1, <2>2 DEF AllowedStep, Finishing, Verified
<1>3. CASE WorkerStep
  <2>1. CASE VerifyDisks
    <3>1. UNCHANGED <<row, file>>
      BY <2>1 DEF VerifyDisks, tables
    <3>2. wk'.good = {d \in InRepair : DiskDataComplete(d)}
      BY <2>1, VerifyDisksTyped
    <3>3. \A d \in wk'.good, c \in Chunk : DiskOf(c) = d => ~Lost(c)'
      BY <3>1, <3>2 DEF DiskDataComplete, Lost, Written, Readable
    <3> QED
      BY <3>3 DEF Verified
  <2>2. CASE ~VerifyDisks
    <3>1. wk'.pc # "online"
      BY <1>3, <2>2, ClaimRebuildTyped, LoadMetaTyped, SaveTyped, DropEntriesTyped, CountsTyped,
         RebuildReadTyped, RebuildWriteTyped, DisksOnlineTyped, PoolOnlineTyped, EndJobTyped,
         ClaimParityTyped, LoadRowsTyped, ComputeParityTyped, CommitParityTyped DEF WorkerStep
    <3> QED
      BY <3>1 DEF Verified
  <2> QED
    BY <2>1, <2>2
<1>4. CASE StatementFails \/ Crash \/ \E s \in Stripe : RebuildFails(s)
  <2>1. wk'.pc # "online"
    BY <1>4, StatementFailsTyped, CrashTyped, RebuildFailsTyped
  <2> QED
    BY <2>1 DEF Verified
<1> QED
  BY <1>1, <1>2, <1>3, <1>4 DEF Next

LEMMA StillVerified ==
    ASSUME Typed, Verified, Unused, UNCHANGED vars
    PROVE  Verified' /\ Unused'
<1>1. UNCHANGED <<disk, row, file, wr, wk>>
  BY DEF vars, tables
<1> QED
  BY <1>1, VerifiedStill, UnusedFrame

(* The one step that ends the repair of a disk.                            *)
LEMMA OnlyVerified ==
    ASSUME Typed, Verified, Next, NEW d \in Disk, disk[d].st = "repair", disk'[d].st = "online"
    PROVE  wk.pc = "online" /\ d \in wk.good /\ UNCHANGED <<row, file>>
<1>1. CASE DisksOnline
  BY <1>1, DisksOnlineTyped
<1>2. CASE ~DisksOnline /\ disk'[d] = disk[d]
  BY <1>2
<1>3. ASSUME NEW e \in Disk, SwapDisk(e) PROVE disk'[d] = disk[d] \/ disk'[d].st = "repair"
  BY <1>3, SwapDiskTyped
<1>4. ASSUME NEW k \in {"data", "parity"}, AddDisk(k) PROVE disk'[d] = disk[d]
  BY <1>4, AddDiskTyped
<1>5. Request => disk'[d] = disk[d]
  <2>1. Request => UNCHANGED disk \/ (\E e \in Disk : SwapDisk(e)) \/ \E k \in {"data", "parity"} : AddDisk(k)
    BY DEF Request, CheckPool, Reuse, NewStripe, StoreSlice, FlushSlice, Release, ReadFails, OfflinePool,
           RebuildPool, AddSlots, tables
  <2> QED
    BY <1>3, <1>4, <2>1
<1>6. WorkerStep => DisksOnline \/ UNCHANGED disk
  BY DEF WorkerStep, ClaimRebuild, LoadMeta, Save, DropEntries, CountLeft, RebuildRead, RebuildWrite,
         VerifyDisks, CountBad, PoolOnline, EndJob, ClaimParity, LoadRows, ComputeParity, CommitParity, tables
<1>7. ASSUME StatementFails \/ Crash \/ (\E s \in Stripe : RebuildFails(s)) \/ (\E c \in Chunk : LoseFile(c))
      PROVE  UNCHANGED disk
  BY <1>7 DEF StatementFails, Crash, RebuildFails, LoseFile, tables
<1> QED
  BY <1>1, <1>2, <1>5, <1>6, <1>7 DEF Next

(* A disk that leaves repair has everything that was written to it, but    *)
(* for the slots a request is just filling: what VerifyDisks found whole   *)
(* is still whole when DisksOnline records it, though requests store and   *)
(* release meanwhile.                                                      *)
THEOREM RepairEndsWhole ==
    ASSUME {"stale", "shape", "inflight", "release", "grow", "torn", "again"} \cap Overlaps = {}
    PROVE  Spec => RepairedDiskComplete
<1> DEFINE Inv == Typed /\ Shaped /\ Allowed /\ Kept /\ Unused /\ Verified /\ faults \in Nat
<1>0. Calm /\ "grow" \notin Overlaps /\ "again" \notin Overlaps
  BY DEF Calm
<1>1. Init => Inv
  <2>1. Init => Verified
    BY NoBatchRec DEF Init, Verified
  <2> QED
    BY <2>1, InitTyped, InitShape, InitKept, InitUnused, FaultsCount
<1>2. Inv /\ [Next]_vars => Inv'
  <2> SUFFICES ASSUME Inv, [Next]_vars
               PROVE  Inv'
    OBVIOUS
  <2>1. faults' \in Nat
    BY FaultsCount
  <2>2. CASE Next
    <3>1. Typed' /\ Shaped' /\ Unused'
      BY <1>0, <2>2, NextTyped, NextShape, NextUnused
    <3>2. Kept'
      BY <1>0, <2>2, <3>1, NextKept
    <3>3. Verified'
      BY <1>0, <2>2, NextVerified DEF Kept
    <3>4. Allowed'
      BY <2>2 DEF Next
    <3> QED
      BY <2>1, <3>1, <3>2, <3>3, <3>4
  <2>3. CASE UNCHANGED vars
    BY <2>1, <2>3, StutterTyped, StutterShape, StutterKept, AllowedStill, StillVerified
  <2> QED
    BY <2>2, <2>3
<1>3. Inv /\ [Next]_vars =>
        [\A d \in Disk : disk[d].st = "repair" /\ disk'[d].st = "online" =>
            \A c \in Chunk : DiskOf(c) = d /\ Lost(c)' => \E w \in Writers : wr[w].slot = c]_vars
  <2> SUFFICES ASSUME Inv, Next, NEW d \in Disk, disk[d].st = "repair", disk'[d].st = "online",
                      NEW c \in Chunk, DiskOf(c) = d, Lost(c)'
               PROVE  \E w \in Writers : wr[w].slot = c
    OBVIOUS
  <2>1. wk.pc = "online" /\ d \in wk.good /\ UNCHANGED <<row, file>>
    BY OnlyVerified
  <2>2. Lost(c)
    BY <2>1 DEF Lost, Written, Readable
  <2> QED
    BY <2>1, <2>2 DEF Verified
<1> QED
  BY <1>1, <1>2, <1>3, PTL DEF Spec, RepairedDiskComplete
-----------------------------------------------------------------------------
(* A stripe that is whole comes back whole.                                *)

LEMMA SteadyFrame ==
    ASSUME Steady, RebuildBatch, wk' = wk,
           wk.pc = "work" => \A c \in Chunk : StripeOf(c) \in BatchOf =>
                row'[c] = row[c] /\ file'[c] = file[c] /\ Loc(c)' = Loc(c)
    PROVE  Steady'
<1> SUFFICES ASSUME wk.pc = "work"
             PROVE  /\ \A c \in Chunk : Current(c)' \/ StripeOf(c) \notin BatchOf'
                    /\ \A s \in wk.todo : Fixed(s)' # {} =>
                          \A c \in Slots(s)' \ Fixed(s)' : Written(c)' => Readable(c)'
  BY DEF Steady
<1>1. BatchOf' = BatchOf /\ wk.todo \subseteq BatchOf /\ \A s : Fixed(s)' = Fixed(s)
  BY DEF BatchOf, Fixed, RebuildBatch
<1>2. \A c \in Chunk : Current(c)' \/ StripeOf(c) \notin BatchOf'
  BY <1>1 DEF Steady, Current
<1>3. ASSUME NEW s \in wk.todo, Fixed(s)' # {}, NEW c \in Slots(s)' \ Fixed(s)', Written(c)'
      PROVE  Readable(c)'
  <2>1. c \in Chunk /\ StripeOf(c) = s /\ row'[c].st # "none"
    BY <1>3 DEF Slots
  <2>2. row'[c] = row[c] /\ file'[c] = file[c]
    BY <1>1, <2>1
  <2>3. c \in Slots(s) \ Fixed(s) /\ Written(c)
    BY <1>1, <1>3, <2>1, <2>2 DEF Slots, Written
  <2>4. Readable(c)
    BY <1>1, <1>3, <2>3 DEF Steady
  <2> QED
    BY <2>2, <2>4 DEF Readable
<1> QED
  BY <1>2, <1>3

LEMMA SteadyStill ==
    ASSUME Steady, RebuildBatch, UNCHANGED <<row, file, disk, wk>>
    PROVE  Steady'
<1>1. \A c \in Chunk : Loc(c)' = Loc(c)
  BY DEF Loc
<1> QED
  BY <1>1, SteadyFrame

(* What a rebuild reads of a batch that nothing disturbs.                  *)
LEMMA ReadWhole ==
    ASSUME Typed, Shaped, Kept, Steady, wk.pc = "work", NEW s \in wk.todo, NEW c \in Slots(s), Written(c)
    PROVE  /\ c \in Refs(s) /\ Current(c)
           /\ c \in Missing(s) <=> ~Readable(c)
<1>0. RebuildBatch
  BY DEF Kept
<1>1. /\ s \in BatchOf /\ s \in Stripe /\ wk.meta.ds = pool.ds
  BY MissingIs
<1>2. c \in Chunk /\ StripeOf(c) = s /\ row[c].st = "written" /\ wk.meta.row[c] = row[c] /\ adding = Nil
  BY <1>0, <1>1 DEF Slots, Written, RebuildBatch, Shaped
<1>3. Current(c)
  BY <1>1, <1>2 DEF Steady
<1>4. IsData(c) => Index(c) < pool.ds
  <2>1. s \in Stripes
    BY <1>1 DEF Stripes
  <2>2. adding # "data"
    BY <1>2, SliceIs
  <2> QED
    BY <1>2, <2>1, <2>2 DEF Shaped, Width
<1>5. c \in Refs(s)
  BY <1>1, <1>2, <1>4 DEF Refs, JobData, JobParity
<1>6. c \in Missing(s) <=> ~Readable(c)
  BY <1>2, <1>3, <1>5 DEF Missing, Found, Readable
<1> QED
  BY <1>3, <1>5, <1>6

LEMMA RequestSteady ==
    ASSUME Typed, Shaped, Steady, RebuildBatch, Undisturbed, Undisturbed', Allowed', AllowedStep, Calm,
           Request, ~\E d \in Disk : SwapDisk(d)
    PROVE  Steady'
<1>0. wk.pc = "work" => \A s \in BatchOf : Queued(s) /\ s \in Stripe /\ Rebuilding(s)
  BY BatchQueued DEF Rebuilding
<1>1. ASSUME NEW w \in Writers, CheckPool(w) \/ FlushSlice(w) PROVE Steady'
  BY <1>1, SteadyStill DEF CheckPool, FlushSlice, tables
<1>2. ASSUME NEW w \in Writers, NEW c \in Chunk, Reuse(w, c) PROVE Steady'
  <2>1. UNCHANGED <<disk, file, wk, rpend, rrun>>
    BY <1>2 DEF Reuse
  <2>2. wr'[w].slot = c /\ c # Nil /\ \A d \in Chunk \ {c} : row'[d] = row[d]
    BY <1>2, ReuseTyped, SliceIs
  <2>3. wk.pc = "work" => StripeOf(c) \notin BatchOf
    BY <1>0, <2>1, <2>2 DEF Undisturbed, Queued, Filling
  <2>4. \A d \in Chunk \ {c} : Loc(d)' = Loc(d)
    BY <2>1, <2>2 DEF Loc
  <2> QED
    BY <2>1, <2>2, <2>3, <2>4, SteadyFrame
<1>3. ASSUME NEW w \in Writers, NEW s \in Stripe, NewStripe(w, s) PROVE Steady'
  <2>1. UNCHANGED <<disk, file, wk, rpend, rrun>>
    BY <1>3 DEF NewStripe
  <2>2. wr'[w].slot = Slot(s, 0) /\ Slot(s, 0) \in Chunk /\ StripeOf(Slot(s, 0)) = s
    BY <1>3, NewStripeTyped, SlotIs
  <2>3. \A d \in Chunk : StripeOf(d) # s => row'[d] = row[d]
    BY <1>3, <2>2, NewStripeTyped
  <2>4. Slot(s, 0) # Nil
    BY <2>2, SliceIs
  <2>5. wk.pc = "work" => s \notin BatchOf
    BY <1>0, <2>1, <2>2, <2>4 DEF Undisturbed, Queued, Filling
  <2>6. \A d \in Chunk : StripeOf(d) # s => Loc(d)' = Loc(d)
    BY <2>1, <2>3 DEF Loc
  <2> QED
    BY <2>1, <2>3, <2>5, <2>6, SteadyFrame
<1>4. ASSUME NEW w \in Writers, StoreSlice(w) PROVE Steady'
  <2>1. PICK c \in Chunk : c = wr[w].slot /\ c # Nil /\ \A d \in Chunk \ {c} : file'[d] = file[d]
    BY <1>4, StoreSliceTyped
  <2>2. UNCHANGED <<disk, row, wk>> /\ \A d \in Chunk : Loc(d)' = Loc(d)
    BY <1>4 DEF StoreSlice, tables, Loc
  <2>3. wk.pc = "work" => StripeOf(c) \notin BatchOf
    BY <1>0, <2>1 DEF Undisturbed, Filling
  <2> QED
    BY <2>1, <2>2, <2>3, SteadyFrame
<1>5. ASSUME NEW c \in Chunk, Release(c) PROVE Steady'
  <2>1. UNCHANGED <<disk, wk>>
    BY <1>5 DEF Release
  <2>2. row'[c].gen = row[c].gen + 1 /\ row[c].gen \in Nat
    <3>1. row'[c] = [st |-> "reserved", hash |-> Nil, gen |-> row[c].gen + 1]
      BY <1>5, ReleaseTyped
    <3> QED
      BY <3>1, RowIs DEF Typed, ChunksTyped
  <2>3. row[c].gen # row'[c].gen
    BY <2>2
  <2>4. ~Rebuilding(StripeOf(c))
    BY <2>3 DEF Calm, AllowedStep
  <2>5. wk.pc = "work" => StripeOf(c) \notin BatchOf
    BY <1>0, <2>4
  <2>6. \A d \in Chunk : StripeOf(d) # StripeOf(c) => row'[d] = row[d] /\ file'[d] = file[d]
    BY <1>5, ReleaseTyped
  <2>7. \A d \in Chunk : StripeOf(d) # StripeOf(c) => Loc(d)' = Loc(d)
    BY <2>1, <2>6 DEF Loc
  <2> QED
    BY <2>1, <2>5, <2>6, <2>7, SteadyFrame
<1>6. ASSUME NEW k \in {"data", "parity"}, AddDisk(k) PROVE Steady'
  <2>1. adding' = k /\ k # Nil
    BY <1>6, SliceIs DEF AddDisk
  <2>2. wk'.pc = "idle"
    BY <2>1 DEF Calm, Allowed
  <2> QED
    BY <2>2 DEF Steady
<1>7. ASSUME AddSlots PROVE Steady'
  BY <1>7 DEF AddSlots, Shaped, Steady
<1>8. ASSUME OfflinePool \/ (\E c \in Chunk : ReadFails(c)) \/ (\E t \in Task : RebuildPool(t))
      PROVE  Steady'
  BY <1>8, SteadyStill DEF OfflinePool, ReadFails, RebuildPool
<1> QED
  BY <1>1, <1>2, <1>3, <1>4, <1>5, <1>6, <1>7, <1>8 DEF Request

(* A stripe that is done no longer counts.                                 *)
LEMMA DoneSteady ==
    ASSUME Typed, Steady, RebuildBatch, wk.pc = "work", wk'.ents = wk.ents, wk'.meta = wk.meta,
           UNCHANGED <<row, disk>>, NEW s, wk'.todo = wk.todo \ {s},
           DOMAIN wk'.fix \subseteq DOMAIN wk.fix,
           \A c \in DOMAIN wk.fix : StripeOf(c) # s => c \in DOMAIN wk'.fix,
           \A c \in Chunk : StripeOf(c) # s => file'[c] = file[c]
    PROVE  Steady'
<1>1. \A z \in wk'.todo : z \in wk.todo /\ z # s /\ Fixed(z)' = Fixed(z)
  BY DEF Fixed
<1>2. \A c \in Chunk : Current(c)' \/ StripeOf(c) \notin BatchOf'
  BY DEF Steady, BatchOf, Current, Loc
<1>3. ASSUME NEW z \in wk'.todo, Fixed(z)' # {}, NEW c \in Slots(z)' \ Fixed(z)', Written(c)'
      PROVE  Readable(c)'
  <2>1. c \in Chunk /\ StripeOf(c) = z /\ c \in Slots(z) \ Fixed(z) /\ Written(c)
    BY <1>1, <1>3 DEF Slots, Written
  <2>2. Readable(c) /\ file'[c] = file[c]
    BY <1>1, <1>3, <2>1 DEF Steady
  <2> QED
    BY <2>2 DEF Readable
<1> QED
  BY <1>2, <1>3 DEF Steady

LEMMA WorkerSteady ==
    ASSUME Typed, Shaped, Kept, Steady, WorkerStep
    PROVE  Steady'
<1>0. RebuildBatch
  BY DEF Kept
<1>1. CASE LoadMeta
  <2>1. UNCHANGED <<row, disk>>
    BY <1>1 DEF LoadMeta, tables
  <2>2. wk'.meta = Meta /\ DOMAIN wk'.fix = {}
    BY <1>1, LoadMetaTyped
  <2>3. \A c \in Chunk : Current(c)'
    BY <2>1, <2>2, MetaIs DEF Typed, Current, Loc
  <2> QED
    BY <2>2, <2>3 DEF Steady, Fixed
<1>2. ASSUME NEW s \in Stripe, RebuildWrite(s) PROVE Steady'
  <2>1. UNCHANGED <<row, disk>>
    BY <1>2 DEF RebuildWrite, tables
  <2>2. /\ wk.pc = "work" /\ wk'.ents = wk.ents /\ wk'.meta = wk.meta
        /\ wk'.todo = wk.todo \ {s} /\ wk'.fix = wk.fix
        /\ \A c \in Chunk : StripeOf(c) # s => file'[c] = file[c]
    BY <1>2, RebuildWriteTyped, FixedIs
  <2> QED
    BY <1>0, <2>1, <2>2, DoneSteady
<1>3. ASSUME NEW s \in Stripe, RebuildRead(s) PROVE Steady'
  <2>1. UNCHANGED <<row, disk, file>>
    BY <1>3 DEF RebuildRead, tables
  <2>2. /\ wk.pc = "work" /\ wk'.pc = "work" /\ s \in wk.todo /\ wk'.ents = wk.ents /\ wk'.meta = wk.meta
        /\ \/ wk'.todo = wk.todo \ {s} /\ wk'.fix = wk.fix
           \/ wk'.todo = wk.todo /\ wk'.fix = Rebuilt(s)
    BY <1>3, RebuildReadTyped
  <2>3. CASE wk'.todo = wk.todo \ {s} /\ wk'.fix = wk.fix
    BY <1>0, <2>1, <2>2, <2>3, DoneSteady
  <2>4. CASE wk'.todo = wk.todo /\ wk'.fix = Rebuilt(s)
    <3>1. DOMAIN wk'.fix = DOMAIN wk.fix \cup Missing(s)
      BY <2>4 DEF Rebuilt
    <3>2. \A c \in Missing(s) : StripeOf(c) = s
      BY <2>2, MissingIs
    <3>3. \A c \in Chunk : Current(c)' \/ StripeOf(c) \notin BatchOf'
      BY <2>1, <2>2 DEF Steady, BatchOf, Current, Loc
    <3>4. ASSUME NEW z \in wk.todo, Fixed(z)' # {}, NEW c \in Slots(z)' \ Fixed(z)', Written(c)'
          PROVE  Readable(c)'
      <4>1. c \in Slots(z) /\ Written(c) /\ c \notin Fixed(z) /\ c \in Chunk /\ StripeOf(c) = z
        BY <2>1, <3>1, <3>4 DEF Slots, Written, Fixed
      <4>2. CASE z = s
        <5>1. c \notin Missing(s)
          BY <3>1, <3>2, <3>4, <4>2 DEF Fixed
        <5>2. Readable(c)
          BY <2>2, <4>1, <4>2, <5>1, ReadWhole
        <5> QED
          BY <2>1, <5>2 DEF Readable
      <4>3. CASE z # s
        <5>1. Fixed(z)' = Fixed(z)
          BY <3>1, <3>2, <4>3 DEF Fixed
        <5>2. Readable(c)
          BY <2>2, <3>4, <4>1, <5>1 DEF Steady
        <5> QED
          BY <2>1, <5>2 DEF Readable
      <4> QED
        BY <4>2, <4>3
    <3> QED
      BY <2>4, <3>3, <3>4 DEF Steady
  <2> QED
    BY <2>2, <2>3, <2>4
<1>4. CASE ~LoadMeta /\ ~\E s \in Stripe : RebuildRead(s) \/ RebuildWrite(s)
  <2>1. wk'.pc # "work"
    BY <1>4, ClaimRebuildTyped, SaveTyped, DropEntriesTyped, CountsTyped, VerifyDisksTyped,
       DisksOnlineTyped, PoolOnlineTyped, EndJobTyped,
       ClaimParityTyped, LoadRowsTyped, ComputeParityTyped, CommitParityTyped DEF WorkerStep
  <2> QED
    BY <2>1 DEF Steady
<1> QED
  BY <1>1, <1>2, <1>3, <1>4

LEMMA NextSteady ==
    ASSUME Typed, Shaped, Kept, Steady, Allowed, Calm, "again" \notin Overlaps, Next
    PROVE  Steady'
<1>0. Allowed' /\ AllowedStep /\ losses \in Nat /\ RebuildBatch
  BY DEF Next, Typed, AdminTyped, Kept
<1>1. CASE Request /\ ~\E d \in Disk : SwapDisk(d)
  <2>1. Undisturbed /\ Undisturbed'
    BY <1>0 DEF Calm, Allowed, Undisturbed
  <2> QED
    BY <1>0, <1>1, <2>1, RequestSteady
<1>2. CASE (\E d \in Disk : SwapDisk(d)) \/ \E c \in Chunk : LoseFile(c)
  <2>1. losses' = losses + 1 /\ wk' = wk
    BY <1>2 DEF SwapDisk, LoseFile
  <2>2. losses' # losses
    BY <1>0, <2>1
  <2> QED
    BY <1>0, <2>1, <2>2 DEF AllowedStep, Steady
<1>3. CASE WorkerStep
  BY <1>3, WorkerSteady
<1>4. ASSUME NEW s \in Stripe, RebuildFails(s) PROVE Steady'
  <2>1. UNCHANGED <<row, disk>>
    BY <1>4 DEF RebuildFails, tables
  <2>2. /\ wk.pc = "work" /\ wk'.ents = wk.ents /\ wk'.meta = wk.meta
        /\ wk'.todo = wk.todo \ {s} /\ DOMAIN wk'.fix = DOMAIN wk.fix \ Fixed(s)
        /\ \E P \in SUBSET Fixed(s) : \A c \in Chunk :
               file'[c] = IF c \in P /\ Current(c) THEN wk.fix[c] ELSE file[c]
    BY <1>4, RebuildFailsTyped
  <2>3. \A c \in Chunk : StripeOf(c) # s => file'[c] = file[c]
    BY <2>2, FixedIs
  <2>4. /\ DOMAIN wk'.fix \subseteq DOMAIN wk.fix
        /\ \A c \in DOMAIN wk.fix : StripeOf(c) # s => c \in DOMAIN wk'.fix
    BY <2>2, FixedIs
  <2> QED
    BY <1>0, <2>1, <2>2, <2>3, <2>4, DoneSteady
<1>5. CASE StatementFails \/ Crash
  <2>1. wk'.pc # "work"
    BY <1>5, StatementFailsTyped, CrashTyped
  <2> QED
    BY <2>1 DEF Steady
<1> QED
  BY <1>1, <1>2, <1>3, <1>4, <1>5 DEF Next

(* The parity of a stripe that is all written and up to date.              *)
LEMMA WholeParity ==
    ASSUME Typed, Shaped, Coded, adding = Nil, NEW s \in Stripe, Whole(s), NEW p \in Slots(s), ~IsData(p)
    PROVE  row[p].hash = Intact(s)
<1>1. p \in Chunk /\ StripeOf(p) = s /\ Written(p) /\ s \in Stripes
  BY DEF Slots, Stripes, Whole
<1>2. Encodes(s, row[p].hash, file[p])
  BY <1>1 DEF Coded, Fresh, ParityOf, Whole
<1>3. PICK k \in DS..pool.ds : row[p].hash = Vec(s, k) /\ Covers(s, k)
  BY <1>2 DEF Encodes
<1>4. /\ pool.ds \in Nat /\ pool.ds <= DS + MaxAdd /\ k \in Nat /\ k <= pool.ds
      /\ DS + MaxAdd \in Nat
  <2>1. pool.ds \in DS..(DS + MaxAdd)
    BY DEF Typed, AdminTyped, PoolRow
  <2> QED
    BY <2>1, Shapes
<1>5. ASSUME NEW i \in 0..(pool.ds - 1) PROVE Slot(s, i) \in Chunk /\ Written(Slot(s, i))
  <2>1. i \in Nat /\ i < pool.ds /\ i < DS + MaxAdd
    BY <1>4
  <2>2. Slot(s, i) \in Chunk /\ IsData(Slot(s, i)) /\ StripeOf(Slot(s, i)) = s /\ Index(Slot(s, i)) = i
    BY <2>1, SlotIs
  <2>3. Slot(s, i) \in Slots(s)
    <3>1. adding # "data"
      BY SliceIs
    <3> QED
      BY <1>1, <2>1, <2>2, <3>1 DEF Shaped, Width, Slots
  <2> QED
    BY <2>2, <2>3 DEF Whole
<1>6. k = pool.ds
  <2> SUFFICES ASSUME k # pool.ds PROVE FALSE
    OBVIOUS
  <2>0. k < pool.ds /\ k < DS + MaxAdd
    BY <1>4
  <2>1. k \in 0..(pool.ds - 1) /\ k \in k..(DS + MaxAdd - 1)
    BY <1>4, <2>0, Shapes
  <2>2. Written(Slot(s, k))
    BY <1>5, <2>1
  <2>3. ~Written(Slot(s, k))
    BY <1>3, <2>1 DEF Covers
  <2> QED
    BY <2>2, <2>3
<1>7. Vec(s, pool.ds) = Intact(s)
  BY <1>5 DEF Vec, Intact, Slot
<1> QED
  BY <1>3, <1>6, <1>7

(* What a rebuild that is done with a stripe leaves behind.                *)
LEMMA DoneRecovers ==
    ASSUME Typed, Shaped, Kept, Steady, wk.pc = "work", NEW s \in wk.todo, Whole(s),
           Cardinality({c \in Slots(s) : Lost(c)}) <= pool.ps,
           RebuildRead(s) \/ RebuildWrite(s), wk'.todo = wk.todo \ {s}
    PROVE  \A c \in Slots(s) : file'[c] = row[c].hash
<1>0. RebuildBatch
  BY DEF Kept
<1>1. /\ s \in BatchOf /\ s \in Stripe /\ wk.meta.ds = pool.ds /\ wk.meta.ps = pool.ps
      /\ Missing(s) \subseteq Refs(s)
      /\ \A c \in Refs(s) : c \in Chunk /\ StripeOf(c) = s /\ Written(c)
  BY MissingIs
<1>2. \A c \in Slots(s) : /\ c \in Chunk /\ StripeOf(c) = s /\ Written(c) /\ Current(c) /\ c \in Refs(s)
                          /\ c \in Missing(s) <=> ~Readable(c)
  BY ReadWhole DEF Slots, Whole
<1>3. Refs(s) = Slots(s) /\ Missing(s) = {c \in Slots(s) : Lost(c)}
  <2>1. Refs(s) \subseteq Slots(s)
    BY <1>1 DEF Slots, Written
  <2> QED
    BY <1>1, <1>2, <2>1 DEF Lost
<1>4. \A c \in Slots(s) \ Missing(s) : file[c] = row[c].hash
  BY <1>2 DEF Readable
<1>5. CASE RebuildRead(s)
  <2>1. file' = file
    BY <1>5 DEF RebuildRead
  <2>2. \/ Missing(s) = {} \/ Cardinality(Missing(s)) > wk.meta.ps
        \/ Cardinality(Refs(s) \ Missing(s)) < wk.meta.ds
    BY <1>5, RebuildReadTyped, <1>1
  <2>3. ASSUME NEW c \in Slots(s) PROVE Missing(s) = {}
    <3>1. Cardinality(Slots(s)) = pool.ds + pool.ps
      <4>1. adding = Nil /\ s \in Stripes
        BY <1>1, <2>3 DEF Shaped, Stripes
      <4> QED
        BY <4>1, ShapedIs, ShapedStripes DEF StripeShape
    <3>2. IsFiniteSet(Slots(s)) /\ Missing(s) \subseteq Slots(s) /\ Slots(s) \subseteq Chunk
      BY <1>1, <1>3, ChunkFinite DEF Slots
    <3> DEFINE S == Slots(s)
               M == Missing(s)
    <3>3. /\ Cardinality(M) \in Nat /\ Cardinality(S \ M) \in Nat /\ Cardinality(S) = pool.ds + pool.ps
          /\ Cardinality(M) <= pool.ps /\ pool.ds \in Nat /\ pool.ps \in Nat
      <4>1. pool.ds \in DS..(DS + MaxAdd) /\ pool.ps \in PS..(PS + MaxAdd)
        BY DEF Typed, AdminTyped, PoolRow
      <4> QED
        BY <1>3, <3>1, <3>2, <4>1, ChunkFinite, Shapes
    <3>4. Cardinality(S \ M) = Cardinality(S) - Cardinality(M)
      <4> HIDE DEF S, M
      <4>1. IsFiniteSet(S) /\ M \subseteq S
        BY <3>2 DEF S, M
      <4>2. Cardinality(S \ M) = Cardinality(S) - Cardinality(S \cap M)
        BY <4>1, FS_Difference
      <4>3. S \cap M = M
        BY <4>1
      <4> QED
        BY <4>2, <4>3
    <3>5. M = {} \/ Cardinality(M) > pool.ps \/ Cardinality(S \ M) < pool.ds
      BY <1>1, <1>3, <2>2
    <3> HIDE DEF S, M
    <3>6. M = {}
      BY ONLY <3>3, <3>4, <3>5
    <3> QED
      BY <3>6 DEF M
  <2> QED
    BY <1>4, <2>1, <2>3
<1>6. CASE RebuildWrite(s)
  <2>1. /\ Fixed(s) # {}
        /\ \A c \in Chunk : file'[c] = IF c \in Fixed(s) /\ Current(c) THEN wk.fix[c] ELSE file[c]
    BY <1>1, <1>6, RebuildWriteTyped
  <2>2. ASSUME NEW c \in Slots(s) PROVE file'[c] = row[c].hash
    <3>1. CASE c \in Fixed(s)
      <4>1. c \in DOMAIN wk.fix
        BY <3>1, FixedIs
      <4>2. wk.fix[c] = row[c].hash
        BY <1>0, <1>2, <4>1 DEF RebuildBatch, Whole
      <4> QED
        BY <1>2, <2>1, <3>1, <4>2
    <3>2. CASE c \notin Fixed(s)
      <4>1. Readable(c)
        BY <1>2, <2>1, <3>2 DEF Steady
      <4> QED
        BY <1>2, <2>1, <3>2, <4>1 DEF Readable
    <3> QED
      BY <3>1, <3>2
  <2> QED
    BY <2>2
<1> QED
  BY <1>5, <1>6

(* Only the rebuild of a stripe, or its failure, takes it from the batch.  *)
LEMMA OnlyDone ==
    ASSUME Typed, faults \in Nat, Next, wk.pc = "work", wk'.pc = "work", faults' = faults,
           NEW s \in wk.todo \ wk'.todo
    PROVE  (RebuildRead(s) \/ RebuildWrite(s)) /\ wk'.todo = wk.todo \ {s}
<1>1. CASE Request \/ \E c \in Chunk : LoseFile(c)
  <2>1. wk' = wk
    BY <1>1 DEF Request, CheckPool, Reuse, NewStripe, StoreSlice, FlushSlice, Release, ReadFails, SwapDisk,
                OfflinePool, RebuildPool, AddDisk, AddSlots, LoseFile
  <2> QED
    BY <2>1
<1>2. CASE StatementFails \/ Crash \/ \E z \in Stripe : RebuildFails(z)
  <2>1. faults' = faults + 1
    BY <1>2 DEF StatementFails, Crash, RebuildFails
  <2> QED
    BY <2>1
<1>3. CASE \E z \in Stripe : RebuildRead(z) \/ RebuildWrite(z)
  <2>1. PICK z \in Stripe : RebuildRead(z) \/ RebuildWrite(z)
    BY <1>3
  <2>2. wk'.todo = wk.todo \/ wk'.todo = wk.todo \ {z}
    BY <2>1, RebuildReadTyped, RebuildWriteTyped
  <2> QED
    BY <2>1, <2>2
<1>4. CASE WorkerStep /\ ~\E z \in Stripe : RebuildRead(z) \/ RebuildWrite(z)
  <2>1. ~LoadMeta
    BY DEF LoadMeta
  <2>2. wk'.pc # "work"
    BY <1>4, <2>1, ClaimRebuildTyped, SaveTyped, DropEntriesTyped, CountsTyped, VerifyDisksTyped,
       DisksOnlineTyped, PoolOnlineTyped, EndJobTyped,
       ClaimParityTyped, LoadRowsTyped, ComputeParityTyped, CommitParityTyped DEF WorkerStep
  <2> QED
    BY <2>2
<1> QED
  BY <1>1, <1>2, <1>3, <1>4 DEF Next

LEMMA StillSteady ==
    ASSUME Steady, Kept, UNCHANGED vars
    PROVE  Steady'
<1>1. UNCHANGED <<disk, row, file, wk>>
  BY DEF vars, tables
<1> QED
  BY <1>1, SteadyStill DEF Kept

(* A stripe whose slots are all written and whose parity is up to date     *)
(* comes back whole from a rebuild that is through with it, data and       *)
(* parity, when no more of its shards are lost than the pool has parity    *)
(* shards: for every number of shards, whatever requests do meanwhile.     *)
THEOREM WholeStripesRecover ==
    ASSUME {"stale", "shape", "inflight", "release", "grow", "torn", "again"} \cap Overlaps = {}
    PROVE  Spec => RebuildRecovers
<1> DEFINE Inv == Typed /\ Shaped /\ Allowed /\ Kept /\ Steady /\ faults \in Nat
<1>0. Calm /\ "grow" \notin Overlaps /\ "again" \notin Overlaps
  BY DEF Calm
<1>1. Init => Inv
  <2>1. Init => Steady
    BY NoBatchRec DEF Init, Steady
  <2> QED
    BY <2>1, InitTyped, InitShape, InitKept, FaultsCount
<1>2. Inv /\ [Next]_vars => Inv'
  <2> SUFFICES ASSUME Inv, [Next]_vars
               PROVE  Inv'
    OBVIOUS
  <2>1. faults' \in Nat
    BY FaultsCount
  <2>2. CASE Next
    <3>1. Typed' /\ Shaped'
      BY <1>0, <2>2, NextTyped, NextShape
    <3>2. Kept'
      BY <1>0, <2>2, <3>1, NextKept
    <3>3. Steady'
      BY <1>0, <2>2, NextSteady
    <3>4. Allowed'
      BY <2>2 DEF Next
    <3> QED
      BY <2>1, <3>1, <3>2, <3>3, <3>4
  <2>3. CASE UNCHANGED vars
    BY <2>1, <2>3, StutterTyped, StutterShape, StutterKept, AllowedStill, StillSteady
  <2> QED
    BY <2>2, <2>3
<1>3. Inv /\ [Next]_vars =>
        [wk.pc = "work" /\ wk'.pc = "work" /\ faults' = faults =>
            \A s \in wk.todo \ wk'.todo : Whole(s) => Recovers(s)]_vars
  <2> SUFFICES ASSUME Inv, Next, wk.pc = "work", wk'.pc = "work", faults' = faults,
                      NEW s \in wk.todo \ wk'.todo, Whole(s),
                      Cardinality({c \in Slots(s) : Lost(c)}) <= pool.ps, NEW c \in Slots(s)
               PROVE  file'[c] = IF IsData(c) THEN row[c].hash ELSE Intact(s)
    BY DEF Recovers
  <2>1. (RebuildRead(s) \/ RebuildWrite(s)) /\ wk'.todo = wk.todo \ {s}
    BY OnlyDone
  <2>2. file'[c] = row[c].hash
    BY <2>1, DoneRecovers
  <2>3. s \in Stripe /\ adding = Nil
    BY MissingIs DEF Shaped
  <2>4. ~IsData(c) => row[c].hash = Intact(s)
    BY <2>3, WholeParity DEF Kept
  <2> QED
    BY <2>2, <2>4
<1> QED
  BY <1>1, <1>2, <1>3, PTL DEF Spec, RebuildRecovers
=============================================================================
