--------------------------- MODULE NamespaceProofs ---------------------------
(***************************************************************************)
(* Proofs about Namespace: the types, the trash without orphans, and, when *)
(* the races of Allowed are left out, one path to every entry and the      *)
(* refinement of FileTree.                                                 *)
(***************************************************************************)
EXTENDS Namespace, FiniteSetTheorems, SequenceTheorems, WellFoundedInduction, TLAPS

(* Tables of inodes, and what is in them.                                  *)
Table == [Ids -> Row \cup {Nil}]

LinksLead(T) == \A n \in Ids : T[n] # Nil /\ T[n].kind = "link" => T[n].link # 0

(* The steps that an operation goes through.                               *)
InStep(r) ==
    \/ r.op = "none"    /\ r.pc = "none"
    \/ r.op = "mkdir"   /\ r.pc \in {"parent", "probe", "insert"}
    \/ r.op = "create"  /\ r.pc \in {"open", "parent", "insert"}
    \/ r.op = "symlink" /\ r.pc \in {"target", "parent", "probe", "insert"}
    \/ r.op = "remove"  /\ r.pc \in {"victim", "count", "mark"}
    \/ r.op = "rename"  /\ r.pc \in {"src", "parent", "climb", "dst", "count", "move"}
    \/ r.op = "restore" /\ r.pc \in {"home", "conflict", "restore"}
    \/ r.op = "purge"   /\ r.pc = "purge"

(* What a request is about, and what it has found out when it looks for    *)
(* the directory to add an entry to.                                       *)
Ready(r) ==
    /\ r.op \in {"mkdir", "create", "symlink", "rename"}
    /\ r.op = "mkdir" => r.kind = "dir"
    /\ r.op = "create" => r.kind = "file"
    /\ r.op = "symlink" => r.kind = "link" /\ r.link # 0
    /\ r.op = "rename" <=> r.node # 0
    /\ Len(r.path) > 0
    /\ r.dst = 0

Shape(r) ==
    /\ InStep(r)
    /\ r.pc \in {"open", "parent", "probe", "insert", "climb", "dst"} => Ready(r)
    /\ r.op \notin {"none", "purge"} => Len(r.path) > 0
    /\ r.pc = "target" => r.kind = "link"
    /\ r.pc \in {"none", "target", "src", "victim", "purge"} => r.node = 0
    /\ r.pc \in {"mark", "count", "move"} \/ r.op = "restore" => r.node # 0
    /\ r.pc \notin {"count", "move"} \/ r.op = "remove" => r.dst = 0
    /\ r.op = "rename" /\ r.pc = "count" => r.dst # 0
    /\ r.pc \in Walking /\ Len(r.rest) = 0 => r.pc \in Following /\ r.at # 0
    /\ r.pc = "climb" => r.at # 0 /\ r.dir # 0 /\ r.kind = "dir"
    /\ r.pc \in {"probe", "dst"} /\ r.dir = 0 => r.at = 0 /\ r.rest = r.path /\ Len(r.path) = 1
    /\ r.pc = "home" => r.dir # 0

Typed ==
    /\ TypeOK
    /\ LinksLead(inode)
    /\ \A s \in Sessions : Shape(req[s])
-----------------------------------------------------------------------------
(* Small facts.                                                            *)

LEMMA Numbers ==
    /\ MaxInode \in Nat /\ MaxCalls \in Nat
    /\ Ids \subseteq 0..MaxInode /\ Ids \subseteq Nat /\ 0 \notin Ids
    /\ \A n \in 0..MaxInode : n # 0 => n \in Ids
  BY NamespaceAssumption DEF Ids

LEMMA RowOrNone ==
    ASSUME NEW T \in Table, NEW n \in Ids
    PROVE  T[n] = Nil \/ T[n] \in Row
  BY DEF Table

LEMMA BaseNameTyped ==
    ASSUME NEW p \in Seq(Names), Len(p) > 0
    PROVE  BaseName(p) \in Names
  BY DEF BaseName

LEMMA ParentPathTyped ==
    ASSUME NEW p \in Seq(Names), Len(p) > 1
    PROVE  /\ ParentPath(p) \in Seq(Names)
           /\ Len(ParentPath(p)) > 0
<1>1. Len(p) \in Nat /\ Len(p) - 1 \in Nat /\ Len(p) - 1 >= 1
  OBVIOUS
<1>2. \A i \in 1..(Len(p) - 1) : p[i] \in Names
  OBVIOUS
<1> QED
  BY <1>1, <1>2 DEF ParentPath

LEMMA LongPath ==
    ASSUME NEW p \in Seq(Names), Len(p) > 0, Len(p) # 1
    PROVE  Len(p) > 1
<1> DEFINE k == Len(p)
<1>1. k \in Nat
  BY LenProperties
<1>2. k > 0 /\ k # 1
  OBVIOUS
<1> HIDE DEF k
<1>3. k > 1
  BY ONLY <1>1, <1>2
<1> QED
  BY <1>3 DEF k

LEMMA HeadTailTyped ==
    ASSUME NEW p \in Seq(Names), Len(p) > 0
    PROVE  /\ Head(p) \in Names
           /\ Tail(p) \in Seq(Names)
           /\ Len(Tail(p)) = Len(p) - 1
  OBVIOUS

LEMMA MinIn ==
    ASSUME NEW F \in SUBSET Ids, F # {}
    PROVE  Min(F) \in F
<1> DEFINE R == OpToRel(<, Nat)
<1>1. IsWellFoundedOn(R, Nat)
  BY NatLessThanWellFounded
<1>2. \A x, y \in Nat : x < y => <<x, y>> \in R
  BY DEF OpToRel
<1> HIDE DEF R
<1>3. F \in SUBSET Nat
  BY Numbers
<1>4. PICK m \in F : \A n \in F : <<n, m>> \notin R
  BY <1>1, <1>3, WFMin
<1>5. \A n \in F : m <= n
  <2> TAKE n \in F
  <2>1. m \in Nat /\ n \in Nat
    BY <1>3
  <2>2. ~(n < m)
    BY <1>2, <1>4, <2>1
  <2> QED
    BY <2>1, <2>2
<1> QED
  BY <1>4, <1>5 DEF Min
-----------------------------------------------------------------------------
(* What the queries make of a request.                                     *)

SameTask(q, r) ==
    /\ q.op = r.op /\ q.path = r.path /\ q.kind = r.kind /\ q.node = r.node
    /\ q.dst = r.dst /\ q.link = r.link /\ q.ids = r.ids

(* requireDir has found d.                                                 *)
HasDir(r, d, q) ==
    /\ q \in Request /\ SameTask(q, r) /\ q.dir = d
    /\ \/ r.op = "create" /\ q.pc = "insert"
       \/ /\ r.op = "rename" /\ r.kind = "dir" /\ d # 0 /\ d # r.node
          /\ q.pc = "climb" /\ q.at = d
       \/ /\ r.op = "rename" /\ ~(r.kind = "dir" /\ d # 0)
          /\ q.pc = "dst" /\ q.rest = r.path /\ q.at = 0
       \/ /\ r.op \notin {"create", "rename"}
          /\ q.pc = "probe" /\ q.rest = r.path /\ q.at = 0

(* The request is on its way to the directory.                             *)
Goings(r, q) ==
    \/ q = NoReq
    \/ Len(r.path) = 1 /\ HasDir(r, 0, q)
    \/ /\ q \in Request /\ SameTask(q, r) /\ q.dir = r.dir
       /\ q.pc = "parent" /\ Len(q.rest) > 0 /\ q.at = 0

LEMMA NoReqTyped == NoReq \in Request /\ Shape(NoReq)
<1>1. <<>> \in Seq(Names) /\ Len(<<>>) = 0
  OBVIOUS
<1>2. 0 \in 0..MaxInode /\ {} \in SUBSET Ids
  BY Numbers
<1>3. NoReq \in Request
  BY <1>1, <1>2 DEF NoReq, Request, Kind
<1>4. Shape(NoReq)
  BY DEF NoReq, Shape, InStep, Walking
<1> QED
  BY <1>3, <1>4

LEMMA AtDirHas ==
    ASSUME NEW r \in Request, NEW d \in 0..MaxInode
    PROVE  AtDir(r, d) = NoReq \/ HasDir(r, d, AtDir(r, d))
<1> DEFINE q == AtDir(r, d)
<1>0. <<>> \in Seq(Names) /\ 0 \in 0..MaxInode /\ r.path \in Seq(Names)
  BY Numbers DEF Request
<1>1. CASE r.op = "create"
  <2>1. q = [r EXCEPT !.pc = "insert", !.rest = <<>>, !.at = 0, !.dir = d]
    BY <1>1 DEF AtDir
  <2> HIDE DEF q
  <2>2. q \in Request /\ SameTask(q, r) /\ q.dir = d /\ q.pc = "insert"
    BY <2>1, <1>0 DEF Request, SameTask
  <2> QED
    BY <2>2, <1>1 DEF HasDir, q
<1>2. CASE r.op = "rename" /\ r.kind = "dir" /\ d # 0 /\ d # r.node
  <2>1. q = [r EXCEPT !.pc = "climb", !.rest = <<>>, !.at = d, !.dir = d]
    BY <1>2 DEF AtDir
  <2> HIDE DEF q
  <2>2. q \in Request /\ SameTask(q, r) /\ q.dir = d /\ q.pc = "climb" /\ q.at = d
    BY <2>1, <1>0 DEF Request, SameTask
  <2> QED
    BY <2>2, <1>2 DEF HasDir, q
<1>3. CASE r.op = "rename" /\ r.kind = "dir" /\ d # 0 /\ d = r.node
  BY <1>3 DEF AtDir
<1>4. CASE r.op = "rename" /\ ~(r.kind = "dir" /\ d # 0)
  <2>1. q = [r EXCEPT !.pc = "dst", !.rest = r.path, !.at = 0, !.dir = d]
    BY <1>4 DEF AtDir
  <2> HIDE DEF q
  <2>2. q \in Request /\ SameTask(q, r) /\ q.dir = d /\ q.pc = "dst" /\ q.rest = r.path /\ q.at = 0
    BY <2>1, <1>0 DEF Request, SameTask, Walking
  <2> QED
    BY <2>2, <1>4 DEF HasDir, q
<1>5. CASE r.op \notin {"create", "rename"}
  <2>1. q = [r EXCEPT !.pc = "probe", !.rest = r.path, !.at = 0, !.dir = d]
    BY <1>5 DEF AtDir
  <2> HIDE DEF q
  <2>2. q \in Request /\ SameTask(q, r) /\ q.dir = d /\ q.pc = "probe" /\ q.rest = r.path /\ q.at = 0
    BY <2>1, <1>0 DEF Request, SameTask, Walking
  <2> QED
    BY <2>2, <1>5 DEF HasDir, q
<1> QED
  BY <1>1, <1>2, <1>3, <1>4, <1>5

LEMMA ToParentGoes ==
    ASSUME NEW r \in Request, Len(r.path) > 0
    PROVE  Goings(r, ToParent(r))
<1>0. 0 \in 0..MaxInode /\ r.path \in Seq(Names)
  BY Numbers DEF Request
<1>1. CASE Len(r.path) = 1
  <2>1. ToParent(r) = AtDir(r, 0)
    BY <1>1 DEF ToParent
  <2> QED
    BY <1>0, <1>1, <2>1, AtDirHas DEF Goings
<1>2. CASE Len(r.path) # 1
  <2> DEFINE q == ToParent(r)
  <2>1. Len(r.path) > 1
    BY <1>0, <1>2, LongPath
  <2>2. ParentPath(r.path) \in Seq(Names) /\ Len(ParentPath(r.path)) > 0
    BY <1>0, <2>1, ParentPathTyped
  <2>3. q = [r EXCEPT !.pc = "parent", !.rest = ParentPath(r.path), !.at = 0]
    BY <1>2 DEF ToParent
  <2> HIDE DEF q
  <2>4. q \in Request /\ SameTask(q, r) /\ q.dir = r.dir /\ q.pc = "parent"
        /\ q.rest = ParentPath(r.path) /\ q.at = 0
    BY <2>2, <2>3, <1>0 DEF Request, SameTask, Walking
  <2> QED
    BY <2>2, <2>4 DEF Goings, q
<1> QED
  BY <1>1, <1>2

(* The lookup has ended at n, or at nothing.                               *)
HasFound(r, n, q) ==
    \/ q = NoReq
    \/ r.pc = "parent" /\ inode[n].kind = "dir" /\ HasDir(r, n, q)
    \/ r.pc = "target" /\ Goings([r EXCEPT !.link = n], q)
    \/ /\ r.pc = "victim"
       /\ q \in Request /\ q.pc = (IF inode[n].kind = "dir" THEN "count" ELSE "mark")
       /\ q.op = r.op /\ q.path = r.path /\ q.kind = r.kind /\ q.node = n
       /\ q.dst = r.dst /\ q.dir = r.dir /\ q.ids = r.ids
    \/ r.pc = "src" /\ Goings([r EXCEPT !.node = n, !.kind = inode[n].kind], q)
    \/ /\ r.pc = "dst" /\ n # r.node /\ (inode[n].kind = "dir") = (r.kind = "dir")
       /\ q \in Request /\ q.pc = (IF inode[n].kind = "dir" THEN "count" ELSE "move")
       /\ q.op = r.op /\ q.path = r.path /\ q.kind = r.kind /\ q.node = r.node
       /\ q.dst = n /\ q.dir = r.dir /\ q.ids = r.ids

HasMissed(r, q) ==
    \/ q = NoReq
    \/ r.pc = "open" /\ Goings(r, q)
    \/ /\ r.pc \in {"probe", "dst"}
       /\ q \in Request /\ q.pc = (IF r.pc = "probe" THEN "insert" ELSE "move")
       /\ SameTask(q, r) /\ q.dir = r.dir

LEMMA FoundHas ==
    ASSUME NEW r \in Request, NEW n \in Ids, inode \in Table, Exists(n), Len(r.path) > 0 \/ r.pc \notin {"target", "src"}
    PROVE  HasFound(r, n, Found(r, n))
<1> DEFINE q == Found(r, n)
<1>0. /\ <<>> \in Seq(Names) /\ 0 \in 0..MaxInode /\ r.path \in Seq(Names)
      /\ n \in 0..MaxInode /\ inode[n].kind \in Kind
  BY Numbers, RowOrNone DEF Request, Exists, Row
<1>1. CASE r.pc = "parent"
  <2>1. q = IF inode[n].kind = "dir" THEN AtDir(r, n) ELSE NoReq
    BY <1>1 DEF Found
  <2>2. AtDir(r, n) = NoReq \/ HasDir(r, n, AtDir(r, n))
    BY <1>0, AtDirHas
  <2> HIDE DEF q
  <2>3. HasFound(r, n, q)
    BY <1>1, <2>1, <2>2 DEF HasFound
  <2> QED
    BY <2>3 DEF q
<1>2. CASE r.pc = "target"
  <2> DEFINE p == [r EXCEPT !.link = n]
  <2>1. q = ToParent(p)
    BY <1>2 DEF Found
  <2>2. p \in Request /\ p.path = r.path
    BY <1>0 DEF Request
  <2>3. Len(p.path) > 0
    BY <2>2, <1>2
  <2> HIDE DEF p
  <2>4. Goings(p, q)
    BY <2>1, <2>2, <2>3, ToParentGoes
  <2> QED
    BY <2>4, <1>2 DEF HasFound, p
<1>3. CASE r.pc = "victim"
  <2>1. q = [r EXCEPT !.pc = IF inode[n].kind = "dir" THEN "count" ELSE "mark",
                      !.rest = <<>>, !.at = 0, !.node = n]
    BY <1>3 DEF Found
  <2> HIDE DEF q
  <2>2. /\ q \in Request /\ q.pc = (IF inode[n].kind = "dir" THEN "count" ELSE "mark")
        /\ q.op = r.op /\ q.path = r.path /\ q.kind = r.kind /\ q.node = n
        /\ q.dst = r.dst /\ q.dir = r.dir /\ q.ids = r.ids
    BY <2>1, <1>0 DEF Request
  <2> QED
    BY <2>2, <1>3 DEF HasFound, q
<1>4. CASE r.pc = "src"
  <2> DEFINE p == [r EXCEPT !.node = n, !.kind = inode[n].kind]
  <2>1. q = ToParent(p)
    BY <1>4 DEF Found
  <2>2. p \in Request /\ p.path = r.path
    BY <1>0 DEF Request
  <2>3. Len(p.path) > 0
    BY <2>2, <1>4
  <2> HIDE DEF p
  <2>4. Goings(p, q)
    BY <2>1, <2>2, <2>3, ToParentGoes
  <2> QED
    BY <2>4, <1>4 DEF HasFound, p
<1>5. CASE r.pc = "dst"
  <2>1. CASE n = r.node \/ (inode[n].kind = "dir") # (r.kind = "dir")
    <3>1. q = NoReq
      BY <1>5, <2>1 DEF Found
    <3> QED
      BY <3>1 DEF HasFound
  <2>2. CASE ~(n = r.node \/ (inode[n].kind = "dir") # (r.kind = "dir"))
    <3>1. q = [r EXCEPT !.pc = IF inode[n].kind = "dir" THEN "count" ELSE "move",
                        !.rest = <<>>, !.at = 0, !.dst = n]
      BY <1>5, <2>2 DEF Found
    <3> HIDE DEF q
    <3>2. /\ q \in Request /\ q.pc = (IF inode[n].kind = "dir" THEN "count" ELSE "move")
          /\ q.op = r.op /\ q.path = r.path /\ q.kind = r.kind /\ q.node = r.node
          /\ q.dst = n /\ q.dir = r.dir /\ q.ids = r.ids
      BY <3>1, <1>0 DEF Request
    <3> QED
      BY <3>2, <1>5, <2>2 DEF HasFound, q
  <2> QED
    BY <2>1, <2>2
<1>6. CASE r.pc \notin {"parent", "target", "victim", "src", "dst"}
  BY <1>6 DEF Found, HasFound
<1> QED
  BY <1>1, <1>2, <1>3, <1>4, <1>5, <1>6

LEMMA MissedHas ==
    ASSUME NEW r \in Request, Len(r.path) > 0 \/ r.pc # "open"
    PROVE  HasMissed(r, Missed(r))
<1> DEFINE q == Missed(r)
<1>0. <<>> \in Seq(Names) /\ 0 \in 0..MaxInode
  BY Numbers
<1>1. CASE r.pc = "open"
  <2>1. q = ToParent(r)
    BY <1>1 DEF Missed
  <2> QED
    BY <2>1, <1>1, ToParentGoes DEF HasMissed
<1>2. CASE r.pc \in {"probe", "dst"}
  <2>1. q = [r EXCEPT !.pc = IF r.pc = "probe" THEN "insert" ELSE "move",
                      !.rest = <<>>, !.at = 0]
    BY <1>2 DEF Missed
  <2> HIDE DEF q
  <2>2. /\ q \in Request /\ q.pc = (IF r.pc = "probe" THEN "insert" ELSE "move")
        /\ SameTask(q, r) /\ q.dir = r.dir
    BY <2>1, <1>0 DEF Request, SameTask
  <2> QED
    BY <2>2, <1>2 DEF HasMissed, q
<1>3. CASE r.pc \notin {"open", "probe", "dst"}
  BY <1>3 DEF Missed, HasMissed
<1> QED
  BY <1>1, <1>2, <1>3
-----------------------------------------------------------------------------
(* The shape of what the queries make of a request.                        *)

LEMMA HasDirShape ==
    ASSUME NEW r \in Request, NEW d \in 0..MaxInode, NEW q,
           Ready(r), d = 0 => Len(r.path) = 1, HasDir(r, d, q)
    PROVE  q \in Request /\ Shape(q)
<1>1. q \in Request /\ SameTask(q, r) /\ q.dir = d
  BY DEF HasDir
<1>2. Ready(q)
  BY <1>1 DEF Ready, SameTask
<1>3. CASE r.op = "create" /\ q.pc = "insert"
  BY <1>1, <1>2, <1>3 DEF Shape, InStep, Ready, SameTask, Walking
<1>4. CASE r.op = "rename" /\ r.kind = "dir" /\ d # 0 /\ q.pc = "climb" /\ q.at = d
  BY <1>1, <1>2, <1>4 DEF Shape, InStep, Ready, SameTask, Walking
<1>5. CASE r.op = "rename" /\ q.pc = "dst" /\ q.rest = r.path /\ q.at = 0
  <2>1. Len(q.rest) > 0 /\ q.path = r.path
    BY <1>1, <1>5 DEF SameTask, Ready
  <2> QED
    BY <1>1, <1>2, <1>5, <2>1 DEF Shape, InStep, Ready, SameTask, Walking
<1>6. CASE r.op \notin {"create", "rename"} /\ q.pc = "probe" /\ q.rest = r.path /\ q.at = 0
  <2>1. Len(q.rest) > 0 /\ q.path = r.path
    BY <1>1, <1>6 DEF SameTask, Ready
  <2> QED
    BY <1>1, <1>2, <1>6, <2>1 DEF Shape, InStep, Ready, SameTask, Walking
<1> QED
  BY <1>3, <1>4, <1>5, <1>6 DEF HasDir

LEMMA GoingsShape ==
    ASSUME NEW r \in Request, NEW q, Ready(r), Goings(r, q)
    PROVE  q \in Request /\ Shape(q)
<1>1. CASE q = NoReq
  BY <1>1, NoReqTyped
<1>2. CASE Len(r.path) = 1 /\ HasDir(r, 0, q)
  BY <1>2, HasDirShape, Numbers
<1>3. CASE /\ q \in Request /\ SameTask(q, r) /\ q.dir = r.dir
           /\ q.pc = "parent" /\ Len(q.rest) > 0 /\ q.at = 0
  <2>1. Ready(q)
    BY <1>3 DEF Ready, SameTask
  <2> QED
    BY <1>3, <2>1 DEF Shape, InStep, Ready, SameTask, Walking
<1> QED
  BY <1>1, <1>2, <1>3 DEF Goings

LEMMA FoundShape ==
    ASSUME NEW r \in Request, NEW n \in Ids, inode \in Table, Exists(n), Shape(r)
    PROVE  Found(r, n) \in Request /\ Shape(Found(r, n))
<1> DEFINE q == Found(r, n)
<1>0. Len(r.path) > 0 \/ r.pc \notin {"target", "src"}
  BY DEF Shape, InStep
<1>1. HasFound(r, n, q)
  BY <1>0, FoundHas
<1>2. n # 0 /\ n \in 0..MaxInode /\ inode[n].kind \in Kind
  BY Numbers, RowOrNone DEF Exists, Row
<1> SUFFICES q \in Request /\ Shape(q)
  OBVIOUS
<1> HIDE DEF q
<1>3. CASE q = NoReq
  BY <1>3, NoReqTyped
<1>4. CASE r.pc = "parent" /\ HasDir(r, n, q)
  <2>1. Ready(r)
    BY <1>4 DEF Shape
  <2> QED
    BY <1>2, <1>4, <2>1, HasDirShape
<1>5. CASE r.pc = "target" /\ Goings([r EXCEPT !.link = n], q)
  <2> DEFINE p == [r EXCEPT !.link = n]
  <2>1. /\ p \in Request /\ p.op = r.op /\ p.kind = r.kind /\ p.link = n
        /\ p.path = r.path /\ p.node = r.node /\ p.dst = r.dst
    BY <1>2 DEF Request
  <2> HIDE DEF p
  <2>2. Ready(p)
    BY <1>2, <1>5, <2>1 DEF Shape, InStep, Ready
  <2>3. Goings(p, q)
    BY <1>5 DEF p
  <2> QED
    BY <2>1, <2>2, <2>3, GoingsShape
<1>6. CASE /\ r.pc = "victim"
           /\ q \in Request /\ q.pc = (IF inode[n].kind = "dir" THEN "count" ELSE "mark")
           /\ q.op = r.op /\ q.path = r.path /\ q.kind = r.kind /\ q.node = n
           /\ q.dst = r.dst /\ q.dir = r.dir /\ q.ids = r.ids
  BY <1>2, <1>6 DEF Shape, InStep, Walking
<1>7. CASE r.pc = "src" /\ Goings([r EXCEPT !.node = n, !.kind = inode[n].kind], q)
  <2> DEFINE p == [r EXCEPT !.node = n, !.kind = inode[n].kind]
  <2>1. /\ p \in Request /\ p.op = r.op /\ p.node = n
        /\ p.path = r.path /\ p.dst = r.dst
    BY <1>2 DEF Request
  <2> HIDE DEF p
  <2>2. Ready(p)
    BY <1>2, <1>7, <2>1 DEF Shape, InStep, Ready
  <2>3. Goings(p, q)
    BY <1>7 DEF p
  <2> QED
    BY <2>1, <2>2, <2>3, GoingsShape
<1>8. CASE /\ r.pc = "dst" /\ n # r.node /\ (inode[n].kind = "dir") = (r.kind = "dir")
           /\ q \in Request /\ q.pc = (IF inode[n].kind = "dir" THEN "count" ELSE "move")
           /\ q.op = r.op /\ q.path = r.path /\ q.kind = r.kind /\ q.node = r.node
           /\ q.dst = n /\ q.dir = r.dir /\ q.ids = r.ids
  BY <1>2, <1>8 DEF Shape, InStep, Walking, Ready
<1> QED
  BY <1>1, <1>3, <1>4, <1>5, <1>6, <1>7, <1>8 DEF HasFound

LEMMA MissedShape ==
    ASSUME NEW r \in Request, Shape(r)
    PROVE  Missed(r) \in Request /\ Shape(Missed(r))
<1> DEFINE q == Missed(r)
<1>0. Len(r.path) > 0 \/ r.pc # "open"
  BY DEF Shape, InStep
<1>1. HasMissed(r, q)
  BY <1>0, MissedHas
<1> SUFFICES q \in Request /\ Shape(q)
  OBVIOUS
<1> HIDE DEF q
<1>2. CASE q = NoReq
  BY <1>2, NoReqTyped
<1>3. CASE r.pc = "open" /\ Goings(r, q)
  BY <1>3, GoingsShape DEF Shape
<1>4. CASE /\ r.pc \in {"probe", "dst"}
           /\ q \in Request /\ q.pc = (IF r.pc = "probe" THEN "insert" ELSE "move")
           /\ SameTask(q, r) /\ q.dir = r.dir
  <2>1. Ready(q)
    BY <1>4 DEF Shape, Ready, SameTask
  <2> QED
    BY <1>4, <2>1 DEF Shape, InStep, Walking, SameTask, Ready
<1> QED
  BY <1>1, <1>2, <1>3, <1>4 DEF HasMissed
-----------------------------------------------------------------------------
(* Every step keeps the types.                                             *)

LEMMA EmptyPath ==
    ASSUME NEW p \in Seq(Names)
    PROVE  /\ Len(p) \in Nat
           /\ p # <<>> <=> Len(p) > 0
           /\ ~(Len(p) > 1) /\ Len(p) > 0 <=> Len(p) = 1
<1>1. Len(p) \in Nat
  BY LenProperties
<1>2. Len(p) = 0 <=> p = <<>>
  BY EmptySeq
<1> DEFINE k == Len(p)
<1>3. k \in Nat
  BY <1>1
<1> HIDE DEF k
<1>4. (~(k > 1) /\ k > 0 <=> k = 1) /\ (k # 0 <=> k > 0)
  BY ONLY <1>3
<1> QED
  BY <1>1, <1>2, <1>4 DEF k

LEMMA Named_In ==
    ASSUME NEW d, NEW a
    PROVE  /\ Named(d, a) \in SUBSET Ids
           /\ \A n \in Named(d, a) : /\ Exists(n) /\ inode[n].live
                                     /\ inode[n].parent = d /\ inode[n].name = a
  BY DEF Named, Kids, Live

(* How one query of a lookup goes on.                                      *)
Ends(r, q) ==
    \/ q = NoReq
    \/ Named(r.at, Head(r.rest)) = {} /\ q = Missed(r)
    \/ \E n \in Named(r.at, Head(r.rest)) :
        \/ /\ Len(r.rest) > 1
           /\ q = [r EXCEPT !.rest = Tail(r.rest), !.at = n]
        \/ /\ Len(r.rest) = 1
           /\ inode[n].kind = "link" /\ r.pc \in Following
           /\ q = [r EXCEPT !.rest = <<>>, !.at = inode[n].link]
        \/ Len(r.rest) = 1 /\ q = Found(r, n)

LEMMA LookupEnds ==
    ASSUME NEW s \in Sessions, LookupStep(s)
    PROVE  \E q : Goes(s, q) /\ Ends(req[s], q)
<1> DEFINE r == req[s]
           F == Named(r.at, Head(r.rest))
           n == Min(F)
<1>1. CASE F = {} /\ Goes(s, Missed(r))
  BY <1>1 DEF Ends
<1>2. F # {} => n \in F
  BY Named_In, MinIn
<1>3. CASE /\ F # {} /\ Len(r.rest) > 1
           /\ Goes(s, IF inode[n].kind = "dir"
                      THEN [r EXCEPT !.rest = Tail(r.rest), !.at = n] ELSE NoReq)
  BY <1>2, <1>3 DEF Ends
<1>4. CASE /\ F # {} /\ Len(r.rest) = 1
           /\ Goes(s, IF inode[n].kind = "link" /\ r.pc \in Following
                      THEN [r EXCEPT !.rest = <<>>, !.at = inode[n].link] ELSE Found(r, n))
  BY <1>2, <1>4 DEF Ends
<1> QED
  BY <1>1, <1>3, <1>4 DEF LookupStep

LEMMA WalkOn ==
    ASSUME NEW r \in Request, NEW q \in Request, Shape(r), r.pc \in Walking,
           SameTask(q, r), q.pc = r.pc, q.dir = r.dir,
           Len(q.rest) # 0 \/ (r.pc \in Following /\ q.at # 0),
           ~(r.pc \in {"probe", "dst"} /\ r.dir = 0)
    PROVE  Shape(q)
<1>1. r.pc \in {"open", "parent", "probe", "insert", "climb", "dst"} => Ready(q)
  BY DEF Shape, Ready, SameTask
<1>2. r.pc \notin {"climb", "home", "mark", "count", "move"}
  BY DEF Walking
<1> QED
  BY <1>1, <1>2 DEF Shape, InStep, SameTask

LEMMA EndsShape ==
    ASSUME NEW r \in Request, NEW q, inode \in Table, LinksLead(inode), Shape(r),
           r.pc \in Walking, r.rest # <<>>, Ends(r, q)
    PROVE  q \in Request /\ Shape(q)
<1> DEFINE F == Named(r.at, Head(r.rest))
<1>0. /\ r.rest \in Seq(Names) /\ Len(r.rest) > 0
      /\ <<>> \in Seq(Names) /\ Len(<<>>) = 0
  BY EmptyPath DEF Request
<1>1. CASE q = NoReq
  BY <1>1, NoReqTyped
<1>2. CASE q = Missed(r)
  BY <1>2, MissedShape
<1>3. ASSUME NEW n \in F
      PROVE  n \in Ids /\ n # 0 /\ n \in 0..MaxInode /\ Exists(n) /\ inode[n] \in Row
  <2>1. n \in Ids /\ Exists(n)
    BY <1>3, Named_In
  <2>2. n # 0 /\ n \in 0..MaxInode
    BY <2>1, Numbers
  <2>3. inode[n] \in Row
    BY <2>1, RowOrNone DEF Exists
  <2> QED
    BY <2>1, <2>2, <2>3
<1>4. ASSUME NEW n \in F, Len(r.rest) > 1,
             q = [r EXCEPT !.rest = Tail(r.rest), !.at = n]
      PROVE  q \in Request /\ Shape(q)
  <2>1. Tail(r.rest) \in Seq(Names) /\ Len(Tail(r.rest)) > 0
    BY <1>0, <1>4, HeadTailTyped
  <2>2. /\ q \in Request /\ SameTask(q, r) /\ q.pc = r.pc /\ q.dir = r.dir
        /\ q.rest = Tail(r.rest) /\ q.at = n
    BY <2>1, <1>3, <1>4 DEF Request, SameTask
  <2>5. Len(q.rest) # 0
    BY <2>1, <2>2, EmptyPath, EmptySeq
  <2>3. Len(r.rest) # 1
    BY <1>0, <1>4, EmptyPath
  <2>4. ~(r.pc \in {"probe", "dst"} /\ r.dir = 0)
    BY <2>3 DEF Shape
  <2> QED
    BY <2>2, <2>4, <2>5, WalkOn
<1>5. ASSUME NEW n \in F, Len(r.rest) = 1, inode[n].kind = "link", r.pc \in Following,
             q = [r EXCEPT !.rest = <<>>, !.at = inode[n].link]
      PROVE  q \in Request /\ Shape(q)
  <2>1. inode[n].link \in 0..MaxInode /\ inode[n].link # 0
    BY <1>3, <1>5 DEF Row, LinksLead, Exists
  <2>2. /\ q \in Request /\ SameTask(q, r) /\ q.pc = r.pc /\ q.dir = r.dir
        /\ q.rest = <<>> /\ q.at = inode[n].link
    BY <2>1, <1>0, <1>5 DEF Request, SameTask
  <2>3. r.pc \notin {"probe", "dst", "climb"}
    BY <1>5 DEF Following
  <2> QED
    BY <2>1, <2>2, <2>3, <1>5, WalkOn
<1>6. ASSUME NEW n \in F, q = Found(r, n)
      PROVE  q \in Request /\ Shape(q)
  BY <1>3, <1>6, FoundShape
<1> QED
  BY <1>1, <1>2, <1>4, <1>5, <1>6 DEF Ends

LEMMA FollowShape ==
    ASSUME NEW r \in Request, inode \in Table, Shape(r), r.pc \in Following, r.rest = <<>>
    PROVE  /\ r.at \in Ids
           /\ Exists(r.at) => Found(r, r.at) \in Request /\ Shape(Found(r, r.at))
           /\ Missed(r) \in Request /\ Shape(Missed(r))
<1>1. Len(r.rest) = 0
  BY EmptySeq DEF Request
<1>2. r.pc \in Walking
  BY DEF Following, Walking
<1>3. r.at # 0 /\ r.at \in 0..MaxInode
  BY <1>1, <1>2 DEF Shape, Request
<1>4. r.at \in Ids
  BY <1>3, Numbers
<1> QED
  BY <1>4, FoundShape, MissedShape

LEMMA QueryTyped ==
    ASSUME Typed, NEW s \in Sessions, NEW q \in Request, Shape(q), Goes(s, q)
    PROVE  Typed'
<1>1. req' = [req EXCEPT ![s] = q] /\ inode' = inode /\ last' = last /\ calls' = calls
  BY DEF Goes
<1>2. req' \in [Sessions -> Request] /\ \A t \in Sessions : Shape(req'[t])
  BY <1>1 DEF Typed, TypeOK
<1>3. TypeOK'
  BY <1>1, <1>2 DEF Typed, TypeOK
<1>4. LinksLead(inode')
  BY <1>1 DEF Typed
<1> QED
  BY <1>2, <1>3, <1>4 DEF Typed

LEMMA StartTyped ==
    ASSUME Typed, NEW s \in Sessions, NEW q \in Request, Shape(q), Start(s, q)
    PROVE  Typed'
<1>1. req' = [req EXCEPT ![s] = q] /\ inode' = inode /\ last' = last
      /\ calls' = calls + 1 /\ calls < MaxCalls
  BY DEF Start
<1>2. req' \in [Sessions -> Request] /\ \A t \in Sessions : Shape(req'[t])
  BY <1>1 DEF Typed, TypeOK
<1>3. calls' \in 0..MaxCalls
  BY <1>1, Numbers DEF Typed, TypeOK
<1>4. TypeOK'
  BY <1>1, <1>2, <1>3 DEF Typed, TypeOK
<1>5. LinksLead(inode')
  BY <1>1 DEF Typed
<1> QED
  BY <1>2, <1>4, <1>5 DEF Typed

LEMMA ChangeTyped ==
    ASSUME Typed, NEW s \in Sessions, NEW q \in Request, Shape(q),
           req' = [req EXCEPT ![s] = q], calls' = calls,
           inode' \in Table, LinksLead(inode'), last' \in 0..MaxInode,
           \A n \in Ids : n > last' => inode'[n] = Nil
    PROVE  Typed'
<1>1. req' \in [Sessions -> Request] /\ \A t \in Sessions : Shape(req'[t])
  BY DEF Typed, TypeOK
<1>2. TypeOK'
  BY <1>1 DEF Typed, TypeOK, Table
<1> QED
  BY <1>1, <1>2 DEF Typed
LEMMA TypedFacts ==
    ASSUME Typed, NEW s \in Sessions
    PROVE  /\ inode \in Table /\ LinksLead(inode) /\ last \in 0..MaxInode
           /\ req[s] \in Request /\ Shape(req[s])
           /\ \A n \in Ids : n > last => inode[n] = Nil
  BY DEF Typed, TypeOK, Table

LEMMA NewRow ==
    ASSUME NEW r \in Request, r.pc = "insert", Shape(r)
    PROVE  LET w == [parent |-> r.dir, name |-> BaseName(r.path), kind |-> r.kind,
                     link |-> r.link, live |-> TRUE]
           IN  w \in Row /\ (w.kind = "link" => w.link # 0) /\ w # Nil
<1> DEFINE w == [parent |-> r.dir, name |-> BaseName(r.path), kind |-> r.kind,
                 link |-> r.link, live |-> TRUE]
<1>1. Ready(r)
  BY DEF Shape
<1>2. BaseName(r.path) \in Names
  BY <1>1, BaseNameTyped DEF Ready, Request
<1>3. w \in Row
  BY <1>2 DEF Row, Request
<1>4. w.kind = "link" => w.link # 0
  BY <1>1 DEF Ready, Shape, InStep
<1> QED
  BY <1>3, <1>4, NamespaceAssumption

LEMMA InsertTyped ==
    ASSUME Typed, NEW s \in Sessions, Insert(s)
    PROVE  Typed'
<1> DEFINE r == req[s]
           w == [parent |-> r.dir, name |-> BaseName(r.path), kind |-> r.kind,
                 link |-> r.link, live |-> TRUE]
<1>1. /\ inode \in Table /\ LinksLead(inode) /\ last \in 0..MaxInode
      /\ r \in Request /\ Shape(r) /\ \A n \in Ids : n > last => inode[n] = Nil
  BY TypedFacts
<1>2. w \in Row /\ (w.kind = "link" => w.link # 0)
  BY <1>1, NewRow DEF Insert
<1>3. req' = [req EXCEPT ![s] = NoReq] /\ calls' = calls /\ last < MaxInode
  BY DEF Insert
<1>4. CASE inode' = inode /\ last' = last
  BY <1>1, <1>3, <1>4, ChangeTyped, NoReqTyped
<1>5. CASE last' = last + 1 /\ inode' = [inode EXCEPT ![last + 1] = w]
  <2> HIDE DEF w
  <2>1. last + 1 \in 0..MaxInode /\ last + 1 \in Ids
    BY <1>1, <1>3, Numbers DEF Ids
  <2>2. inode' \in Table
    BY <1>1, <1>2, <1>5, <2>1 DEF Table
  <2>3. \A n \in Ids : inode'[n] = IF n = last + 1 THEN w ELSE inode[n]
    BY <1>1, <1>5 DEF Table
  <2>4. LinksLead(inode')
    BY <1>1, <1>2, <2>3 DEF LinksLead
  <2>5. \A n \in Ids : n > last' => inode'[n] = Nil
    <3> TAKE n \in Ids
    <3> HAVE n > last'
    <3>1. n \in Nat /\ last \in Nat
      BY <1>1, Numbers
    <3>2. n > last /\ n # last + 1
      BY <1>5, <3>1
    <3> QED
      BY <1>1, <2>3, <3>2
  <2> QED
    BY <1>3, <1>5, <2>1, <2>2, <2>4, <2>5, ChangeTyped, NoReqTyped
<1> QED
  BY <1>4, <1>5 DEF Insert

LEMMA SameKinds ==
    ASSUME Typed, NEW s \in Sessions, NEW q \in Request, Shape(q),
           req' = [req EXCEPT ![s] = q], calls' = calls, last' = last,
           inode' \in Table,
           \A n \in Ids : inode'[n] # Nil =>
                inode[n] # Nil /\ inode'[n].kind = inode[n].kind /\ inode'[n].link = inode[n].link
    PROVE  Typed'
<1>1. LinksLead(inode) /\ last \in 0..MaxInode /\ \A n \in Ids : n > last => inode[n] = Nil
  BY TypedFacts
<1>2. LinksLead(inode')
  BY <1>1 DEF LinksLead
<1> QED
  BY <1>1, <1>2, ChangeTyped

LEMMA MarkDeletedTyped ==
    ASSUME Typed, NEW s \in Sessions, MarkDeleted(s)
    PROVE  Typed'
<1> DEFINE n == req[s].node
<1>1. inode \in Table /\ req[s] \in Request /\ Shape(req[s]) /\ req[s].pc = "mark"
  BY TypedFacts DEF MarkDeleted
<1>2. n # 0 /\ n \in 0..MaxInode
  BY <1>1 DEF Shape, Request
<1>3. n \in Ids
  BY <1>2, Numbers
<1>4. req' = [req EXCEPT ![s] = NoReq] /\ calls' = calls /\ last' = last
      /\ inode' = IF Exists(n) THEN [inode EXCEPT ![n].live = FALSE] ELSE inode
  BY DEF MarkDeleted, Die
<1> HIDE DEF n
<1>5. Exists(n) => inode[n] \in Row
  BY <1>1, <1>3, RowOrNone DEF Exists
<1>6. inode' \in Table
  BY <1>1, <1>3, <1>4, <1>5 DEF Table, Row
<1>7. \A m \in Ids : inode'[m] # Nil =>
        inode[m] # Nil /\ inode'[m].kind = inode[m].kind /\ inode'[m].link = inode[m].link
  BY <1>1, <1>3, <1>4, <1>5 DEF Table, Row, Exists
<1> QED
  BY <1>4, <1>6, <1>7, SameKinds, NoReqTyped

LEMMA MoveEntryTyped ==
    ASSUME Typed, NEW s \in Sessions, MoveEntry(s)
    PROVE  Typed'
<1> DEFINE r == req[s]
           a == BaseName(r.path)
           W == [n \in Ids |->
                    IF ~Exists(n) THEN Nil
                    ELSE IF n = r.node THEN [inode[n] EXCEPT !.parent = r.dir, !.name = a]
                    ELSE IF n = r.dst THEN [inode[n] EXCEPT !.live = FALSE]
                    ELSE inode[n]]
<1>1. inode \in Table /\ r \in Request /\ Shape(r) /\ r.pc = "move"
  BY TypedFacts DEF MoveEntry
<1>2. Len(r.path) > 0
  BY <1>1 DEF Shape, InStep
<1>3. a \in Names /\ r.dir \in 0..MaxInode
  BY <1>1, <1>2, BaseNameTyped DEF Request
<1>4. req' = [req EXCEPT ![s] = NoReq] /\ calls' = calls /\ last' = last
  BY DEF MoveEntry
<1>5. CASE inode' = inode
  BY <1>1, <1>4, <1>5, SameKinds, NoReqTyped
<1>6. CASE inode' = W
  <2> HIDE DEF a
  <2>1. \A n \in Ids : Exists(n) => inode[n] \in Row
    BY <1>1, RowOrNone DEF Exists
  <2>2. \A n \in Ids : W[n] \in Row \cup {Nil}
    BY <1>3, <2>1 DEF Row
  <2>3. W \in Table
    BY <2>2 DEF Table
  <2>4. \A n \in Ids : W[n] # Nil =>
            inode[n] # Nil /\ W[n].kind = inode[n].kind /\ W[n].link = inode[n].link
    BY <2>1 DEF Row, Exists
  <2> QED
    BY <1>4, <1>6, <2>3, <2>4, SameKinds, NoReqTyped
<1> QED
  BY <1>5, <1>6 DEF MoveEntry

LEMMA UndeleteTyped ==
    ASSUME Typed, NEW s \in Sessions, Undelete(s)
    PROVE  Typed'
<1> DEFINE r == req[s]
           n == r.node
<1>1. inode \in Table /\ r \in Request /\ Shape(r) /\ r.pc = "restore"
  BY TypedFacts DEF Undelete
<1>2. n # 0 /\ n \in 0..MaxInode /\ r.dir \in 0..MaxInode
  BY <1>1 DEF Shape, Request, InStep
<1>3. n \in Ids
  BY <1>2, Numbers
<1>4. /\ req' = [req EXCEPT ![s] = NoReq] /\ calls' = calls /\ last' = last
      /\ \/ inode' = inode
         \/ Exists(n) /\ inode' = [inode EXCEPT ![n].live = TRUE, ![n].parent = r.dir]
  BY DEF Undelete
<1>5. CASE inode' = inode
  BY <1>1, <1>4, <1>5, SameKinds, NoReqTyped
<1>6. CASE Exists(n) /\ inode' = [inode EXCEPT ![n].live = TRUE, ![n].parent = r.dir]
  <2>1. inode[n] \in Row
    BY <1>1, <1>3, <1>6, RowOrNone DEF Exists
  <2> DEFINE w == [[inode[n] EXCEPT !.live = TRUE] EXCEPT !.parent = r.dir]
  <2>2. w \in Row /\ w.kind = inode[n].kind /\ w.link = inode[n].link
    BY <2>1, <1>2 DEF Row
  <2>3. inode' = [inode EXCEPT ![n] = w]
    BY <1>1, <1>3, <1>6 DEF Table
  <2> HIDE DEF w
  <2>4. inode' \in Table
    BY <1>1, <1>3, <2>2, <2>3 DEF Table
  <2>5. \A m \in Ids : inode'[m] # Nil =>
            inode[m] # Nil /\ inode'[m].kind = inode[m].kind /\ inode'[m].link = inode[m].link
    BY <1>1, <1>6, <2>2, <2>3 DEF Table, Exists
  <2> QED
    BY <1>4, <2>4, <2>5, SameKinds, NoReqTyped
<1> QED
  BY <1>4, <1>5, <1>6

LEMMA PurgeInodeTyped ==
    ASSUME Typed, NEW s \in Sessions, NEW n \in req[s].ids, PurgeInode(s, n)
    PROVE  Typed'
<1> DEFINE r == req[s]
           left == r.ids \ {n}
           q == IF left = {} THEN NoReq ELSE [r EXCEPT !.ids = left]
<1>1. inode \in Table /\ r \in Request /\ Shape(r) /\ r.pc = "purge"
  BY TypedFacts DEF PurgeInode
<1>2. q \in Request /\ Shape(q)
  <2>1. CASE left = {}
    BY <2>1, NoReqTyped
  <2>2. CASE left # {}
    <3>1. q = [r EXCEPT !.ids = left] /\ left \in SUBSET Ids
      BY <1>1, <2>2 DEF Request
    <3> HIDE DEF q
    <3>2. q \in Request /\ q.op = r.op /\ q.pc = r.pc /\ q.node = r.node /\ q.dst = r.dst
      BY <1>1, <3>1 DEF Request
    <3> QED
      BY <1>1, <3>2 DEF Shape, InStep, Walking
  <2> QED
    BY <2>1, <2>2
<1>3. /\ req' = [req EXCEPT ![s] = q] /\ calls' = calls /\ last' = last
      /\ inode' = [m \in Ids |-> IF m \in Subtree(n) THEN Nil ELSE inode[m]]
  BY DEF PurgeInode
<1>4. inode' \in Table
  BY <1>1, <1>3, RowOrNone DEF Table
<1>5. \A m \in Ids : inode'[m] # Nil => inode'[m] = inode[m]
  BY <1>3
<1> QED
  BY <1>2, <1>3, <1>4, <1>5, SameKinds
LEMMA StartShape ==
    ASSUME NEW s \in Sessions, Typed
    PROVE  /\ \A p \in Paths : Mkdir(s, p) \/ Create(s, p) \/ Remove(s, p) => Typed'
           /\ \A p, q \in Paths : Symlink(s, p, q) \/ Rename(s, p, q) => Typed'
           /\ \A n \in Dead : Restore(s, n) => Typed'
           /\ \A N \in SUBSET Dead : Purge(s, N) => Typed'
<1>0. /\ NoReq \in Request /\ inode \in Table
      /\ \A p \in Paths : p \in Seq(Names) /\ Len(p) > 0
  BY NoReqTyped, TypedFacts, NamespaceAssumption
<1>1. ASSUME NEW p \in Paths, Mkdir(s, p)
      PROVE  Typed'
  <2> DEFINE r == [NoReq EXCEPT !.op = "mkdir", !.kind = "dir", !.path = p]
  <2>1. /\ r \in Request /\ r.op = "mkdir" /\ r.kind = "dir" /\ r.path = p
        /\ r.node = 0 /\ r.dst = 0
    BY <1>0 DEF NoReq, Request, Kind
  <2>2. Start(s, ToParent(r))
    BY <1>1 DEF Mkdir
  <2> HIDE DEF r
  <2>3. Ready(r)
    BY <1>0, <2>1 DEF Ready
  <2>4. ToParent(r) \in Request /\ Shape(ToParent(r))
    BY <2>1, <2>3, ToParentGoes, GoingsShape DEF Ready
  <2> QED
    BY <2>2, <2>4, StartTyped
<1>2. ASSUME NEW p \in Paths, Create(s, p)
      PROVE  Typed'
  <2> DEFINE r == [NoReq EXCEPT !.op = "create", !.kind = "file", !.path = p,
                                !.pc = "open", !.rest = p]
  <2>1. /\ r \in Request /\ r.op = "create" /\ r.kind = "file" /\ r.path = p /\ r.pc = "open"
        /\ r.rest = p /\ r.node = 0 /\ r.dst = 0
    BY <1>0 DEF NoReq, Request, Kind, Walking
  <2>2. Start(s, r)
    BY <1>2 DEF Create
  <2> HIDE DEF r
  <2>3. Len(r.rest) # 0
    BY <1>0, <2>1, EmptyPath, EmptySeq
  <2>4. Shape(r)
    BY <1>0, <2>1, <2>3 DEF Shape, InStep, Ready
  <2> QED
    BY <2>1, <2>2, <2>4, StartTyped
<1>3. ASSUME NEW p \in Paths, Remove(s, p)
      PROVE  Typed'
  <2> DEFINE r == [NoReq EXCEPT !.op = "remove", !.path = p, !.pc = "victim", !.rest = p]
  <2>1. /\ r \in Request /\ r.op = "remove" /\ r.path = p /\ r.pc = "victim"
        /\ r.rest = p /\ r.node = 0 /\ r.dst = 0
    BY <1>0 DEF NoReq, Request, Kind, Walking
  <2>2. Start(s, r)
    BY <1>3 DEF Remove
  <2> HIDE DEF r
  <2>3. Len(r.rest) # 0
    BY <1>0, <2>1, EmptyPath, EmptySeq
  <2>4. Shape(r)
    BY <1>0, <2>1, <2>3 DEF Shape, InStep, Ready
  <2> QED
    BY <2>1, <2>2, <2>4, StartTyped
<1>4. ASSUME NEW p \in Paths, NEW q \in Paths, Symlink(s, p, q)
      PROVE  Typed'
  <2> DEFINE r == [NoReq EXCEPT !.op = "symlink", !.kind = "link", !.path = q,
                                !.pc = "target", !.rest = p]
  <2>1. /\ r \in Request /\ r.op = "symlink" /\ r.kind = "link" /\ r.path = q /\ r.pc = "target"
        /\ r.rest = p /\ r.node = 0 /\ r.dst = 0
    BY <1>0 DEF NoReq, Request, Kind, Walking
  <2>2. Start(s, r)
    BY <1>4 DEF Symlink
  <2> HIDE DEF r
  <2>3. Len(r.rest) # 0
    BY <1>0, <2>1, EmptyPath, EmptySeq
  <2>4. Shape(r)
    BY <1>0, <2>1, <2>3 DEF Shape, InStep, Ready
  <2> QED
    BY <2>1, <2>2, <2>4, StartTyped
<1>5. ASSUME NEW p \in Paths, NEW q \in Paths, Rename(s, p, q)
      PROVE  Typed'
  <2> DEFINE r == [NoReq EXCEPT !.op = "rename", !.path = q, !.pc = "src", !.rest = p]
  <2>1. /\ r \in Request /\ r.op = "rename" /\ r.path = q /\ r.pc = "src"
        /\ r.rest = p /\ r.node = 0 /\ r.dst = 0
    BY <1>0 DEF NoReq, Request, Kind, Walking
  <2>2. Start(s, r)
    BY <1>5 DEF Rename
  <2> HIDE DEF r
  <2>3. Len(r.rest) # 0
    BY <1>0, <2>1, EmptyPath, EmptySeq
  <2>4. Shape(r)
    BY <1>0, <2>1, <2>3 DEF Shape, InStep, Ready
  <2> QED
    BY <2>1, <2>2, <2>4, StartTyped
<1>6. ASSUME NEW n \in Dead, Restore(s, n)
      PROVE  Typed'
  <2> DEFINE r == [NoReq EXCEPT !.op = "restore", !.node = n, !.dir = inode[n].parent,
                                !.path = <<inode[n].name>>,
                                !.pc = IF inode[n].parent = 0 THEN "conflict" ELSE "home"]
  <2>1. n \in Ids /\ inode[n] \in Row
    BY <1>0, RowOrNone DEF Dead, Exists
  <2>2. n # 0 /\ n \in 0..MaxInode /\ inode[n].parent \in 0..MaxInode /\ inode[n].name \in Names
    BY <2>1, Numbers DEF Row
  <2>3. <<inode[n].name>> \in Seq(Names) /\ Len(<<inode[n].name>>) = 1
    BY <2>2
  <2>4. /\ r \in Request /\ r.op = "restore" /\ r.path = <<inode[n].name>> /\ r.node = n
        /\ r.pc = (IF inode[n].parent = 0 THEN "conflict" ELSE "home")
        /\ r.dir = inode[n].parent /\ r.dst = 0
    BY <1>0, <2>2, <2>3 DEF NoReq, Request
  <2>5. Start(s, r)
    BY <1>6 DEF Restore
  <2> HIDE DEF r
  <2>6. Shape(r)
    BY <2>2, <2>3, <2>4 DEF Shape, InStep, Walking
  <2> QED
    BY <2>4, <2>5, <2>6, StartTyped
<1>7. ASSUME NEW N \in SUBSET Dead, Purge(s, N)
      PROVE  Typed'
  <2> DEFINE r == [NoReq EXCEPT !.op = "purge", !.pc = "purge", !.ids = N]
  <2>1. r \in Request /\ r.op = "purge" /\ r.pc = "purge" /\ r.node = 0 /\ r.dst = 0
    BY <1>0 DEF NoReq, Request, Dead
  <2>2. Start(s, r)
    BY <1>7 DEF Purge
  <2> HIDE DEF r
  <2>3. Shape(r)
    BY <2>1 DEF Shape, InStep, Walking
  <2> QED
    BY <2>1, <2>2, <2>3, StartTyped
<1> QED
  BY <1>1, <1>2, <1>3, <1>4, <1>5, <1>6, <1>7

LEMMA LookupStepTyped ==
    ASSUME Typed, NEW s \in Sessions, LookupStep(s)
    PROVE  Typed'
<1>1. PICK q : Goes(s, q) /\ Ends(req[s], q)
  BY LookupEnds
<1>2. /\ inode \in Table /\ LinksLead(inode) /\ req[s] \in Request /\ Shape(req[s])
      /\ req[s].pc \in Walking /\ req[s].rest # <<>>
  BY TypedFacts DEF LookupStep
<1>3. q \in Request /\ Shape(q)
  BY <1>1, <1>2, EndsShape
<1> QED
  BY <1>1, <1>3, QueryTyped

LEMMA FollowLinkTyped ==
    ASSUME Typed, NEW s \in Sessions, FollowLink(s)
    PROVE  Typed'
<1> DEFINE r == req[s]
<1>1. /\ inode \in Table /\ r \in Request /\ Shape(r)
      /\ r.pc \in Following /\ r.rest = <<>>
      /\ Goes(s, IF Exists(r.at) THEN Found(r, r.at) ELSE Missed(r))
  BY TypedFacts DEF FollowLink
<1> HIDE DEF r
<1> DEFINE q == IF Exists(r.at) THEN Found(r, r.at) ELSE Missed(r)
<1>2. q \in Request /\ Shape(q)
  BY <1>1, FollowShape
<1> QED
  BY <1>1, <1>2, QueryTyped

LEMMA CountChildrenTyped ==
    ASSUME Typed, NEW s \in Sessions, CountChildren(s)
    PROVE  Typed'
<1> DEFINE r == req[s]
           q == [r EXCEPT !.pc = IF r.op = "remove" THEN "mark" ELSE "move"]
<1>1. r \in Request /\ Shape(r) /\ r.pc = "count" /\ (Goes(s, NoReq) \/ Goes(s, q))
  BY TypedFacts DEF CountChildren
<1>2. /\ q \in Request /\ q.pc = (IF r.op = "remove" THEN "mark" ELSE "move")
      /\ q.op = r.op /\ q.path = r.path /\ q.node = r.node /\ q.dst = r.dst
  BY <1>1 DEF Request
<1> HIDE DEF q
<1>3. Shape(q)
  BY <1>1, <1>2 DEF Shape, InStep, Walking
<1> QED
  BY <1>1, <1>2, <1>3, QueryTyped, NoReqTyped

LEMMA ClimbTyped ==
    ASSUME Typed, NEW s \in Sessions, Climb(s)
    PROVE  Typed'
<1> DEFINE r == req[s]
           q1 == [r EXCEPT !.at = inode[r.at].parent]
           q2 == [r EXCEPT !.pc = "dst", !.rest = r.path, !.at = 0]
<1>0. 0 \in 0..MaxInode
  BY Numbers
<1>1. /\ inode \in Table /\ r \in Request /\ Shape(r) /\ r.pc = "climb"
      /\ \/ Goes(s, NoReq)
         \/ Exists(r.at) /\ inode[r.at].parent # 0 /\ Goes(s, q1)
         \/ Goes(s, q2)
  BY TypedFacts DEF Climb
<1>2. r.at \in Ids /\ r.dir # 0 /\ Ready(r) /\ r.path \in Seq(Names) /\ r.op = "rename" /\ r.kind = "dir"
  <2>1. r.at # 0 /\ r.at \in 0..MaxInode
    BY <1>1 DEF Shape, Request
  <2>2. r.at \in Ids
    BY <2>1, Numbers
  <2> QED
    BY <1>1, <2>2 DEF Shape, InStep, Request
<1>3. CASE Goes(s, NoReq)
  BY <1>3, QueryTyped, NoReqTyped
<1>4. CASE Exists(r.at) /\ inode[r.at].parent # 0 /\ Goes(s, q1)
  <2>1. inode[r.at].parent \in 0..MaxInode
    BY <1>1, <1>2, <1>4, RowOrNone DEF Exists, Row
  <2>2. /\ q1 \in Request /\ SameTask(q1, r) /\ q1.pc = "climb" /\ q1.dir = r.dir
        /\ q1.at = inode[r.at].parent
    BY <1>1, <2>1 DEF Request, SameTask
  <2> HIDE DEF q1
  <2>3. Ready(q1)
    BY <1>2, <2>2 DEF Ready, SameTask
  <2>4. Shape(q1)
    BY <1>2, <1>4, <2>2, <2>3 DEF Shape, InStep, SameTask, Ready, Walking
  <2> QED
    BY <1>4, <2>2, <2>4, QueryTyped
<1>5. CASE Goes(s, q2)
  <2>1. /\ q2 \in Request /\ SameTask(q2, r) /\ q2.pc = "dst" /\ q2.dir = r.dir
        /\ q2.rest = r.path /\ q2.at = 0
    BY <1>0, <1>1, <1>2 DEF Request, SameTask, Walking
  <2> HIDE DEF q2
  <2>2. Ready(q2)
    BY <1>2, <2>1 DEF Ready, SameTask
  <2>3. Len(q2.rest) # 0
    BY <1>2, <2>1, EmptyPath, EmptySeq DEF Ready
  <2>4. Shape(q2)
    BY <1>2, <2>1, <2>2, <2>3 DEF Shape, InStep, SameTask, Ready
  <2> QED
    BY <1>5, <2>1, <2>4, QueryTyped
<1> QED
  BY <1>1, <1>3, <1>4, <1>5

LEMMA FindHomeTyped ==
    ASSUME Typed, NEW s \in Sessions, FindHome(s)
    PROVE  Typed'
<1> DEFINE r == req[s]
           d == IF Live(r.dir) /\ inode[r.dir].kind = "dir" THEN r.dir ELSE 0
           q == [r EXCEPT !.pc = "conflict", !.dir = d]
<1>1. r \in Request /\ Shape(r) /\ r.pc = "home" /\ Goes(s, q)
  BY TypedFacts DEF FindHome
<1>2. d \in 0..MaxInode
  BY <1>1, Numbers DEF Request
<1> HIDE DEF d
<1>3. /\ q \in Request /\ q.pc = "conflict" /\ q.op = r.op /\ q.path = r.path
      /\ q.node = r.node /\ q.dst = r.dst
  BY <1>1, <1>2 DEF Request
<1> HIDE DEF q
<1>4. Shape(q)
  BY <1>1, <1>3 DEF Shape, InStep, Walking
<1> QED
  BY <1>1, <1>3, <1>4, QueryTyped

LEMMA EnsureNoConflictTyped ==
    ASSUME Typed, NEW s \in Sessions, EnsureNoConflict(s)
    PROVE  Typed'
<1> DEFINE r == req[s]
           q == [r EXCEPT !.pc = "restore"]
<1>1. r \in Request /\ Shape(r) /\ r.pc = "conflict" /\ (Goes(s, NoReq) \/ Goes(s, q))
  BY TypedFacts DEF EnsureNoConflict
<1>2. /\ q \in Request /\ q.pc = "restore" /\ q.op = r.op /\ q.path = r.path
      /\ q.node = r.node /\ q.dst = r.dst
  BY <1>1 DEF Request
<1> HIDE DEF q
<1>3. Shape(q)
  BY <1>1, <1>2 DEF Shape, InStep, Walking
<1> QED
  BY <1>1, <1>2, <1>3, QueryTyped, NoReqTyped

LEMMA TypedInit == Init => Typed
<1> SUFFICES ASSUME Init
             PROVE  Typed
  OBVIOUS
<1>1. IsTree(inode)
  BY NamespaceAssumption DEF Init
<1>2. inode \in Table /\ LinksLead(inode)
  BY <1>1 DEF IsTree, LinksLead, Table
<1>3. \A s \in Sessions : req[s] = NoReq
  BY DEF Init
<1>4. req \in [Sessions -> Request] /\ \A s \in Sessions : Shape(req[s])
  BY <1>3, NoReqTyped DEF Init
<1>5. \A n \in Ids : n > last => inode[n] = Nil
  <2> TAKE n \in Ids
  <2>1. inode[n] # Nil => n \in 1..last
    BY DEF Init
  <2>2. n \in Nat /\ last \in Nat
    BY Numbers DEF Init
  <2> QED
    BY <2>1, <2>2
<1>6. calls \in 0..MaxCalls /\ last \in 0..MaxInode
  BY Numbers DEF Init
<1> QED
  BY <1>2, <1>4, <1>5, <1>6 DEF Typed, TypeOK, Table

LEMMA TypedNext ==
    ASSUME Typed, [Next]_vars
    PROVE  Typed'
<1>1. ASSUME NEW s \in Sessions, Arrive(s)
      PROVE  Typed'
  BY <1>1, StartShape DEF Arrive
<1>2. ASSUME NEW s \in Sessions, Continue(s)
      PROVE  Typed'
  <2>1. CASE LookupStep(s)
    BY <2>1, LookupStepTyped
  <2>2. CASE FollowLink(s)
    BY <2>2, FollowLinkTyped
  <2>3. CASE Insert(s)
    BY <2>3, InsertTyped
  <2>4. CASE CountChildren(s)
    BY <2>4, CountChildrenTyped
  <2>5. CASE MarkDeleted(s)
    BY <2>5, MarkDeletedTyped
  <2>6. CASE Climb(s)
    BY <2>6, ClimbTyped
  <2>7. CASE MoveEntry(s)
    BY <2>7, MoveEntryTyped
  <2>8. CASE FindHome(s)
    BY <2>8, FindHomeTyped
  <2>9. CASE EnsureNoConflict(s)
    BY <2>9, EnsureNoConflictTyped
  <2>10. CASE Undelete(s)
    BY <2>10, UndeleteTyped
  <2>11. CASE \E n \in req[s].ids : PurgeInode(s, n)
    BY <2>11, PurgeInodeTyped
  <2>12. CASE FailRequest(s)
    BY <2>12, QueryTyped, NoReqTyped DEF FailRequest
  <2> QED
    BY <1>2, <2>1, <2>2, <2>3, <2>4, <2>5, <2>6, <2>7, <2>8, <2>9, <2>10, <2>11, <2>12 DEF Continue
<1>3. CASE UNCHANGED vars
  BY <1>3 DEF vars, Typed, TypeOK, Table, LinksLead
<1> QED
  BY <1>1, <1>2, <1>3 DEF Next

(* Every request keeps the inodes and its own state what the code makes    *)
(* them: rows, ids that are not given yet, and requests in a step of their *)
(* operation.                                                              *)
THEOREM NamespaceTypeCorrect == Spec => []TypeOK
<1>1. Init => Typed
  BY TypedInit
<1>2. Typed /\ [Next]_vars => Typed'
  BY TypedNext
<1>3. Typed => TypeOK
  BY DEF Typed
<1> QED
  BY <1>1, <1>2, <1>3, PTL DEF Spec
-----------------------------------------------------------------------------
(* Growing sets: what lies below an entry, and what a walk arrives at.     *)

(* f starts at A and takes, step by step, the rows in M below what it has. *)
Grows(A, M, P, k, f) ==
    f = [i \in 0..k |-> IF i = 0 THEN A ELSE f[i - 1] \cup {m \in M : P[m] \in f[i - 1]}]

LEMMA LeastNatural ==
    ASSUME NEW S \in SUBSET Nat, S # {}
    PROVE  \E m \in S : \A n \in S : m <= n
<1> DEFINE R == OpToRel(<, Nat)
<1>1. IsWellFoundedOn(R, Nat)
  BY NatLessThanWellFounded
<1>2. \A x, y \in Nat : x < y => <<x, y>> \in R
  BY DEF OpToRel
<1> HIDE DEF R
<1>3. PICK m \in S : \A n \in S : <<n, m>> \notin R
  BY <1>1, WFMin
<1>4. ASSUME NEW n \in S
      PROVE  m <= n
  <2>1. m \in Nat /\ n \in Nat
    OBVIOUS
  <2>2. ~(n < m)
    BY <1>2, <1>3, <2>1
  <2> QED
    BY <2>1, <2>2
<1> QED
  BY <1>4

LEMMA GrowthExists ==
    ASSUME NEW A, NEW M, NEW P, NEW k \in Nat
    PROVE  \E f : Grows(A, M, P, k, f)
<1> DEFINE Bad == {j \in Nat : ~\E f : Grows(A, M, P, j, f)}
           next(B) == B \cup {m \in M : P[m] \in B}
<1>1. SUFFICES ASSUME Bad # {}
               PROVE  FALSE
  OBVIOUS
<1>2. PICK j \in Bad : \A i \in Bad : j <= i
  BY <1>1, LeastNatural
<1>3. CASE j = 0
  <2> DEFINE f == [i \in 0..0 |-> A]
             g == [i \in 0..0 |-> IF i = 0 THEN A ELSE next(f[i - 1])]
  <2>1. \A i \in 0..0 : i = 0
    OBVIOUS
  <2>2. f = g
    BY <2>1
  <2>3. Grows(A, M, P, 0, f)
    BY <2>2 DEF Grows
  <2> QED
    BY <1>2, <1>3, <2>3
<1>4. CASE j # 0
  <2>1. j \in Nat /\ j - 1 \in Nat /\ j - 1 < j
    BY <1>4
  <2>2. j - 1 \notin Bad
    BY <1>2, <2>1
  <2>3. PICK g : Grows(A, M, P, j - 1, g)
    BY <2>1, <2>2
  <2> DEFINE f == [i \in 0..j |-> IF i = j THEN next(g[j - 1]) ELSE g[i]]
  <2>5. \A i \in 0..j : i # j => i \in 0..(j - 1)
    BY <2>1
  <2>6. \A i \in 0..(j - 1) : g[i] = IF i = 0 THEN A ELSE next(g[i - 1])
    BY <2>3 DEF Grows
  <2>9. ASSUME NEW i \in 0..j
        PROVE  f[i] = IF i = 0 THEN A ELSE next(f[i - 1])
    <3>1. CASE i = j
      <4>1. i # 0 /\ i - 1 \in 0..j /\ i - 1 # j /\ i - 1 = j - 1
        BY <3>1, <2>1
      <4>2. f[i - 1] = g[j - 1]
        BY <4>1
      <4> QED
        BY <3>1, <4>1, <4>2
    <3>2. CASE i # j
      <4>1. i \in 0..(j - 1) /\ f[i] = g[i]
        BY <3>2, <2>5
      <4>2. g[i] = IF i = 0 THEN A ELSE next(g[i - 1])
        BY <4>1, <2>6
      <4>3. i # 0 => i - 1 \in 0..j /\ i - 1 # j
        BY <2>1, <4>1
      <4>4. i # 0 => f[i - 1] = g[i - 1]
        BY <4>3
      <4> QED
        BY <4>1, <4>2, <4>4
    <3> QED
      BY <3>1, <3>2
  <2>7. f = [i \in 0..j |-> f[i]]
    OBVIOUS
  <2> HIDE DEF f
  <2>8. f = [i \in 0..j |-> IF i = 0 THEN A ELSE next(f[i - 1])]
    BY <2>7, <2>9
  <2>10. Grows(A, M, P, j, f)
    BY <2>8 DEF Grows
  <2> QED
    BY <1>2, <2>10
<1> QED
  BY <1>3, <1>4

LEMMA GrowthStarts ==
    ASSUME NEW A, NEW M, NEW P, NEW k \in Nat, NEW f, Grows(A, M, P, k, f)
    PROVE  0 \in 0..k /\ f[0] = A
<1>1. 0 \in 0..k
  OBVIOUS
<1>2. \A i \in 0..k : f[i] = IF i = 0 THEN A ELSE f[i - 1] \cup {m \in M : P[m] \in f[i - 1]}
  BY DEF Grows
<1> QED
  BY <1>1, <1>2

LEMMA GrowthSteps ==
    ASSUME NEW A, NEW M, NEW P, NEW k \in Nat, NEW f, Grows(A, M, P, k, f)
    PROVE  \A i \in 0..k : i # 0 =>
                i - 1 \in 0..k /\ f[i] = f[i - 1] \cup {m \in M : P[m] \in f[i - 1]}
<1>1. \A i \in 0..k : f[i] = IF i = 0 THEN A ELSE f[i - 1] \cup {m \in M : P[m] \in f[i - 1]}
  BY DEF Grows
<1>2. \A i \in 0..k : i # 0 => i - 1 \in 0..k
  OBVIOUS
<1> QED
  BY <1>1, <1>2

(* It stays in every set that has A and is closed under M and P.           *)
LEMMA GrowthLeast ==
    ASSUME NEW A, NEW M, NEW P, NEW k \in Nat, NEW f, Grows(A, M, P, k, f),
           NEW S, A \subseteq S, \A m \in M : P[m] \in S => m \in S
    PROVE  \A i \in 0..k : f[i] \subseteq S
<1> DEFINE Bad == {i \in 0..k : ~(f[i] \subseteq S)}
<1>1. SUFFICES ASSUME Bad # {}
               PROVE  FALSE
  OBVIOUS
<1>2. Bad \in SUBSET Nat
  OBVIOUS
<1>3. PICK j \in Bad : \A i \in Bad : j <= i
  BY <1>1, <1>2, LeastNatural
<1>9. f[0] \subseteq S
  BY GrowthStarts
<1>4. j # 0
  BY <1>3, <1>9
<1>5. j \in 0..k /\ j - 1 \in 0..k /\ ~(j <= j - 1)
  BY <1>3, <1>4
<1>6. f[j - 1] \subseteq S
  BY <1>3, <1>5
<1>7. f[j] = f[j - 1] \cup {m \in M : P[m] \in f[j - 1]}
  BY <1>4, <1>5, GrowthSteps
<1>8. f[j] \subseteq S
  BY <1>6, <1>7
<1> QED
  BY <1>3, <1>8

(* After as many steps as there are rows it has all of them.               *)
LEMMA GrowthCloses ==
    ASSUME NEW A \in SUBSET (0..MaxInode), A # {}, NEW M \in SUBSET Ids, NEW P,
           NEW f, Grows(A, M, P, MaxInode, f)
    PROVE  /\ A \subseteq f[MaxInode]
           /\ f[MaxInode] \subseteq 0..MaxInode
           /\ \A m \in M : P[m] \in f[MaxInode] => m \in f[MaxInode]
<1> DEFINE V == 0..MaxInode
           Closed(B) == \A m \in M : P[m] \in B => m \in B
           Good(i) == A \subseteq f[i] /\ (Closed(f[i]) \/ Cardinality(f[i]) >= i + 1)
<1>0. MaxInode \in Nat /\ M \in SUBSET V
  BY Numbers
<1>1. IsFiniteSet(V) /\ Cardinality(V) = MaxInode + 1
  <2>1. 0 \in Int /\ MaxInode \in Int
    BY <1>0
  <2>2. IsFiniteSet(V) /\ Cardinality(V) = IF 0 > MaxInode THEN 0 ELSE MaxInode - 0 + 1
    BY <2>1, FS_Interval
  <2> QED
    BY <1>0, <2>2
<1>2. \A i \in 0..MaxInode : f[i] \subseteq V
  BY <1>0, GrowthLeast
<1>3. \A i \in 0..MaxInode : IsFiniteSet(f[i]) /\ Cardinality(f[i]) \in Nat
  BY <1>1, <1>2, FS_Subset, FS_CardinalityType
<1>4. \A i \in 0..MaxInode : Good(i)
  <2> DEFINE Bad == {i \in 0..MaxInode : ~Good(i)}
  <2>1. SUFFICES ASSUME Bad # {}
                 PROVE  FALSE
    OBVIOUS
  <2>2. Bad \in SUBSET Nat
    BY <1>0
  <2>3. PICK j \in Bad : \A i \in Bad : j <= i
    BY <2>1, <2>2, LeastNatural
  <2>4. CASE j = 0
    <3>1. f[0] = A /\ 0 \in 0..MaxInode
      BY <1>0, GrowthStarts
    <3>2. IsFiniteSet(A) /\ Cardinality(A) \in Nat /\ Cardinality(A) # 0
      BY <1>3, <3>1, FS_EmptySet
    <3>3. Cardinality(A) >= 0 + 1
      BY <3>2
    <3>4. Good(0)
      BY <3>1, <3>3
    <3> QED
      BY <2>3, <2>4, <3>4
  <2>5. CASE j # 0
    <3>1. j \in 0..MaxInode /\ j \in Nat /\ j - 1 \in 0..MaxInode /\ ~(j <= j - 1)
      BY <1>0, <2>3, <2>5
    <3>2. Good(j - 1)
      BY <2>3, <3>1
    <3>3. f[j] = f[j - 1] \cup {m \in M : P[m] \in f[j - 1]}
      BY <1>0, <2>5, <3>1, GrowthSteps
    <3>4. CASE Closed(f[j - 1])
      <4>1. f[j] = f[j - 1]
        BY <3>3, <3>4
      <4>2. Good(j)
        BY <3>2, <3>4, <4>1
      <4> QED
        BY <2>3, <4>2
    <3>5. CASE ~Closed(f[j - 1])
      <4>1. Cardinality(f[j - 1]) >= (j - 1) + 1
        BY <3>2, <3>5
      <4>2. PICK m \in M : P[m] \in f[j - 1] /\ m \notin f[j - 1]
        BY <3>5
      <4>3. m \in f[j] /\ f[j - 1] \subseteq f[j]
        BY <3>3, <4>2
      <4>4. f[j - 1] \cup {m} \subseteq f[j]
        BY <4>3
      <4> DEFINE B == f[j - 1]
      <4>10. IsFiniteSet(B) /\ m \notin B
        BY <1>3, <3>1, <4>2
      <4> HIDE DEF B
      <4>11. Cardinality(B \cup {m}) = Cardinality(B) + 1
        BY <4>10, FS_AddElement
      <4>5. Cardinality(f[j - 1] \cup {m}) = Cardinality(f[j - 1]) + 1
        BY <4>11 DEF B
      <4>6. Cardinality(f[j - 1] \cup {m}) <= Cardinality(f[j])
        BY <1>3, <3>1, <4>4, FS_Subset
      <4> DEFINE a == Cardinality(f[j - 1])
                 b == Cardinality(f[j - 1] \cup {m})
                 c == Cardinality(f[j])
      <4>7. a \in Nat /\ c \in Nat /\ a >= (j - 1) + 1 /\ b = a + 1 /\ b <= c
        BY <1>3, <3>1, <4>1, <4>5, <4>6
      <4> HIDE DEF a, b, c
      <4>8. c >= j + 1
        BY <3>1, <4>7
      <4>9. Good(j)
        BY <3>2, <4>3, <4>8 DEF c
      <4> QED
        BY <2>3, <4>9
    <3> QED
      BY <3>4, <3>5
  <2> QED
    BY <2>4, <2>5
<1>5. MaxInode \in 0..MaxInode
  BY <1>0
<1>6. Good(MaxInode) /\ f[MaxInode] \subseteq V
  BY <1>2, <1>4, <1>5
<1>7. CASE Cardinality(f[MaxInode]) >= MaxInode + 1
  <2>1. Cardinality(f[MaxInode]) <= Cardinality(V)
    BY <1>1, <1>6, FS_Subset
  <2>2. Cardinality(f[MaxInode]) = Cardinality(V)
    BY <1>0, <1>1, <1>3, <1>5, <1>7, <2>1
  <2>3. f[MaxInode] = V
    BY <1>1, <1>6, <2>2, FS_Subset
  <2>4. Closed(f[MaxInode])
    BY <1>0, <2>3
  <2> QED
    BY <1>6, <2>4
<1> QED
  BY <1>6, <1>7

LEMMA SubtreeGrows ==
    ASSUME NEW n
    PROVE  \E f : /\ Grows({n}, {m \in Ids : Exists(m)}, [m \in Ids |-> inode[m].parent], MaxInode, f)
                  /\ Subtree(n) = f[MaxInode]
<1> DEFINE M == {m \in Ids : Exists(m)}
           P == [m \in Ids |-> inode[m].parent]
           step(f) == [k \in 0..MaxInode |->
                          IF k = 0 THEN {n}
                          ELSE f[k - 1] \cup {m \in Ids : Exists(m) /\ inode[m].parent \in f[k - 1]}]
           grow(f) == [k \in 0..MaxInode |->
                          IF k = 0 THEN {n} ELSE f[k - 1] \cup {m \in M : P[m] \in f[k - 1]}]
<1>1. MaxInode \in Nat
  BY Numbers
<1>2. Subtree(n) = (CHOOSE f : f = step(f))[MaxInode]
  BY DEF Subtree
<1>3. ASSUME NEW f
      PROVE  step(f) = grow(f)
  <2>1. \A B : {m \in Ids : Exists(m) /\ inode[m].parent \in B} = {m \in M : P[m] \in B}
    OBVIOUS
  <2> QED
    BY <2>1
<1>4. \E f : Grows({n}, M, P, MaxInode, f)
  BY <1>1, GrowthExists
<1>5. \A f : Grows({n}, M, P, MaxInode, f) <=> f = grow(f)
  BY DEF Grows
<1> HIDE DEF step, grow, M, P
<1>6. PICK f : f = step(f)
  BY <1>3, <1>4, <1>5
<1>7. PICK g : g = (CHOOSE h : h = step(h))
  OBVIOUS
<1>8. g = step(g)
  BY <1>6, <1>7
<1>9. Grows({n}, M, P, MaxInode, g) /\ Subtree(n) = g[MaxInode]
  BY <1>2, <1>3, <1>5, <1>7, <1>8
<1> QED
  BY <1>9 DEF M, P

(* collectSubtree finds an entry, all that is below it, and nothing else.  *)
LEMMA SubtreeIs ==
    ASSUME NEW n \in Ids
    PROVE  /\ n \in Subtree(n)
           /\ Subtree(n) \subseteq Ids
           /\ \A m \in Ids : Exists(m) /\ inode[m].parent \in Subtree(n) => m \in Subtree(n)
           /\ \A S : n \in S /\ (\A m \in Ids : Exists(m) /\ inode[m].parent \in S => m \in S)
                        => Subtree(n) \subseteq S
<1> DEFINE M == {m \in Ids : Exists(m)}
           P == [m \in Ids |-> inode[m].parent]
<1>1. PICK f : Grows({n}, M, P, MaxInode, f) /\ Subtree(n) = f[MaxInode]
  BY SubtreeGrows
<1>2. {n} \in SUBSET (0..MaxInode) /\ {n} # {} /\ M \in SUBSET Ids /\ MaxInode \in Nat
      /\ MaxInode \in 0..MaxInode
  BY Numbers
<1>3. \A m \in M : P[m] = inode[m].parent
  OBVIOUS
<1>4. ASSUME NEW S, n \in S, \A m \in Ids : Exists(m) /\ inode[m].parent \in S => m \in S
      PROVE  Subtree(n) \subseteq S
  <2>1. {n} \subseteq S /\ \A m \in M : P[m] \in S => m \in S
    BY <1>3, <1>4
  <2> HIDE DEF M, P
  <2>2. \A i \in 0..MaxInode : f[i] \subseteq S
    BY <1>1, <1>2, <2>1, GrowthLeast
  <2> QED
    BY <1>1, <1>2, <2>2
<1>5. \A m \in Ids : Exists(m) /\ inode[m].parent \in Ids => m \in Ids
  OBVIOUS
<1>6. Subtree(n) \subseteq Ids
  BY <1>4, <1>5
<1> HIDE DEF M, P
<1>7. {n} \subseteq f[MaxInode] /\ \A m \in M : P[m] \in f[MaxInode] => m \in f[MaxInode]
  BY <1>1, <1>2, GrowthCloses
<1>8. \A m \in Ids : Exists(m) /\ inode[m].parent \in Subtree(n) => m \in Subtree(n)
  BY <1>1, <1>3, <1>7 DEF M
<1> QED
  BY <1>1, <1>4, <1>6, <1>7, <1>8
-----------------------------------------------------------------------------
(* The races that Allowed leaves out.                                      *)

AddingR(r) ==
    \/ r.pc \in {"probe", "insert", "climb", "dst", "move", "conflict", "restore"}
    \/ r.op = "rename" /\ r.pc = "count"

LEMMA AddingIs == \A s : Adding(s) <=> AddingR(req[s])
  BY DEF Adding, AddingR

LEMMA AllowedInit == Init => Allowed
<1> SUFFICES ASSUME Init
             PROVE  Allowed
  OBVIOUS
<1>1. \A s \in Sessions : /\ req[s].op = "none" /\ req[s].pc = "none"
                          /\ req[s].node = 0 /\ req[s].dst = 0
  BY DEF Init, NoReq
<1>2. \A s \in Sessions : ~Adding(s)
  BY <1>1 DEF Adding
<1>3. \A s \in Sessions : Emptying(s) = {}
  BY <1>1 DEF Emptying
<1>4. \A s \in Sessions : Changing(s) = {}
  BY <1>1, <1>3 DEF Changing
<1>5. \A s \in Sessions : ~MovesDir(s) /\ ~AtDanglingLink(s)
  BY <1>2 DEF MovesDir, AtDanglingLink
<1>6. \A s \in Sessions : ~Astray(s)
  BY <1>1, Numbers DEF Astray
<1> QED
  BY <1>2, <1>3, <1>4, <1>5, <1>6 DEF Allowed

LEMMA AllowedNext == Allowed /\ [Next]_vars => Allowed'
<1> SUFFICES ASSUME Allowed, [Next]_vars
             PROVE  Allowed'
  OBVIOUS
<1>1. CASE Next
  BY <1>1 DEF Next
<1>2. CASE UNCHANGED vars
  <2>1. inode' = inode /\ req' = req
    BY <1>2 DEF vars
  <2>2. \A n : Subtree(n)' = Subtree(n)
    BY <2>1 DEF Subtree, Exists
  <2>3. \A s : Emptying(s)' = Emptying(s)
    BY <2>1, <2>2 DEF Emptying
  <2>4. \A s : Changing(s)' = Changing(s)
    BY <2>1, <2>3 DEF Changing
  <2>5. \A s : (Adding(s)' <=> Adding(s)) /\ Place(s)' = Place(s)
    BY <2>1 DEF Adding, Place
  <2>6. \A s : (MovesDir(s)' <=> MovesDir(s)) /\ (AtDanglingLink(s)' <=> AtDanglingLink(s))
    BY <2>1, <2>5 DEF MovesDir, AtDanglingLink, Named, Kids, Live, Exists
  <2>7. \A s : (Astray(s)' <=> Astray(s)) /\ Dead' = Dead
    BY <2>1 DEF Astray, Exists, Dead
  <2> QED
    BY <2>1, <2>3, <2>4, <2>5, <2>6, <2>7 DEF Allowed
<1> QED
  BY <1>1, <1>2
-----------------------------------------------------------------------------
(* What the transactions do to the rows.                                   *)

LEMMA InsertDoes ==
    ASSUME Typed, NEW s \in Sessions, Insert(s)
    PROVE  LET r == req[s]
               n == last + 1
           IN  /\ req' = [req EXCEPT ![s] = NoReq] /\ r \in Request /\ Ready(r) /\ r.pc = "insert"
               /\ \/ inode' = inode /\ last' = last
                  \/ /\ n \in Ids /\ inode[n] = Nil /\ last' = n
                     /\ ~Indexed(r.dir, BaseName(r.path), {})
                     /\ inode' = [inode EXCEPT ![n] =
                            [parent |-> r.dir, name |-> BaseName(r.path), kind |-> r.kind,
                             link |-> r.link, live |-> TRUE]]
                     /\ inode'[n] # Nil /\ inode'[n].live /\ inode'[n].kind = r.kind
                     /\ inode'[n].parent = r.dir /\ inode'[n].name = BaseName(r.path)
                     /\ \A m \in Ids : m # n => inode'[m] = inode[m]
<1> DEFINE r == req[s]
           n == last + 1
           w == [parent |-> r.dir, name |-> BaseName(r.path), kind |-> r.kind,
                 link |-> r.link, live |-> TRUE]
<1>1. /\ inode \in Table /\ last \in 0..MaxInode /\ r \in Request /\ Shape(r)
      /\ \A m \in Ids : m > last => inode[m] = Nil
  BY TypedFacts
<1>2. req' = [req EXCEPT ![s] = NoReq] /\ last < MaxInode /\ r.pc = "insert"
  BY DEF Insert
<1>3. Ready(r)
  BY <1>1, <1>2 DEF Shape
<1>4. n \in Ids /\ n > last
  BY <1>1, <1>2, Numbers DEF Ids
<1>5. inode[n] = Nil
  BY <1>1, <1>4
<1>6. CASE inode' = inode /\ last' = last
  BY <1>1, <1>2, <1>3, <1>6
<1>7. CASE ~Indexed(r.dir, BaseName(r.path), {}) /\ last' = n /\ inode' = [inode EXCEPT ![n] = w]
  <2>1. w # Nil
    BY <1>1, <1>2, NewRow
  <2>2. inode'[n] = w /\ \A m \in Ids : m # n => inode'[m] = inode[m]
    BY <1>1, <1>4, <1>7 DEF Table
  <2>3. inode'[n] # Nil /\ inode'[n].live /\ inode'[n].kind = r.kind
        /\ inode'[n].parent = r.dir /\ inode'[n].name = BaseName(r.path)
    BY <2>1, <2>2
  <2> QED
    BY <1>1, <1>2, <1>3, <1>4, <1>5, <1>7, <2>2, <2>3
<1> QED
  BY <1>6, <1>7 DEF Insert

LEMMA MarkDeletedDoes ==
    ASSUME Typed, NEW s \in Sessions, MarkDeleted(s)
    PROVE  LET n == req[s].node
           IN  /\ req' = [req EXCEPT ![s] = NoReq] /\ last' = last
               /\ req[s] \in Request /\ Shape(req[s]) /\ req[s].pc = "mark"
               /\ n \in Ids
               /\ inode[n] # Nil => inode' = [inode EXCEPT ![n].live = FALSE]
               /\ inode'[n] # Nil <=> inode[n] # Nil
               /\ inode[n] # Nil => /\ ~inode'[n].live /\ inode'[n].kind = inode[n].kind
                                    /\ inode'[n].parent = inode[n].parent
                                    /\ inode'[n].name = inode[n].name
               /\ \A m \in Ids : m # n => inode'[m] = inode[m]
<1> DEFINE n == req[s].node
<1>1. /\ inode \in Table /\ req[s] \in Request /\ Shape(req[s]) /\ req[s].pc = "mark"
      /\ req' = [req EXCEPT ![s] = NoReq] /\ last' = last
      /\ inode' = IF Exists(n) THEN [inode EXCEPT ![n].live = FALSE] ELSE inode
  BY TypedFacts DEF MarkDeleted, Die
<1>2. n # 0 /\ n \in 0..MaxInode
  BY <1>1 DEF Shape, Request
<1>3. n \in Ids
  BY <1>2, Numbers
<1> HIDE DEF n
<1>4. CASE ~Exists(n)
  BY <1>1, <1>3, <1>4 DEF Exists, n
<1>5. CASE Exists(n)
  <2> DEFINE w == [inode[n] EXCEPT !.live = FALSE]
  <2>1. inode[n] \in Row
    BY <1>1, <1>3, <1>5, RowOrNone DEF Exists
  <2>2. /\ w \in Row /\ ~w.live /\ w.kind = inode[n].kind /\ w.parent = inode[n].parent
        /\ w.name = inode[n].name
    BY <2>1 DEF Row
  <2>3. inode'[n] = w /\ \A m \in Ids : m # n => inode'[m] = inode[m]
    BY <1>1, <1>3, <1>5 DEF Table
  <2> HIDE DEF w
  <2>4. inode'[n] # Nil
    BY <2>2, <2>3, NamespaceAssumption
  <2> QED
    BY <1>1, <1>3, <1>5, <2>2, <2>3, <2>4 DEF Exists, n
<1> QED
  BY <1>4, <1>5

LEMMA MoveEntryDoes ==
    ASSUME Typed, NEW s \in Sessions, MoveEntry(s)
    PROVE  LET r == req[s]
               n == r.node
               x == r.dst
           IN  /\ req' = [req EXCEPT ![s] = NoReq] /\ last' = last
               /\ r \in Request /\ Shape(r) /\ r.pc = "move" /\ r.op = "rename"
               /\ n \in Ids /\ x \in 0..MaxInode
               /\ \/ inode' = inode
                  \/ /\ ~(Live(n) /\ Indexed(r.dir, BaseName(r.path), {n, x}))
                     /\ inode' \in Table
                     /\ \A m \in Ids : inode'[m] # Nil <=> inode[m] # Nil
                     /\ inode[n] # Nil => /\ inode'[n] = [inode[n] EXCEPT !.parent = r.dir, !.name = BaseName(r.path)]
                                          /\ inode'[n].live = inode[n].live
                                          /\ inode'[n].kind = inode[n].kind
                                          /\ inode'[n].parent = r.dir
                                          /\ inode'[n].name = BaseName(r.path)
                     /\ x # 0 /\ x # n /\ inode[x] # Nil =>
                            /\ inode'[x] = [inode[x] EXCEPT !.live = FALSE]
                            /\ ~inode'[x].live
                            /\ inode'[x].kind = inode[x].kind
                            /\ inode'[x].parent = inode[x].parent
                            /\ inode'[x].name = inode[x].name
                     /\ \A m \in Ids \ {n, x} : inode'[m] = inode[m]
<1> DEFINE r == req[s]
           n == r.node
           x == r.dst
           a == BaseName(r.path)
<1>1. /\ inode \in Table /\ r \in Request /\ Shape(r) /\ r.pc = "move"
      /\ req' = [req EXCEPT ![s] = NoReq] /\ last' = last
  BY TypedFacts DEF MoveEntry
<1>2. n # 0 /\ n \in 0..MaxInode /\ Len(r.path) > 0 /\ r.op = "rename" /\ x \in 0..MaxInode
      /\ r.dir \in 0..MaxInode
  BY <1>1 DEF Shape, InStep, Request
<1>3. n \in Ids /\ a \in Names
  BY <1>1, <1>2, Numbers, BaseNameTyped DEF Request
<1>4. CASE inode' = inode
  BY <1>1, <1>2, <1>3, <1>4
<1>5. CASE /\ ~(Live(n) /\ Indexed(r.dir, a, {n, x}))
           /\ inode' = [m \in Ids |->
                            IF ~Exists(m) THEN Nil
                            ELSE IF m = n THEN [inode[m] EXCEPT !.parent = r.dir, !.name = a]
                            ELSE IF m = x THEN [inode[m] EXCEPT !.live = FALSE]
                            ELSE inode[m]]
  <2>0. Typed'
    BY MoveEntryTyped
  <2>1. inode' \in Table
    BY <2>0 DEF Typed, TypeOK, Table
  <2>2. \A m \in Ids : inode[m] # Nil => inode[m] \in Row
    BY <1>1, RowOrNone
  <2> HIDE DEF a, r, n, x
  <2>3. \A m \in Ids : inode'[m] = IF ~Exists(m) THEN Nil
                            ELSE IF m = n THEN [inode[m] EXCEPT !.parent = r.dir, !.name = a]
                            ELSE IF m = x THEN [inode[m] EXCEPT !.live = FALSE]
                            ELSE inode[m]
    BY <1>5
  <2>4. ASSUME inode[n] # Nil
        PROVE  /\ inode'[n] = [inode[n] EXCEPT !.parent = r.dir, !.name = a]
               /\ inode'[n].live = inode[n].live
               /\ inode'[n].kind = inode[n].kind
               /\ inode'[n].parent = r.dir
               /\ inode'[n].name = a
               /\ inode'[n] \in Row
    <3>1. inode'[n] = [inode[n] EXCEPT !.parent = r.dir, !.name = a]
      BY <1>3, <2>3, <2>4 DEF Exists
    <3>2. inode[n] \in Row
      BY <1>3, <2>2, <2>4
    <3> QED
      BY <1>2, <1>3, <3>1, <3>2 DEF Row
  <2>5. ASSUME x # 0, x # n, inode[x] # Nil
        PROVE  /\ inode'[x] = [inode[x] EXCEPT !.live = FALSE]
               /\ ~inode'[x].live
               /\ inode'[x].kind = inode[x].kind
               /\ inode'[x].parent = inode[x].parent
               /\ inode'[x].name = inode[x].name
               /\ inode'[x] \in Row
    <3>0. x \in Ids
      BY <1>2, <2>5, Numbers
    <3>1. inode'[x] = [inode[x] EXCEPT !.live = FALSE]
      BY <3>0, <2>3, <2>5 DEF Exists
    <3>2. inode[x] \in Row
      BY <3>0, <2>2, <2>5
    <3> QED
      BY <3>1, <3>2 DEF Row
  <2>6. \A m \in Ids \ {n, x} : inode'[m] = inode[m]
    BY <2>3 DEF Exists
  <2>7. ASSUME NEW m \in Ids
        PROVE  inode'[m] # Nil <=> inode[m] # Nil
    <3>1. CASE m \notin {n, x}
      BY <2>6, <3>1
    <3>2. CASE inode[m] = Nil
      BY <2>3, <3>2 DEF Exists
    <3>3. CASE m \in {n, x} /\ inode[m] # Nil
      <4>1. m # 0
        BY Numbers
      <4>2. inode'[m] \in Row
        BY <3>3, <4>1, <2>4, <2>5
      <4> QED
        BY <3>3, <4>2, NamespaceAssumption
    <3> QED
      BY <3>1, <3>2, <3>3
  <2> QED
    BY <1>1, <1>2, <1>3, <1>5, <2>1, <2>4, <2>5, <2>6, <2>7 DEF a, r, n, x
<1> QED
  BY <1>4, <1>5 DEF MoveEntry

LEMMA UndeleteDoes ==
    ASSUME Typed, NEW s \in Sessions, Undelete(s)
    PROVE  LET r == req[s]
               n == r.node
           IN  /\ req' = [req EXCEPT ![s] = NoReq] /\ last' = last
               /\ r \in Request /\ Shape(r) /\ r.pc = "restore" /\ r.op = "restore"
               /\ n \in Ids
               /\ \/ inode' = inode
                  \/ /\ inode[n] # Nil /\ ~Indexed(r.dir, inode[n].name, {n})
                     /\ inode' = [inode EXCEPT ![n].live = TRUE, ![n].parent = r.dir]
                     /\ inode'[n] # Nil /\ inode'[n].live /\ inode'[n].kind = inode[n].kind
                     /\ inode'[n].parent = r.dir /\ inode'[n].name = inode[n].name
                     /\ \A m \in Ids : m # n => inode'[m] = inode[m]
<1> DEFINE r == req[s]
           n == r.node
<1>1. /\ inode \in Table /\ r \in Request /\ Shape(r) /\ r.pc = "restore"
      /\ req' = [req EXCEPT ![s] = NoReq] /\ last' = last
  BY TypedFacts DEF Undelete
<1>2. n # 0 /\ n \in 0..MaxInode /\ r.dir \in 0..MaxInode /\ r.op = "restore"
  BY <1>1 DEF Shape, Request, InStep
<1>3. n \in Ids
  BY <1>2, Numbers
<1>4. CASE inode' = inode
  BY <1>1, <1>2, <1>3, <1>4
<1>5. CASE /\ Exists(n) /\ ~Indexed(r.dir, inode[n].name, {n})
           /\ inode' = [inode EXCEPT ![n].live = TRUE, ![n].parent = r.dir]
  <2> HIDE DEF n, r
  <2>1. inode[n] \in Row
    BY <1>1, <1>3, <1>5, RowOrNone DEF Exists
  <2> DEFINE w == [[inode[n] EXCEPT !.live = TRUE] EXCEPT !.parent = r.dir]
  <2>2. /\ w \in Row /\ w.kind = inode[n].kind /\ w.live /\ w.parent = r.dir
        /\ w.name = inode[n].name
    BY <2>1, <1>2 DEF Row
  <2>3. inode' = [inode EXCEPT ![n] = w]
    BY <1>1, <1>3, <1>5 DEF Table
  <2> HIDE DEF w
  <2>4. inode'[n] = w /\ \A m \in Ids : m # n => inode'[m] = inode[m]
    BY <1>1, <1>3, <2>3 DEF Table
  <2>5. inode'[n] # Nil
    BY <2>2, <2>4, NamespaceAssumption
  <2> QED
    BY <1>1, <1>2, <1>3, <1>5, <2>2, <2>4, <2>5 DEF Exists, n, r
<1> QED
  BY <1>4, <1>5 DEF Undelete

LEMMA PurgeInodeDoes ==
    ASSUME Typed, NEW s \in Sessions, NEW n \in req[s].ids, PurgeInode(s, n)
    PROVE  /\ n \in Ids /\ last' = last
           /\ req[s] \in Request /\ Shape(req[s]) /\ req[s].pc = "purge"
           /\ \E q : /\ req' = [req EXCEPT ![s] = q]
                     /\ \/ q = NoReq
                        \/ q = [req[s] EXCEPT !.ids = req[s].ids \ {n}]
           /\ \A m \in Ids : inode'[m] = IF m \in Subtree(n) THEN Nil ELSE inode[m]
           /\ n \in Emptying(s) /\ Subtree(n) \subseteq Emptying(s)
<1>1. req[s] \in Request /\ Shape(req[s]) /\ req[s].pc = "purge"
  BY TypedFacts DEF PurgeInode
<1>2. n \in Ids
  BY <1>1 DEF Request
<1>3. \E q : /\ req' = [req EXCEPT ![s] = q]
             /\ q = NoReq \/ q = [req[s] EXCEPT !.ids = req[s].ids \ {n}]
  BY DEF PurgeInode
<1>4. last' = last /\ \A m \in Ids : inode'[m] = IF m \in Subtree(n) THEN Nil ELSE inode[m]
  BY DEF PurgeInode
<1>5. Emptying(s) = UNION {Subtree(m) : m \in req[s].ids}
  BY <1>1 DEF Emptying
<1>6. n \in Emptying(s) /\ Subtree(n) \subseteq Emptying(s)
  BY <1>2, <1>5, SubtreeIs
<1> QED
  BY <1>1, <1>2, <1>3, <1>4, <1>6
-----------------------------------------------------------------------------
(* A purge leaves no row without its directory.                            *)

Rooted(T) ==
    \A n \in Ids : T[n] # Nil /\ T[n].parent # 0 =>
        T[T[n].parent] # Nil /\ T[T[n].parent].kind = "dir"

(* The directory that an entry is added to has a row.                      *)
Sited(T, r) == AddingR(r) /\ r.dir # 0 => T[r.dir] # Nil /\ T[r.dir].kind = "dir"

Whole ==
    /\ Typed /\ Allowed
    /\ Rooted(inode)
    /\ \A s \in Sessions : Sited(inode, req[s])

LEMMA NotEmptied ==
    ASSUME Allowed, "empty" \notin Overlaps, NEW s \in Sessions, NEW t \in Sessions, s # t,
           AddingR(req[t])
    PROVE  req[t].dir \notin Emptying(s) /\ req[t].dir \notin Dead
  BY AddingIs DEF Allowed

LEMMA HasDirSited ==
    ASSUME NEW T, NEW r, NEW d, NEW q, HasDir(r, d, q), d # 0 => T[d] # Nil /\ T[d].kind = "dir"
    PROVE  Sited(T, q)
  BY DEF HasDir, Sited

LEMMA GoingsSited ==
    ASSUME NEW T, NEW r, NEW q, Goings(r, q)
    PROVE  Sited(T, q)
<1>1. CASE q = NoReq
  BY <1>1 DEF Sited, AddingR, NoReq
<1>2. CASE Len(r.path) = 1 /\ HasDir(r, 0, q)
  BY <1>2, HasDirSited
<1>3. CASE q.pc = "parent"
  BY <1>3 DEF Sited, AddingR
<1> QED
  BY <1>1, <1>2, <1>3 DEF Goings

LEMMA NoReqSited == \A T : Sited(T, NoReq)
  BY DEF Sited, AddingR, NoReq

LEMMA FoundSited ==
    ASSUME NEW r \in Request, NEW n \in Ids, inode \in Table, Exists(n), Shape(r), Sited(inode, r)
    PROVE  Sited(inode, Found(r, n))
<1> DEFINE q == Found(r, n)
<1>0. Len(r.path) > 0 \/ r.pc \notin {"target", "src"}
  BY DEF Shape, InStep
<1>1. HasFound(r, n, q)
  BY <1>0, FoundHas
<1> SUFFICES Sited(inode, q)
  OBVIOUS
<1> HIDE DEF q
<1>2. CASE q = NoReq
  BY <1>2, NoReqSited
<1>3. CASE r.pc = "parent" /\ inode[n].kind = "dir" /\ HasDir(r, n, q)
  BY <1>3, HasDirSited DEF Exists
<1>4. CASE \E p : Goings(p, q)
  BY <1>4, GoingsSited
<1>5. CASE r.pc = "victim" /\ q.op = r.op /\ q.pc \in {"count", "mark"}
  BY <1>5 DEF Sited, AddingR, Shape, InStep
<1>6. CASE r.pc = "dst" /\ q.dir = r.dir
  BY <1>6 DEF Sited, AddingR
<1> QED
  BY <1>1, <1>2, <1>3, <1>4, <1>5, <1>6 DEF HasFound

LEMMA MissedSited ==
    ASSUME NEW r \in Request, Shape(r), NEW T, Sited(T, r)
    PROVE  Sited(T, Missed(r))
<1> DEFINE q == Missed(r)
<1>0. Len(r.path) > 0 \/ r.pc # "open"
  BY DEF Shape, InStep
<1>1. HasMissed(r, q)
  BY <1>0, MissedHas
<1> SUFFICES Sited(T, q)
  OBVIOUS
<1> HIDE DEF q
<1>2. CASE q = NoReq
  BY <1>2, NoReqSited
<1>3. CASE Goings(r, q)
  BY <1>3, GoingsSited
<1>4. CASE r.pc \in {"probe", "dst"} /\ q.dir = r.dir
  BY <1>4 DEF Sited, AddingR
<1> QED
  BY <1>1, <1>2, <1>3, <1>4 DEF HasMissed

(* What the queries make of a request, whatever it is.                     *)
Queried(r, q) ==
    \/ q = NoReq
    \/ q = Missed(r)
    \/ \E n \in Ids : Exists(n) /\ q = Found(r, n)
    \/ /\ q.op = r.op /\ q.dir = r.dir
       /\ \/ q.pc = r.pc
          \/ r.pc = "count" /\ q.pc = (IF r.op = "remove" THEN "mark" ELSE "move")
          \/ r.pc = "climb" /\ q.pc = "dst"
          \/ r.pc = "conflict" /\ q.pc = "restore"
    \/ /\ q.pc = "conflict"
       /\ q.dir # 0 => Live(q.dir) /\ inode[q.dir].kind = "dir"

Query(s) ==
    \/ LookupStep(s) \/ FollowLink(s) \/ CountChildren(s) \/ Climb(s)
    \/ FindHome(s) \/ EnsureNoConflict(s) \/ FailRequest(s)

LEMMA QueryDoes ==
    ASSUME Typed, NEW s \in Sessions, Query(s)
    PROVE  \E q : Goes(s, q) /\ Queried(req[s], q)
<1> DEFINE r == req[s]
<1>0. inode \in Table /\ r \in Request /\ Shape(r)
  BY TypedFacts
<1>1. CASE LookupStep(s)
  <2>1. PICK q : Goes(s, q) /\ Ends(r, q)
    BY <1>1, LookupEnds
  <2>2. ASSUME NEW n \in Named(r.at, Head(r.rest))
        PROVE  n \in Ids /\ Exists(n)
    BY <2>2, Named_In
  <2> HIDE DEF r
  <2>3. ASSUME NEW n, \/ q = [r EXCEPT !.rest = Tail(r.rest), !.at = n]
                      \/ q = [r EXCEPT !.rest = <<>>, !.at = inode[n].link]
        PROVE  q.op = r.op /\ q.dir = r.dir /\ q.pc = r.pc
    BY <1>0, <2>3 DEF Request
  <2>4. Queried(r, q)
    BY <2>1, <2>2, <2>3 DEF Ends, Queried
  <2> QED
    BY <2>1, <2>4 DEF r
<1>2. CASE FollowLink(s)
  <2>1. r.pc \in Following /\ r.rest = <<>>
        /\ Goes(s, IF Exists(r.at) THEN Found(r, r.at) ELSE Missed(r))
    BY <1>2 DEF FollowLink
  <2>2. r.at \in Ids
    BY <1>0, <2>1, FollowShape
  <2> DEFINE q == IF Exists(r.at) THEN Found(r, r.at) ELSE Missed(r)
  <2>3. Queried(r, q)
    BY <2>2 DEF Queried
  <2> QED
    BY <2>1, <2>3
<1>3. CASE CountChildren(s)
  <2> DEFINE q == [r EXCEPT !.pc = IF r.op = "remove" THEN "mark" ELSE "move"]
  <2>1. r.pc = "count" /\ (Goes(s, NoReq) \/ Goes(s, q))
    BY <1>3 DEF CountChildren
  <2>2. Queried(r, q)
    BY <1>0, <2>1 DEF Request, Queried
  <2>3. Queried(r, NoReq)
    BY DEF Queried
  <2> QED
    BY <2>1, <2>2, <2>3
<1>4. CASE Climb(s)
  <2> DEFINE q1 == [r EXCEPT !.at = inode[r.at].parent]
             q2 == [r EXCEPT !.pc = "dst", !.rest = r.path, !.at = 0]
  <2>1. r.pc = "climb" /\ (Goes(s, NoReq) \/ Goes(s, q1) \/ Goes(s, q2))
    BY <1>4 DEF Climb
  <2>2. q1.op = r.op /\ q1.dir = r.dir /\ q1.pc = r.pc
    BY <1>0 DEF Request
  <2>3. q2.op = r.op /\ q2.dir = r.dir /\ q2.pc = "dst"
    BY <1>0 DEF Request
  <2> HIDE DEF q1, q2
  <2>4. Queried(r, q1) /\ Queried(r, q2) /\ Queried(r, NoReq)
    BY <2>1, <2>2, <2>3 DEF Queried
  <2> QED
    BY <2>1, <2>4
<1>5. CASE FindHome(s)
  <2> DEFINE d == IF Live(r.dir) /\ inode[r.dir].kind = "dir" THEN r.dir ELSE 0
             q == [r EXCEPT !.pc = "conflict", !.dir = d]
  <2>1. Goes(s, q)
    BY <1>5 DEF FindHome
  <2>2. q.pc = "conflict" /\ q.dir = d
    BY <1>0 DEF Request
  <2>3. d # 0 => Live(d) /\ inode[d].kind = "dir"
    OBVIOUS
  <2> HIDE DEF q, d
  <2>4. Queried(r, q)
    BY <2>2, <2>3 DEF Queried
  <2> QED
    BY <2>1, <2>4
<1>6. CASE EnsureNoConflict(s)
  <2> DEFINE q == [r EXCEPT !.pc = "restore"]
  <2>1. r.pc = "conflict" /\ (Goes(s, NoReq) \/ Goes(s, q))
    BY <1>6 DEF EnsureNoConflict
  <2>2. Queried(r, q)
    BY <1>0, <2>1 DEF Request, Queried
  <2>3. Queried(r, NoReq)
    BY DEF Queried
  <2> QED
    BY <2>1, <2>2, <2>3
<1>7. CASE FailRequest(s)
  BY <1>7 DEF FailRequest, Queried
<1> QED
  BY <1>1, <1>2, <1>3, <1>4, <1>5, <1>6, <1>7 DEF Query

LEMMA QueriedSited ==
    ASSUME NEW r \in Request, NEW q, inode \in Table, Shape(r), Sited(inode, r), Queried(r, q)
    PROVE  Sited(inode, q)
<1>1. CASE q = NoReq
  BY <1>1, NoReqSited
<1>2. CASE q = Missed(r)
  BY <1>2, MissedSited
<1>3. CASE \E n \in Ids : Exists(n) /\ q = Found(r, n)
  BY <1>3, FoundSited
<1>4. CASE /\ q.op = r.op /\ q.dir = r.dir
           /\ \/ q.pc = r.pc
              \/ r.pc = "count" /\ q.pc = (IF r.op = "remove" THEN "mark" ELSE "move")
              \/ r.pc = "climb" /\ q.pc = "dst"
              \/ r.pc = "conflict" /\ q.pc = "restore"
  BY <1>4 DEF Sited, AddingR, Shape, InStep
<1>5. CASE /\ q.pc = "conflict"
           /\ q.dir # 0 => Live(q.dir) /\ inode[q.dir].kind = "dir"
  BY <1>5 DEF Sited, Live, Exists
<1> QED
  BY <1>1, <1>2, <1>3, <1>4, <1>5 DEF Queried
LEMMA WholeInit == Init => Whole
<1> SUFFICES ASSUME Init
             PROVE  Whole
  OBVIOUS
<1>1. Typed /\ Allowed
  BY TypedInit, AllowedInit
<1>2. IsTree(inode)
  BY NamespaceAssumption DEF Init
<1>3. Rooted(inode)
  BY <1>2 DEF IsTree, Rooted
<1>4. \A s \in Sessions : req[s] = NoReq
  BY DEF Init
<1> QED
  BY <1>1, <1>3, <1>4, NoReqSited DEF Whole

(* Rows stay where they are, and only what s empties goes.                 *)
LEMMA OthersSited ==
    ASSUME Whole, "empty" \notin Overlaps, NEW s \in Sessions, NEW q, req' = [req EXCEPT ![s] = q],
           Sited(inode', q),
           \A m \in Ids : inode[m] # Nil =>
                m \in Emptying(s) \/ (inode'[m] # Nil /\ inode'[m].kind = inode[m].kind)
    PROVE  \A t \in Sessions : Sited(inode', req'[t])
<1> TAKE t \in Sessions
<1>1. Typed /\ Allowed
  BY DEF Whole
<1>2. CASE t = s
  <2>1. req'[t] = q
    BY <1>1, <1>2 DEF Typed, TypeOK
  <2> QED
    BY <2>1
<1>3. CASE t # s
  <2>1. req'[t] = req[t]
    BY <1>1 , <1>3 DEF Typed, TypeOK
  <2>2. ASSUME AddingR(req[t]), req[t].dir # 0
        PROVE  inode'[req[t].dir] # Nil /\ inode'[req[t].dir].kind = "dir"
    <3> DEFINE d == req[t].dir
    <3>1. inode[d] # Nil /\ inode[d].kind = "dir"
      BY <2>2 DEF Whole, Sited
    <3>2. d \in Ids
      BY <1>1, <2>2, TypedFacts, Numbers DEF Request
    <3>3. d \notin Emptying(s)
      BY <1>1, <1>3, <2>2, NotEmptied
    <3> QED
      BY <3>1, <3>2, <3>3
  <2> QED
    BY <2>1, <2>2 DEF Sited
<1> QED
  BY <1>2, <1>3

LEMMA WholeQuery ==
    ASSUME Whole, NEW s \in Sessions, Query(s)
    PROVE  Rooted(inode') /\ \A t \in Sessions : Sited(inode', req'[t])
<1>1. Typed
  BY DEF Whole
<1>2. PICK q : Goes(s, q) /\ Queried(req[s], q)
  BY <1>1, QueryDoes
<1>3. inode' = inode /\ req' = [req EXCEPT ![s] = q]
  BY <1>2 DEF Goes
<1>4. Sited(inode, req[s]) /\ Rooted(inode)
  BY DEF Whole
<1>5. Sited(inode, q)
  BY <1>1, <1>2, <1>4, TypedFacts, QueriedSited
<1>6. ASSUME NEW t \in Sessions
      PROVE  Sited(inode', req'[t])
  <2>1. req'[t] = IF t = s THEN q ELSE req[t]
    BY <1>1, <1>3 DEF Typed, TypeOK
  <2> QED
    BY <1>3, <1>5, <2>1 DEF Whole
<1> QED
  BY <1>3, <1>4, <1>6

LEMMA WholeStart ==
    ASSUME Whole, NEW s \in Sessions, Arrive(s)
    PROVE  Rooted(inode') /\ \A t \in Sessions : Sited(inode', req'[t])
<1>1. Typed /\ Rooted(inode)
  BY DEF Whole
<1>2. \E q : Start(s, q) /\ Sited(inode, q)
  <2>0. \A p \in Paths : p \in Seq(Names) /\ Len(p) > 0
    BY NamespaceAssumption
  <2>1. ASSUME NEW p \in Paths, Mkdir(s, p)
        PROVE  \E q : Start(s, q) /\ Sited(inode, q)
    <3> DEFINE r == [NoReq EXCEPT !.op = "mkdir", !.kind = "dir", !.path = p]
    <3>1. r \in Request /\ r.path = p
      BY <2>0, NoReqTyped DEF NoReq, Request, Kind
    <3>2. Start(s, ToParent(r))
      BY <2>1 DEF Mkdir
    <3> HIDE DEF r
    <3>3. Sited(inode, ToParent(r))
      BY <2>0, <3>1, ToParentGoes, GoingsSited
    <3> QED
      BY <3>2, <3>3
  <2>2. ASSUME NEW q, Start(s, q), q.pc \in {"open", "victim", "target", "src", "home", "purge"}
        PROVE  Sited(inode, q)
    BY <2>2 DEF Sited, AddingR
  <2>3. ASSUME NEW p \in Paths, Create(s, p) \/ Remove(s, p)
        PROVE  \E q : Start(s, q) /\ Sited(inode, q)
    <3> DEFINE r1 == [NoReq EXCEPT !.op = "create", !.kind = "file", !.path = p, !.pc = "open", !.rest = p]
               r2 == [NoReq EXCEPT !.op = "remove", !.path = p, !.pc = "victim", !.rest = p]
    <3>1. Start(s, r1) \/ Start(s, r2)
      BY <2>3 DEF Create, Remove
    <3>2. Sited(inode, r1) /\ Sited(inode, r2)
      BY DEF Sited, AddingR, NoReq
    <3> QED
      BY <3>1, <3>2
  <2>4. ASSUME NEW p \in Paths, NEW q \in Paths, Symlink(s, p, q) \/ Rename(s, p, q)
        PROVE  \E r : Start(s, r) /\ Sited(inode, r)
    <3> DEFINE r1 == [NoReq EXCEPT !.op = "symlink", !.kind = "link", !.path = q, !.pc = "target", !.rest = p]
               r2 == [NoReq EXCEPT !.op = "rename", !.path = q, !.pc = "src", !.rest = p]
    <3>1. Start(s, r1) \/ Start(s, r2)
      BY <2>4 DEF Symlink, Rename
    <3>2. Sited(inode, r1) /\ Sited(inode, r2)
      BY DEF Sited, AddingR, NoReq
    <3> QED
      BY <3>1, <3>2
  <2>5. ASSUME NEW n \in Dead, Restore(s, n)
        PROVE  \E q : Start(s, q) /\ Sited(inode, q)
    <3> DEFINE r == [NoReq EXCEPT !.op = "restore", !.node = n, !.dir = inode[n].parent,
                              !.path = <<inode[n].name>>,
                              !.pc = IF inode[n].parent = 0 THEN "conflict" ELSE "home"]
    <3>1. Start(s, r)
      BY <2>5 DEF Restore
    <3>2. Sited(inode, r)
      BY DEF Sited, AddingR, NoReq
    <3> QED
      BY <3>1, <3>2
  <2>6. ASSUME NEW N \in SUBSET Dead, Purge(s, N)
        PROVE  \E q : Start(s, q) /\ Sited(inode, q)
    <3> DEFINE r == [NoReq EXCEPT !.op = "purge", !.pc = "purge", !.ids = N]
    <3>1. Start(s, r)
      BY <2>6 DEF Purge
    <3>2. Sited(inode, r)
      BY DEF Sited, AddingR, NoReq
    <3> QED
      BY <3>1, <3>2
  <2> QED
    BY <2>1, <2>3, <2>4, <2>5, <2>6 DEF Arrive
<1>3. PICK q : Start(s, q) /\ Sited(inode, q)
  BY <1>2
<1>4. inode' = inode /\ req' = [req EXCEPT ![s] = q]
  BY <1>3 DEF Start
<1>6. ASSUME NEW t \in Sessions
      PROVE  Sited(inode', req'[t])
  <2>1. req'[t] = IF t = s THEN q ELSE req[t]
    BY <1>1, <1>4 DEF Typed, TypeOK
  <2> QED
    BY <1>3, <1>4, <2>1 DEF Whole
<1> QED
  BY <1>1, <1>4, <1>6

(* Rows stay where they are, but for row n, which is now in d.             *)
PutsInto(U, n, d) ==
    /\ \A m \in Ids : inode[m] # Nil => U[m] # Nil /\ U[m].kind = inode[m].kind
    /\ \A m \in Ids : U[m] # Nil =>
            \/ m = n /\ (U[m].parent = 0 \/ (U[m].parent = d /\ d \in Ids))
            \/ inode[m] # Nil /\ U[m].parent = inode[m].parent

LEMMA RowsRooted ==
    ASSUME Typed, NEW U, Rooted(inode), NEW k, NEW d,
           d \in Ids => inode[d] # Nil /\ inode[d].kind = "dir",
           PutsInto(U, k, d)
    PROVE  Rooted(U)
<1> SUFFICES ASSUME NEW n \in Ids, U[n] # Nil, U[n].parent # 0
             PROVE  U[U[n].parent] # Nil /\ U[U[n].parent].kind = "dir"
  BY DEF Rooted
<1>1. CASE U[n].parent = d /\ d \in Ids
  BY <1>1 DEF PutsInto
<1>2. CASE inode[n] # Nil /\ U[n].parent = inode[n].parent
  <2>1. inode[n] \in Row
    BY <1>2, RowOrNone DEF Typed, TypeOK, Table
  <2>2. U[n].parent \in 0..MaxInode
    BY <1>2, <2>1 DEF Row
  <2>3. U[n].parent \in Ids
    BY <2>2, Numbers
  <2>4. inode[U[n].parent] # Nil /\ inode[U[n].parent].kind = "dir"
    BY <1>2 DEF Rooted
  <2> QED
    BY <2>3, <2>4 DEF PutsInto
<1> QED
  BY <1>1, <1>2 DEF PutsInto

LEMMA WholeChange ==
    ASSUME Whole, "empty" \notin Overlaps, NEW s \in Sessions,
           Insert(s) \/ MarkDeleted(s) \/ MoveEntry(s) \/ Undelete(s)
             \/ \E n \in req[s].ids : PurgeInode(s, n)
    PROVE  Rooted(inode') /\ \A t \in Sessions : Sited(inode', req'[t])
<1> DEFINE r == req[s]
<1>1. Typed /\ Rooted(inode) /\ Sited(inode, r) /\ Sited(inode', NoReq)
  BY NoReqSited DEF Whole
<1>2. inode \in Table /\ r \in Request /\ Shape(r) /\ Table = [Ids -> Row \cup {Nil}]
  BY <1>1, TypedFacts DEF Table
<1>3. r.dir \in 0..MaxInode /\ (r.dir # 0 <=> r.dir \in Ids)
  BY <1>2, Numbers DEF Request
<1>4. CASE inode' = inode /\ req' = [req EXCEPT ![s] = NoReq]
  <2>1. \A m \in Ids : inode[m] # Nil => inode'[m] # Nil /\ inode'[m].kind = inode[m].kind
    BY <1>4
  <2>2. \A t \in Sessions : Sited(inode', req'[t])
    BY <1>1, <1>4, <2>1, OthersSited
  <2> QED
    BY <1>1, <1>4, <2>2
<1>5. CASE Insert(s) /\ inode' # inode
  <2> DEFINE n == last + 1
  <2>1. /\ req' = [req EXCEPT ![s] = NoReq] /\ r.pc = "insert" /\ inode[n] = Nil
        /\ inode'[n].parent = r.dir /\ \A m \in Ids : m # n => inode'[m] = inode[m]
    BY <1>1, <1>5, InsertDoes
  <2> HIDE DEF n
  <2>2. \A m \in Ids : inode[m] # Nil => inode'[m] # Nil /\ inode'[m].kind = inode[m].kind
    BY <2>1
  <2>3. AddingR(r)
    BY <2>1 DEF AddingR
  <2>4. r.dir \in Ids => inode[r.dir] # Nil /\ inode[r.dir].kind = "dir"
    BY <1>1, <1>3, <2>3 DEF Sited
  <2>5. Rooted(inode')
    <3>1. PutsInto(inode', n, r.dir)
      BY <1>3, <2>1, <2>2 DEF PutsInto
    <3> QED
      BY <1>1, <2>4, <3>1, RowsRooted
  <2> QED
    BY <1>1, <2>1, <2>2, <2>5, OthersSited
<1>6. CASE MarkDeleted(s)
  <2> DEFINE n == r.node
  <2>1. /\ req' = [req EXCEPT ![s] = NoReq] /\ n \in Ids
        /\ inode'[n] # Nil <=> inode[n] # Nil
        /\ inode[n] # Nil => inode'[n].kind = inode[n].kind /\ inode'[n].parent = inode[n].parent
        /\ \A m \in Ids : m # n => inode'[m] = inode[m]
    BY <1>1, <1>6, MarkDeletedDoes
  <2> HIDE DEF n
  <2>2. \A m \in Ids : inode[m] # Nil => inode'[m] # Nil /\ inode'[m].kind = inode[m].kind
    BY <2>1
  <2>3. \A m \in Ids : inode'[m] # Nil => inode[m] # Nil /\ inode'[m].parent = inode[m].parent
    BY <2>1
  <2>4. Rooted(inode')
    <3>1. PutsInto(inode', n, 0) /\ 0 \notin Ids
      BY <2>2, <2>3, Numbers DEF PutsInto
    <3> QED
      BY <1>1, <3>1, RowsRooted
  <2> QED
    BY <1>1, <2>1, <2>2, <2>4, OthersSited
<1>7. CASE MoveEntry(s) /\ inode' # inode
  <2> DEFINE n == r.node
             x == r.dst
  <2>0. 0 \notin Ids /\ \A m \in Ids : m # 0
    BY Numbers
  <2>1. /\ req' = [req EXCEPT ![s] = NoReq] /\ r.pc = "move"
        /\ \A m \in Ids : inode'[m] # Nil <=> inode[m] # Nil
        /\ inode[n] # Nil => inode'[n].kind = inode[n].kind /\ inode'[n].parent = r.dir
        /\ x # 0 /\ x # n /\ inode[x] # Nil =>
                inode'[x].kind = inode[x].kind /\ inode'[x].parent = inode[x].parent
        /\ \A m \in Ids \ {n, x} : inode'[m] = inode[m]
    BY <1>1, <1>7, MoveEntryDoes
  <2> HIDE DEF n, x
  <2>2. \A m \in Ids : inode[m] # Nil => inode'[m] # Nil /\ inode'[m].kind = inode[m].kind
    BY <2>0, <2>1
  <2>3. AddingR(r)
    BY <2>1 DEF AddingR
  <2>4. r.dir \in Ids => inode[r.dir] # Nil /\ inode[r.dir].kind = "dir"
    BY <1>1, <1>3, <2>3 DEF Sited
  <2>5. Rooted(inode')
    <3>1. PutsInto(inode', n, r.dir)
      BY <1>3, <2>0, <2>1, <2>2 DEF PutsInto
    <3> QED
      BY <1>1, <2>4, <3>1, RowsRooted
  <2> QED
    BY <1>1, <2>1, <2>2, <2>5, OthersSited
<1>8. CASE Undelete(s) /\ inode' # inode
  <2> DEFINE n == r.node
  <2>1. /\ req' = [req EXCEPT ![s] = NoReq] /\ r.pc = "restore" /\ inode[n] # Nil
        /\ inode'[n] # Nil /\ inode'[n].kind = inode[n].kind
        /\ inode'[n].parent = r.dir /\ \A m \in Ids : m # n => inode'[m] = inode[m]
    BY <1>1, <1>8, UndeleteDoes
  <2> HIDE DEF n
  <2>2. \A m \in Ids : inode[m] # Nil => inode'[m] # Nil /\ inode'[m].kind = inode[m].kind
    BY <2>1
  <2>3. AddingR(r)
    BY <2>1 DEF AddingR
  <2>4. r.dir \in Ids => inode[r.dir] # Nil /\ inode[r.dir].kind = "dir"
    BY <1>1, <1>3, <2>3 DEF Sited
  <2>5. Rooted(inode')
    <3>1. PutsInto(inode', n, r.dir)
      BY <1>3, <2>1, <2>2 DEF PutsInto
    <3> QED
      BY <1>1, <2>4, <3>1, RowsRooted
  <2> QED
    BY <1>1, <2>1, <2>2, <2>5, OthersSited
<1>9. ASSUME NEW n \in r.ids, PurgeInode(s, n)
      PROVE  Rooted(inode') /\ \A t \in Sessions : Sited(inode', req'[t])
  <2>1. /\ n \in Ids /\ r.pc = "purge" /\ Subtree(n) \subseteq Emptying(s)
        /\ \A m \in Ids : inode'[m] = IF m \in Subtree(n) THEN Nil ELSE inode[m]
    BY <1>1, <1>9, PurgeInodeDoes
  <2>2. PICK q : /\ req' = [req EXCEPT ![s] = q]
                 /\ q = NoReq \/ q = [r EXCEPT !.ids = r.ids \ {n}]
    BY <1>1, <1>9, PurgeInodeDoes
  <2>3. Sited(inode', q)
    <3>1. CASE q = NoReq
      BY <3>1, NoReqSited
    <3>2. CASE q = [r EXCEPT !.ids = r.ids \ {n}]
      <4>1. q.pc = "purge" /\ q.op = r.op /\ r.op = "purge"
        BY <1>2, <2>1, <3>2 DEF Request, Shape, InStep
      <4> QED
        BY <4>1 DEF Sited, AddingR
    <3> QED
      BY <2>2, <3>1, <3>2
  <2>4. \A m \in Ids : inode[m] # Nil =>
            m \in Emptying(s) \/ (inode'[m] # Nil /\ inode'[m].kind = inode[m].kind)
    BY <2>1
  <2>5. \A m \in Ids : inode[m] # Nil /\ inode[m].parent \in Subtree(n) => m \in Subtree(n)
    BY <2>1, SubtreeIs DEF Exists
  <2>6. Rooted(inode')
    <3> SUFFICES ASSUME NEW m \in Ids, inode'[m] # Nil, inode'[m].parent # 0
                 PROVE  inode'[inode'[m].parent] # Nil /\ inode'[inode'[m].parent].kind = "dir"
      BY DEF Rooted
    <3>1. m \notin Subtree(n) /\ inode[m] # Nil /\ inode'[m] = inode[m]
      BY <2>1
    <3>2. inode[m].parent \in 0..MaxInode /\ inode[m].parent # 0
      BY <1>2, <3>1, RowOrNone DEF Row
    <3>3. inode[m].parent \in Ids /\ inode[m].parent \notin Subtree(n)
      BY <2>5, <3>1, <3>2, Numbers
    <3>4. inode[inode[m].parent] # Nil /\ inode[inode[m].parent].kind = "dir"
      BY <1>1, <3>1, <3>2 DEF Rooted
    <3> QED
      BY <2>1, <3>1, <3>3, <3>4
  <2> QED
    BY <2>2, <2>3, <2>4, <2>6, OthersSited
<1>10. Insert(s) => req' = [req EXCEPT ![s] = NoReq]
  BY DEF Insert
<1>11. MoveEntry(s) => req' = [req EXCEPT ![s] = NoReq]
  BY DEF MoveEntry
<1>12. Undelete(s) => req' = [req EXCEPT ![s] = NoReq]
  BY DEF Undelete
<1> QED
  BY <1>4, <1>5, <1>6, <1>7, <1>8, <1>9, <1>10, <1>11, <1>12

LEMMA WholeNext ==
    ASSUME Whole, "empty" \notin Overlaps, [Next]_vars
    PROVE  Whole'
<1>1. Typed' /\ Allowed'
  BY TypedNext, AllowedNext DEF Whole
<1>2. Rooted(inode') /\ \A t \in Sessions : Sited(inode', req'[t])
  <2>1. CASE UNCHANGED vars
    BY <2>1 DEF vars, Whole
  <2>2. ASSUME NEW s \in Sessions, Arrive(s)
        PROVE  Rooted(inode') /\ \A t \in Sessions : Sited(inode', req'[t])
    BY <2>2, WholeStart
  <2>3. ASSUME NEW s \in Sessions, Continue(s)
        PROVE  Rooted(inode') /\ \A t \in Sessions : Sited(inode', req'[t])
    <3>1. Query(s) \/ Insert(s) \/ MarkDeleted(s) \/ MoveEntry(s) \/ Undelete(s)
             \/ \E n \in req[s].ids : PurgeInode(s, n)
      BY <2>3 DEF Continue, Query
    <3> QED
      BY <3>1, WholeQuery, WholeChange
  <2> QED
    BY <2>1, <2>2, <2>3 DEF Next
<1> QED
  BY <1>1, <1>2 DEF Whole

(* collectSubtree and purgeInode (recycle.go) leave no row behind whose    *)
(* directory has gone, as long as no entry is added to a directory while   *)
(* it is being deleted.                                                    *)
THEOREM SubtreesPurgedWhole ==
    ASSUME "empty" \notin Overlaps
    PROVE  Spec => []PurgesWholeSubtrees
<1>1. Init => Whole
  BY WholeInit
<1>2. Whole /\ [Next]_vars => Whole'
  BY WholeNext
<1>3. Whole => PurgesWholeSubtrees
  BY DEF Whole, Rooted, PurgesWholeSubtrees, Exists
<1> QED
  BY <1>1, <1>2, <1>3, PTL DEF Spec
-----------------------------------------------------------------------------
(* The tree, when the races that Allowed names are left out.               *)

Raceless ==
    /\ "name" \notin Overlaps /\ "move" \notin Overlaps /\ "entry" \notin Overlaps
    /\ "empty" \notin Overlaps /\ "link" \notin Overlaps /\ "path" \notin Overlaps

LiveIn(T, n)      == n \in Ids /\ T[n] # Nil /\ T[n].live
DirIn(T, d)       == d = 0 \/ (LiveIn(T, d) /\ T[d].kind = "dir")
KidsIn(T, d)      == {n \in Ids : LiveIn(T, n) /\ T[n].parent = d}
NamedIn(T, d, a)  == {n \in KidsIn(T, d) : T[n].name = a}

(* The parts of IsTree that Typed and Rooted leave out.                    *)
LiveBelowLive(T)  == \A n \in Ids : LiveIn(T, n) /\ T[n].parent # 0 => LiveIn(T, T[n].parent)
NamesDiffer(T)    ==
    \A n, m \in Ids :
        LiveIn(T, n) /\ LiveIn(T, m) /\ T[n].parent = T[m].parent /\ T[n].name = T[m].name => n = m
ParentsIn(T, S)   == \A n \in S : LiveIn(T, n) /\ T[n].parent \in S
NoCycle(T)        == \A S \in SUBSET Ids : ParentsIn(T, S) => S = {}
Tidy(T)           == LiveBelowLive(T) /\ NamesDiffer(T) /\ NoCycle(T)

(* isDescendant has gone up from the new directory of r by the rows in V,  *)
(* without meeting the directory that moves, and is at top.                *)
Top(r) == IF r.pc = "climb" THEN {r.at} ELSE {}
Chain(T, r, V) ==
    /\ V \in SUBSET Ids
    /\ r.dir \in V \cup Top(r)
    /\ r.node \notin V \cup Top(r)
    /\ \A m \in V \cup Top(r) : /\ LiveIn(T, m) /\ T[m].kind = "dir"
                                /\ m # r.dir => \E k \in V : T[k].parent = m
    /\ \A m \in V : T[m].parent \in V \cup Top(r) \cup {0}

(* What a request has found out still holds of the table T.                *)
HoldsNode(T, r) ==
    /\ r.op \in {"rename", "remove"} /\ r.node # 0 => LiveIn(T, r.node)
    /\ r.op = "rename" /\ r.node # 0 => T[r.node].kind = r.kind
    /\ r.op = "restore" => /\ T[r.node] # Nil /\ ~T[r.node].live
                           /\ T[r.node].name = BaseName(r.path)
                           /\ r.dir \in {0, T[r.node].parent}
HoldsDst(T, r) ==
    r.dst # 0 => /\ LiveIn(T, r.dst) /\ r.dst # r.node
                 /\ T[r.dst].parent = r.dir /\ T[r.dst].name = BaseName(r.path)
                 /\ (T[r.dst].kind = "dir") = (r.kind = "dir")
HoldsKids(T, r) ==
    /\ r.pc = "mark" => KidsIn(T, r.node) = {}
    /\ r.pc = "move" /\ r.dst # 0 => KidsIn(T, r.dst) = {}
HoldsName(T, r) ==
    /\ r.pc \in {"insert", "restore"} /\ r.dir = 0 => NamedIn(T, 0, BaseName(r.path)) = {}
    /\ r.op = "rename" /\ r.pc \in {"count", "move"} /\ r.dir = 0 =>
            NamedIn(T, 0, BaseName(r.path)) \subseteq {r.dst}
HoldsTrash(T, r) == \A n \in r.ids : ~LiveIn(T, n)
HoldsChain(T, r) ==
    r.op = "rename" /\ AddingR(r) /\ r.kind = "dir" /\ r.dir # 0 => \E V : Chain(T, r, V)
Holds(T, r) ==
    /\ HoldsNode(T, r) /\ HoldsDst(T, r) /\ HoldsKids(T, r)
    /\ HoldsName(T, r) /\ HoldsTrash(T, r) /\ HoldsChain(T, r)

(* The end of the path is still to be looked up; a purge is of rows there  *)
(* have been.                                                              *)
Suffix(r) == r.pc = "dst" /\ Len(r.rest) > 0 => BaseName(r.rest) = BaseName(r.path)
Known(r, l) == \A n \in r.ids : r.op = "purge" /\ n <= l

Sound ==
    /\ Whole
    /\ Tidy(inode)
    /\ \A s \in Sessions : Holds(inode, req[s]) /\ Suffix(req[s]) /\ Known(req[s], last)

LEMMA InNow ==
    /\ \A n \in Ids : LiveIn(inode, n) <=> Live(n)
    /\ \A d : KidsIn(inode, d) = Kids(d)
    /\ \A d, a : NamedIn(inode, d, a) = Named(d, a)
  BY DEF LiveIn, Live, Exists, KidsIn, Kids, NamedIn, Named

LEMMA TreeTidy ==
    ASSUME NEW T, IsTree(T)
    PROVE  Tidy(T)
<1> DEFINE rows == {n \in Ids : T[n] # Nil}
           live == {n \in rows : T[n].live}
<1>1. \A n : n \in live <=> LiveIn(T, n)
  BY DEF LiveIn
<1>2. /\ \A n \in live : T[n].parent # 0 => T[n].parent \in live
      /\ \A n, m \in live : T[n].parent = T[m].parent /\ T[n].name = T[m].name => n = m
      /\ \A S \in SUBSET live : (\A n \in S : T[n].parent \in S) => S = {}
  BY DEF IsTree
<1> HIDE DEF live
<1>3. LiveBelowLive(T)
  BY <1>1, <1>2 DEF LiveBelowLive
<1>5. NamesDiffer(T)
  BY <1>1, <1>2 DEF NamesDiffer
<1>4. ASSUME NEW S \in SUBSET Ids, ParentsIn(T, S)
      PROVE  S = {}
  <2>1. S \in SUBSET live /\ \A n \in S : T[n].parent \in S
    BY <1>1, <1>4 DEF ParentsIn
  <2> QED
    BY <1>2, <2>1
<1> QED
  BY <1>3, <1>4, <1>5 DEF Tidy, NoCycle

LEMMA NoReqHolds == \A T, l : Holds(T, NoReq) /\ Suffix(NoReq) /\ Known(NoReq, l)
  BY DEF NoReq, Holds, HoldsNode, HoldsDst, HoldsKids, HoldsName, HoldsTrash, HoldsChain,
         AddingR, Suffix, Known

LEMMA SoundInit == Init => Sound
<1> SUFFICES ASSUME Init
             PROVE  Sound
  OBVIOUS
<1>1. Whole
  BY WholeInit
<1>2. IsTree(inode)
  BY NamespaceAssumption DEF Init
<1>3. \A s \in Sessions : req[s] = NoReq
  BY DEF Init
<1> QED
  BY <1>1, <1>2, <1>3, TreeTidy, NoReqHolds DEF Sound

LEMMA SoundFacts ==
    ASSUME Sound, NEW s \in Sessions
    PROVE  /\ Whole /\ Typed /\ Allowed /\ Rooted(inode) /\ Tidy(inode) /\ inode \in Table
           /\ req[s] \in Request /\ Shape(req[s]) /\ Sited(inode, req[s])
           /\ Holds(inode, req[s]) /\ Suffix(req[s]) /\ Known(req[s], last)
  BY TypedFacts DEF Sound, Whole

(* Directories that entries are added to are live.                         *)
LEMMA DirLive ==
    ASSUME Whole, "empty" \notin Overlaps, NEW s \in Sessions, AddingR(req[s])
    PROVE  DirIn(inode, req[s].dir)
<1>1. Allowed /\ Sited(inode, req[s]) /\ req[s] \in Request
  BY TypedFacts DEF Whole
<1>2. req[s].dir \notin Dead
  BY <1>1, AddingIs DEF Allowed
<1>3. req[s].dir # 0 => req[s].dir \in Ids /\ inode[req[s].dir] # Nil /\ inode[req[s].dir].kind = "dir"
  BY <1>1, Numbers DEF Sited, Request
<1> QED
  BY <1>2, <1>3 DEF DirIn, LiveIn, Dead, Exists

(* Only a directory has entries.                                           *)
LEMMA FilesHaveNoKids ==
    ASSUME Rooted(inode), NEW n, n # 0, inode[n].kind # "dir"
    PROVE  KidsIn(inode, n) = {} /\ \A m \in Ids : LiveIn(inode, m) => inode[m].parent # n
  BY DEF KidsIn, LiveIn, Rooted
-----------------------------------------------------------------------------
(* Queries: what a request finds out is so when it finds it out.           *)

(* What Allowed says of a request that a query leaves behind.              *)
Permits(q) ==
    /\ q.dst \in Ids /\ inode[q.dst] # Nil => inode[q.dst].parent = q.dir
    /\ q.op = "create" /\ AddingR(q) /\ q.dir = 0 => NamedIn(inode, 0, BaseName(q.path)) = {}
    /\ AddingR(q) => DirIn(inode, q.dir)

LEMMA Permitted ==
    ASSUME Typed', Allowed', Raceless, NEW s \in Sessions, NEW q, req'[s] = q, inode' = inode,
           Sited(inode, q)
    PROVE  Permits(q)
<1>1. Adding(s)' <=> AddingR(q)
  BY DEF Adding, AddingR
<1>2. ~(Adding(s)' /\ req'[s].dir \in Dead') /\ ~AtDanglingLink(s)' /\ ~Astray(s)'
  BY DEF Allowed, Raceless
<1>3. q.dir \notin Dead \/ ~AddingR(q)
  BY <1>1, <1>2 DEF Dead, Exists
<1>4. q.dst \in Ids /\ inode[q.dst] # Nil => inode[q.dst].parent = q.dir
  BY <1>2 DEF Astray, Exists
<1>5. q.op = "create" /\ AddingR(q) /\ q.dir = 0 => NamedIn(inode, 0, BaseName(q.path)) = {}
  BY <1>1, <1>2 DEF AtDanglingLink, NamedIn, KidsIn, LiveIn, Named, Kids, Live, Exists
<1>6. q.dir \in 0..MaxInode
  BY DEF Typed, TypeOK, Request
<1>7. AddingR(q) => DirIn(inode, q.dir)
  <2> SUFFICES ASSUME AddingR(q), q.dir # 0
               PROVE  DirIn(inode, q.dir)
    BY DEF DirIn
  <2>1. q.dir \in Ids /\ inode[q.dir] # Nil /\ inode[q.dir].kind = "dir"
    BY <1>6, Numbers DEF Sited
  <2> QED
    BY <1>3, <2>1 DEF DirIn, LiveIn, Dead, Exists
<1> QED
  BY <1>4, <1>5, <1>7 DEF Permits

LEMMA HasDirHolds ==
    ASSUME NEW r, NEW d, NEW q, NEW l, HasDir(r, d, q), Ready(r), Permits(q),
           HoldsNode(inode, r), HoldsTrash(inode, r), Known(r, l)
    PROVE  Holds(inode, q) /\ Suffix(q) /\ Known(q, l)
<1>1. SameTask(q, r) /\ q.dir = d /\ q.pc \in {"insert", "climb", "dst", "probe"}
  BY DEF HasDir
<1>2. q.dst = 0 /\ q.op \in {"mkdir", "create", "symlink", "rename"}
  BY <1>1 DEF SameTask, Ready
<1>3. HoldsNode(inode, q)
  BY <1>1, <1>2 DEF SameTask, HoldsNode
<1>4. HoldsDst(inode, q) /\ HoldsKids(inode, q)
  BY <1>1, <1>2 DEF HoldsDst, HoldsKids
<1>5. HoldsName(inode, q)
  BY <1>1, <1>2 DEF HoldsName, Permits, HasDir, AddingR, SameTask
<1>6. HoldsTrash(inode, q) /\ Known(q, l)
  BY <1>1 DEF SameTask, HoldsTrash, Known
<1>7. HoldsChain(inode, q)
  <2> SUFFICES ASSUME q.op = "rename", AddingR(q), q.kind = "dir", q.dir # 0
               PROVE  Chain(inode, q, {})
    BY DEF HoldsChain
  <2>1. q.pc = "climb" /\ q.at = d /\ d # q.node
    BY <1>1 DEF HasDir, SameTask
  <2>2. LiveIn(inode, d) /\ inode[d].kind = "dir"
    BY <1>1 DEF Permits, DirIn
  <2> QED
    BY <1>1, <2>1, <2>2 DEF Chain, Top
<1>8. Suffix(q)
  BY <1>1 DEF Suffix, HasDir, SameTask
<1> QED
  BY <1>3, <1>4, <1>5, <1>6, <1>7, <1>8 DEF Holds

LEMMA GoingsHolds ==
    ASSUME NEW r, NEW q, NEW l, Goings(r, q), Ready(r), Permits(q),
           HoldsNode(inode, r), HoldsTrash(inode, r), Known(r, l)
    PROVE  Holds(inode, q) /\ Suffix(q) /\ Known(q, l)
<1>1. CASE q = NoReq
  BY <1>1, NoReqHolds
<1>2. CASE HasDir(r, 0, q)
  BY <1>2, HasDirHolds
<1>3. CASE SameTask(q, r) /\ q.pc = "parent"
  <2>1. q.dst = 0 /\ q.op \in {"mkdir", "create", "symlink", "rename"}
    BY <1>3 DEF SameTask, Ready
  <2>2. HoldsNode(inode, q)
    BY <1>3, <2>1 DEF SameTask, HoldsNode
  <2>3. HoldsTrash(inode, q) /\ Known(q, l) /\ Suffix(q)
    BY <1>3 DEF SameTask, HoldsTrash, Known, Suffix
  <2> QED
    BY <1>3, <2>1, <2>2, <2>3 DEF Holds, HoldsDst, HoldsKids, HoldsName, HoldsChain, AddingR
<1> QED
  BY <1>1, <1>2, <1>3 DEF Goings

(* The request goes on to walk, or is about the next thing.                *)
LEMMA SameHolds ==
    ASSUME NEW r, NEW q, NEW T, NEW l, SameTask(q, r), q.pc = r.pc, q.dir = r.dir, r.pc # "climb",
           Holds(T, r), Known(r, l)
    PROVE  Holds(T, q) /\ Known(q, l)
<1>1. AddingR(q) <=> AddingR(r)
  BY DEF AddingR, SameTask
<1>2. HoldsChain(T, q)
  BY <1>1 DEF Holds, HoldsChain, Chain, Top, SameTask
<1>3. HoldsNode(T, q) /\ HoldsDst(T, q)
  BY DEF Holds, HoldsNode, HoldsDst, SameTask
<1>4. HoldsKids(T, q) /\ HoldsName(T, q)
  BY DEF Holds, HoldsKids, HoldsName, SameTask
<1>5. HoldsTrash(T, q) /\ Known(q, l)
  BY DEF Holds, HoldsTrash, Known, SameTask
<1> QED
  BY <1>2, <1>3, <1>4, <1>5 DEF Holds

(* What the end of a walk says about the row n.                            *)
Ended(r, n) ==
    /\ r.pc \in {"src", "victim", "dst"} => LiveIn(inode, n)
    /\ r.pc = "dst" => inode[n].name = BaseName(r.path)
    /\ r.pc = "dst" /\ r.dir = 0 => NamedIn(inode, 0, BaseName(r.path)) \subseteq {n}

LEMMA FoundHolds ==
    ASSUME NEW r \in Request, NEW n \in Ids, NEW l, inode \in Table, Rooted(inode), Exists(n), Shape(r),
           Holds(inode, r), Suffix(r), Known(r, l), Ended(r, n), Permits(Found(r, n))
    PROVE  Holds(inode, Found(r, n)) /\ Suffix(Found(r, n)) /\ Known(Found(r, n), l)
<1> DEFINE q == Found(r, n)
<1>0. Len(r.path) > 0 \/ r.pc \notin {"target", "src"}
  BY DEF Shape, InStep
<1>1. HasFound(r, n, q) /\ Permits(q)
  BY <1>0, FoundHas
<1>2. n # 0 /\ n \in 0..MaxInode /\ inode[n].kind \in Kind
  BY Numbers, RowOrNone DEF Exists, Row
<1>9. HoldsNode(inode, r) /\ HoldsTrash(inode, r)
  BY DEF Holds
<1> SUFFICES Holds(inode, q) /\ Suffix(q) /\ Known(q, l)
  OBVIOUS
<1> HIDE DEF q
<1>3. CASE q = NoReq
  BY <1>3, NoReqHolds
<1>4. CASE r.pc = "parent" /\ HasDir(r, n, q)
  <2>1. Ready(r)
    BY <1>4 DEF Shape
  <2> QED
    BY <1>1, <1>4, <1>9, <2>1, HasDirHolds
<1>5. CASE r.pc = "target" /\ Goings([r EXCEPT !.link = n], q)
  <2> DEFINE p == [r EXCEPT !.link = n]
  <2>1. /\ p \in Request /\ p.op = r.op /\ p.kind = r.kind /\ p.link = n /\ p.ids = r.ids
        /\ p.path = r.path /\ p.node = r.node /\ p.dst = r.dst /\ p.dir = r.dir
    BY <1>2 DEF Request
  <2> HIDE DEF p
  <2>2. Ready(p)
    BY <1>2, <1>5, <2>1 DEF Shape, InStep, Ready
  <2>3. Goings(p, q)
    BY <1>5 DEF p
  <2>4. HoldsNode(inode, p) /\ HoldsTrash(inode, p) /\ Known(p, l)
    BY <1>9, <2>1 DEF HoldsNode, HoldsTrash, Known
  <2> QED
    BY <1>1, <2>2, <2>3, <2>4, GoingsHolds
<1>6. CASE /\ r.pc = "victim"
           /\ q \in Request /\ q.pc = (IF inode[n].kind = "dir" THEN "count" ELSE "mark")
           /\ q.op = r.op /\ q.path = r.path /\ q.kind = r.kind /\ q.node = n
           /\ q.dst = r.dst /\ q.dir = r.dir /\ q.ids = r.ids
  <2>1. r.op = "remove" /\ r.dst = 0
    BY <1>6 DEF Shape, InStep
  <2>2. LiveIn(inode, n)
    BY <1>6 DEF Ended
  <2>3. HoldsNode(inode, q)
    BY <1>6, <2>1, <2>2 DEF HoldsNode
  <2>4. q.pc = "mark" => KidsIn(inode, n) = {}
    BY <1>2, <1>6, FilesHaveNoKids
  <2>5. HoldsKids(inode, q)
    BY <1>6, <2>1, <2>4 DEF HoldsKids
  <2>6. HoldsTrash(inode, q) /\ Known(q, l) /\ Suffix(q)
    BY <1>6, <1>9 DEF HoldsTrash, Known, Suffix
  <2> QED
    BY <1>6, <2>1, <2>3, <2>5, <2>6 DEF Holds, HoldsDst, HoldsName, HoldsChain
<1>7. CASE r.pc = "src" /\ Goings([r EXCEPT !.node = n, !.kind = inode[n].kind], q)
  <2> DEFINE p == [r EXCEPT !.node = n, !.kind = inode[n].kind]
  <2>1. /\ p \in Request /\ p.op = r.op /\ p.node = n /\ p.kind = inode[n].kind /\ p.ids = r.ids
        /\ p.path = r.path /\ p.dst = r.dst /\ p.dir = r.dir
    BY <1>2 DEF Request
  <2> HIDE DEF p
  <2>2. Ready(p) /\ r.op = "rename"
    BY <1>2, <1>7, <2>1 DEF Shape, InStep, Ready
  <2>3. Goings(p, q)
    BY <1>7 DEF p
  <2>4. HoldsNode(inode, p)
    BY <1>7, <2>1, <2>2 DEF HoldsNode, Ended
  <2>5. HoldsTrash(inode, p) /\ Known(p, l)
    BY <1>9, <2>1 DEF HoldsTrash, Known
  <2> QED
    BY <1>1, <2>2, <2>3, <2>4, <2>5, GoingsHolds
<1>8. CASE /\ r.pc = "dst" /\ n # r.node /\ (inode[n].kind = "dir") = (r.kind = "dir")
           /\ q \in Request /\ q.pc = (IF inode[n].kind = "dir" THEN "count" ELSE "move")
           /\ q.op = r.op /\ q.path = r.path /\ q.kind = r.kind /\ q.node = r.node
           /\ q.dst = n /\ q.dir = r.dir /\ q.ids = r.ids
  <2>1. r.op = "rename" /\ LiveIn(inode, n) /\ inode[n].name = BaseName(r.path)
    BY <1>8 DEF Shape, InStep, Ended
  <2>2. HoldsNode(inode, q)
    BY <1>8, <1>9, <2>1 DEF HoldsNode
  <2>3. HoldsDst(inode, q)
    BY <1>1, <1>8, <2>1 DEF HoldsDst, Permits, Exists
  <2>4. q.pc = "move" => KidsIn(inode, n) = {}
    BY <1>2, <1>8, FilesHaveNoKids
  <2>5. HoldsKids(inode, q)
    BY <1>8, <2>4 DEF HoldsKids
  <2>6. HoldsTrash(inode, q) /\ Known(q, l) /\ Suffix(q)
    BY <1>8, <1>9 DEF HoldsTrash, Known, Suffix
  <2>7. HoldsName(inode, q)
    BY <1>8, <2>1 DEF HoldsName, Ended
  <2>8. AddingR(r) /\ Top(r) = {} /\ Top(q) = {}
    BY <1>8 DEF AddingR, Top
  <2>9. HoldsChain(inode, q)
    BY <1>8, <2>1, <2>8 DEF Holds, HoldsChain, Chain
  <2> QED
    BY <2>2, <2>3, <2>5, <2>6, <2>7, <2>9 DEF Holds
<1> QED
  BY <1>1, <1>3, <1>4, <1>5, <1>6, <1>7, <1>8 DEF HasFound

LEMMA MissedHolds ==
    ASSUME NEW r \in Request, NEW l, Shape(r), Holds(inode, r), Suffix(r), Known(r, l), Permits(Missed(r)),
           r.pc \in {"probe", "dst"} /\ r.dir = 0 => NamedIn(inode, 0, BaseName(r.path)) = {}
    PROVE  Holds(inode, Missed(r)) /\ Suffix(Missed(r)) /\ Known(Missed(r), l)
<1> DEFINE q == Missed(r)
<1>0. Len(r.path) > 0 \/ r.pc # "open"
  BY DEF Shape, InStep
<1>1. HasMissed(r, q) /\ Permits(q)
  BY <1>0, MissedHas
<1>9. HoldsNode(inode, r) /\ HoldsTrash(inode, r)
  BY DEF Holds
<1> SUFFICES Holds(inode, q) /\ Suffix(q) /\ Known(q, l)
  OBVIOUS
<1> HIDE DEF q
<1>2. CASE q = NoReq
  BY <1>2, NoReqHolds
<1>3. CASE r.pc = "open" /\ Goings(r, q)
  <2>1. Ready(r)
    BY <1>3 DEF Shape
  <2> QED
    BY <1>1, <1>3, <1>9, <2>1, GoingsHolds
<1>4. CASE /\ r.pc \in {"probe", "dst"}
           /\ q.pc = (IF r.pc = "probe" THEN "insert" ELSE "move")
           /\ SameTask(q, r) /\ q.dir = r.dir
  <2>1. r.dst = 0 /\ r.op \in {"mkdir", "create", "symlink", "rename"}
        /\ (r.pc = "probe" => r.op # "rename")
    BY <1>4 DEF Shape, Ready, InStep
  <2>2. HoldsNode(inode, q)
    BY <1>4, <1>9, <2>1 DEF HoldsNode, SameTask
  <2>3. HoldsDst(inode, q) /\ HoldsKids(inode, q)
    BY <1>4, <2>1 DEF HoldsDst, HoldsKids, SameTask
  <2>4. HoldsName(inode, q)
    BY <1>4, <2>1 DEF HoldsName, SameTask
  <2>5. HoldsTrash(inode, q) /\ Known(q, l) /\ Suffix(q)
    BY <1>4, <1>9 DEF HoldsTrash, Known, Suffix, SameTask
  <2>6. AddingR(r) /\ Top(r) = {} /\ Top(q) = {}
    BY <1>4 DEF AddingR, Top
  <2>7. HoldsChain(inode, q)
    BY <1>4, <2>1, <2>6 DEF Holds, HoldsChain, Chain, SameTask
  <2> QED
    BY <2>2, <2>3, <2>4, <2>5, <2>7 DEF Holds
<1> QED
  BY <1>1, <1>2, <1>3, <1>4 DEF HasMissed

LEMMA GoesPermits ==
    ASSUME Typed, Whole', Raceless, NEW s \in Sessions, NEW q, Goes(s, q)
    PROVE  Permits(q)
<1>1. req' = [req EXCEPT ![s] = q] /\ inode' = inode
  BY DEF Goes
<1>2. req'[s] = q
  BY <1>1 DEF Typed, TypeOK
<1>3. Typed' /\ Allowed' /\ Sited(inode, q)
  BY <1>1, <1>2 DEF Whole
<1> QED
  BY <1>1, <1>2, <1>3, Permitted

LEMMA QueryKeeps ==
    ASSUME Sound, Whole', NEW s \in Sessions, NEW q, req' = [req EXCEPT ![s] = q],
           inode' = inode, last' = last,
           Holds(inode, q), Suffix(q), Known(q, last)
    PROVE  Sound'
<1>1. Typed /\ Tidy(inode)
  BY DEF Sound, Whole
<1>2. ASSUME NEW t \in Sessions
      PROVE  Holds(inode', req'[t]) /\ Suffix(req'[t]) /\ Known(req'[t], last')
  <2>1. req'[t] = IF t = s THEN q ELSE req[t]
    BY <1>1 DEF Typed, TypeOK
  <2> QED
    BY <2>1 DEF Sound
<1> QED
  BY <1>1, <1>2 DEF Sound

LEMMA BaseOfOne ==
    ASSUME NEW p \in Seq(Names), Len(p) = 1
    PROVE  Head(p) = BaseName(p)
  BY DEF BaseName

LEMMA BaseOfTail ==
    ASSUME NEW p \in Seq(Names), Len(p) > 1
    PROVE  BaseName(Tail(p)) = BaseName(p)
<1>1. Len(p) \in Nat /\ Len(p) - 1 \in Nat /\ Len(p) - 1 > 0 /\ Len(p) - 1 + 1 = Len(p)
  OBVIOUS
<1>2. Len(Tail(p)) = Len(p) - 1 /\ \A i \in 1..(Len(p) - 1) : Tail(p)[i] = p[i + 1]
  OBVIOUS
<1>3. Len(p) - 1 \in 1..(Len(p) - 1)
  BY <1>1
<1> QED
  BY <1>1, <1>2, <1>3 DEF BaseName

(* The walk of a probe, or of the target of a rename, in the root is one   *)
(* query.                                                                  *)
LEMMA RootWalk ==
    ASSUME NEW r \in Request, Shape(r), r.pc \in {"probe", "dst"}, r.dir = 0
    PROVE  /\ Len(r.rest) = 1
           /\ Named(r.at, Head(r.rest)) = NamedIn(inode, 0, BaseName(r.path))
<1>1. r.at = 0 /\ r.rest = r.path /\ Len(r.path) = 1 /\ r.path \in Seq(Names)
  BY DEF Shape, Request
<1> QED
  BY <1>1, BaseOfOne, InNow

LEMMA LookupSound ==
    ASSUME Sound, Whole', Raceless, NEW s \in Sessions, LookupStep(s)
    PROVE  Sound'
<1> DEFINE r == req[s]
           F == Named(r.at, Head(r.rest))
<1>1. /\ Typed /\ Rooted(inode) /\ Tidy(inode) /\ inode \in Table
      /\ r \in Request /\ Shape(r) /\ Holds(inode, r) /\ Suffix(r) /\ Known(r, last)
  BY SoundFacts
<1>2. PICK q : Goes(s, q) /\ Ends(r, q)
  BY LookupEnds
<1>3. Permits(q)
  BY <1>1, <1>2, GoesPermits
<1>4. r.pc \in Walking /\ r.rest \in Seq(Names) /\ Len(r.rest) > 0
  BY <1>1, EmptyPath DEF LookupStep, Request
<1>5. SUFFICES Holds(inode, q) /\ Suffix(q) /\ Known(q, last)
  BY <1>2, QueryKeeps DEF Goes
<1>6. CASE q = NoReq
  BY <1>6, NoReqHolds
<1>7. CASE F = {} /\ q = Missed(r)
  <2>1. r.pc \in {"probe", "dst"} /\ r.dir = 0 => NamedIn(inode, 0, BaseName(r.path)) = {}
    BY <1>1, <1>7, RootWalk
  <2> QED
    BY <1>1, <1>3, <1>7, <2>1, MissedHolds
<1>8. ASSUME NEW n \in F
      PROVE  n \in Ids /\ Exists(n) /\ LiveIn(inode, n) /\ inode[n].name = Head(r.rest)
  BY <1>8, Named_In DEF LiveIn, Exists
<1>9. ASSUME NEW n \in F, Len(r.rest) > 1, q = [r EXCEPT !.rest = Tail(r.rest), !.at = n]
      PROVE  Holds(inode, q) /\ Suffix(q) /\ Known(q, last)
  <2>1. SameTask(q, r) /\ q.pc = r.pc /\ q.dir = r.dir /\ q.rest = Tail(r.rest)
    BY <1>1, <1>9 DEF Request, SameTask
  <2>2. r.pc # "climb"
    BY <1>4 DEF Walking
  <2>3. Suffix(q)
    BY <1>1, <1>4, <1>9, <2>1, BaseOfTail DEF Suffix, SameTask
  <2> QED
    BY <1>1, <2>1, <2>2, <2>3, SameHolds
<1>10. ASSUME NEW n \in F, r.pc \in Following, q = [r EXCEPT !.rest = <<>>, !.at = inode[n].link]
       PROVE  Holds(inode, q) /\ Suffix(q) /\ Known(q, last)
  <2>1. SameTask(q, r) /\ q.pc = r.pc /\ q.dir = r.dir
    BY <1>1, <1>10 DEF Request, SameTask
  <2>2. r.pc # "climb" /\ r.pc # "dst"
    BY <1>10 DEF Following
  <2>3. Suffix(q)
    BY <2>1, <2>2 DEF Suffix
  <2> QED
    BY <1>1, <2>1, <2>2, <2>3, SameHolds
<1>11. ASSUME NEW n \in F, Len(r.rest) = 1, q = Found(r, n)
       PROVE  Holds(inode, q) /\ Suffix(q) /\ Known(q, last)
  <2>1. n \in Ids /\ Exists(n) /\ LiveIn(inode, n) /\ inode[n].name = BaseName(r.rest)
    BY <1>4, <1>8, <1>11, BaseOfOne
  <2>2. r.pc = "dst" => inode[n].name = BaseName(r.path)
    BY <1>1, <1>4, <2>1 DEF Suffix
  <2>3. ASSUME r.pc = "dst", r.dir = 0
        PROVE  NamedIn(inode, 0, BaseName(r.path)) \subseteq {n}
    <3>1. n \in NamedIn(inode, 0, BaseName(r.path))
      BY <1>1, <2>3, RootWalk
    <3>2. NamesDiffer(inode)
      BY <1>1 DEF Tidy
    <3> QED
      BY <3>1, <3>2 DEF NamedIn, KidsIn, NamesDiffer
  <2>4. Ended(r, n)
    BY <2>1, <2>2, <2>3 DEF Ended
  <2> QED
    BY <1>1, <1>3, <1>11, <2>1, <2>4, FoundHolds
<1> QED
  BY <1>2, <1>6, <1>7, <1>9, <1>10, <1>11 DEF Ends

LEMMA FollowSound ==
    ASSUME Sound, Whole', Raceless, NEW s \in Sessions, FollowLink(s)
    PROVE  Sound'
<1> DEFINE r == req[s]
           q == IF Exists(r.at) THEN Found(r, r.at) ELSE Missed(r)
<1>1. /\ Typed /\ Rooted(inode) /\ Tidy(inode) /\ inode \in Table
      /\ r \in Request /\ Shape(r) /\ Holds(inode, r) /\ Suffix(r) /\ Known(r, last)
  BY SoundFacts
<1>2. Goes(s, q) /\ r.pc \in Following /\ r.rest = <<>>
  BY DEF FollowLink
<1>3. Permits(q)
  BY <1>1, <1>2, GoesPermits
<1>4. r.at \in Ids
  BY <1>1, <1>2, FollowShape
<1>5. Ended(r, r.at) /\ r.pc \notin {"probe", "dst"}
  BY <1>2 DEF Ended, Following
<1>6. Holds(inode, q) /\ Suffix(q) /\ Known(q, last)
  <2>1. CASE Exists(r.at)
    BY <1>1, <1>3, <1>4, <1>5, <2>1, FoundHolds
  <2>2. CASE ~Exists(r.at)
    BY <1>1, <1>3, <1>5, <2>2, MissedHolds
  <2> QED
    BY <2>1, <2>2
<1> QED
  BY <1>2, <1>6, QueryKeeps DEF Goes

LEMMA CountSound ==
    ASSUME Sound, Whole', Raceless, NEW s \in Sessions, CountChildren(s)
    PROVE  Sound'
<1> DEFINE r == req[s]
           d == IF r.op = "remove" THEN r.node ELSE r.dst
           q == [r EXCEPT !.pc = IF r.op = "remove" THEN "mark" ELSE "move"]
<1>1. /\ Typed /\ Rooted(inode) /\ r \in Request /\ Shape(r) /\ Holds(inode, r) /\ Known(r, last)
  BY SoundFacts
<1>2. r.pc = "count" /\ (Goes(s, NoReq) \/ (Kids(d) = {} /\ Goes(s, q)))
  BY DEF CountChildren
<1>3. CASE Goes(s, NoReq)
  BY <1>3, NoReqHolds, QueryKeeps DEF Goes
<1>4. CASE Kids(d) = {} /\ Goes(s, q)
  <2>1. /\ q.op = r.op /\ q.node = r.node /\ q.dst = r.dst /\ q.dir = r.dir /\ q.kind = r.kind
        /\ q.path = r.path /\ q.ids = r.ids /\ q.pc = (IF r.op = "remove" THEN "mark" ELSE "move")
    BY <1>1 DEF Request
  <2> HIDE DEF q
  <2>2. r.op \in {"remove", "rename"}
    BY <1>1, <1>2 DEF Shape, InStep
  <2>3. HoldsNode(inode, q) /\ HoldsDst(inode, q) /\ HoldsTrash(inode, q)
    BY <1>1, <2>1 DEF Holds, HoldsNode, HoldsDst, HoldsTrash
  <2>4. HoldsKids(inode, q)
    BY <1>4, <2>1, <2>2, InNow DEF HoldsKids
  <2>5. HoldsName(inode, q)
    BY <1>1, <1>2, <2>1, <2>2 DEF Holds, HoldsName
  <2>6. HoldsChain(inode, q)
    <3>1. Top(q) = {} /\ Top(r) = {} /\ (q.op = "rename" => AddingR(r))
      BY <1>2, <2>1 DEF Top, AddingR
    <3> QED
      BY <1>1, <2>1, <3>1 DEF Holds, HoldsChain, Chain
  <2>7. Suffix(q) /\ Known(q, last)
    BY <1>1, <2>1 DEF Suffix, Known
  <2> QED
    BY <1>4, <2>3, <2>4, <2>5, <2>6, <2>7, QueryKeeps DEF Goes, Holds
<1> QED
  BY <1>2, <1>3, <1>4

LEMMA ClimbSound ==
    ASSUME Sound, Whole', Raceless, NEW s \in Sessions, Climb(s)
    PROVE  Sound'
<1> DEFINE r == req[s]
           p == inode[r.at].parent
           q1 == [r EXCEPT !.at = inode[r.at].parent]
           q2 == [r EXCEPT !.pc = "dst", !.rest = r.path, !.at = 0]
<1>1. /\ Typed /\ Rooted(inode) /\ Tidy(inode) /\ inode \in Table /\ r \in Request /\ Shape(r)
      /\ Holds(inode, r) /\ Known(r, last)
  BY SoundFacts
<1>2. /\ r.pc = "climb"
      /\ \/ Goes(s, NoReq)
         \/ p # 0 /\ p # r.node /\ Goes(s, q1)
         \/ (~Exists(r.at) \/ p = 0) /\ Goes(s, q2)
  BY DEF Climb
<1>3. r.op = "rename" /\ r.dir # 0 /\ r.kind = "dir" /\ r.dst = 0 /\ AddingR(r) /\ Top(r) = {r.at}
  BY <1>1, <1>2 DEF Shape, InStep, AddingR, Top
<1>4. PICK V : Chain(inode, r, V)
  BY <1>1, <1>3 DEF Holds, HoldsChain
<1>5. LiveIn(inode, r.at) /\ inode[r.at].kind = "dir" /\ Exists(r.at) /\ r.at \in Ids
  BY <1>3, <1>4 DEF Chain, LiveIn, Exists
<1> DEFINE W == V \cup {r.at}
<1>6. /\ W \in SUBSET Ids /\ r.dir \in W /\ r.node \notin W
      /\ \A m \in W : LiveIn(inode, m) /\ inode[m].kind = "dir"
      /\ \A m \in W : m # r.dir => \E k \in W : inode[k].parent = m
      /\ \A m \in V : inode[m].parent \in W \cup {0}
  BY <1>3, <1>4, <1>5 DEF Chain
<1> DEFINE Next_(q) ==
        /\ q.op = r.op /\ q.node = r.node /\ q.dst = r.dst /\ q.dir = r.dir /\ q.kind = r.kind
        /\ q.path = r.path /\ q.ids = r.ids /\ q.pc \in {"climb", "dst"}
<1>7. ASSUME NEW q, Next_(q), Chain(inode, q, W)
      PROVE  Holds(inode, q) /\ Known(q, last)
  <2>1. HoldsNode(inode, q) /\ HoldsDst(inode, q) /\ HoldsTrash(inode, q) /\ Known(q, last)
    BY <1>1, <1>7 DEF Holds, HoldsNode, HoldsDst, HoldsTrash, Known
  <2>2. HoldsKids(inode, q) /\ HoldsName(inode, q) /\ HoldsChain(inode, q)
    BY <1>7 DEF HoldsKids, HoldsName, HoldsChain
  <2> QED
    BY <2>1, <2>2 DEF Holds
<1>8. CASE Goes(s, NoReq)
  BY <1>8, NoReqHolds, QueryKeeps DEF Goes
<1>9. CASE p # 0 /\ p # r.node /\ Goes(s, q1)
  <2>1. Next_(q1) /\ q1.pc = "climb" /\ q1.at = p
    BY <1>1, <1>2 DEF Request
  <2> HIDE DEF q1
  <2>2. Top(q1) = {p}
    BY <2>1 DEF Top
  <2>3. LiveIn(inode, p) /\ inode[p].kind = "dir"
    BY <1>1, <1>5, <1>9 DEF Tidy, LiveBelowLive, Rooted, LiveIn
  <2> HIDE DEF p
  <2>4. /\ q1.dir \in W \cup {p} /\ q1.node \notin W \cup {p}
        /\ \A m \in W \cup {p} : LiveIn(inode, m) /\ inode[m].kind = "dir"
    BY <1>6, <1>9, <2>1, <2>3
  <2>5. inode[r.at].parent = p /\ r.at \in W
    BY DEF p
  <2>6. \A m \in W \cup {p} : m # q1.dir => \E k \in W : inode[k].parent = m
    BY <1>6, <2>1, <2>5
  <2>7. \A m \in W : inode[m].parent \in W \cup {p} \cup {0}
    BY <1>6, <2>5
  <2>8. Chain(inode, q1, W)
    BY <1>6, <2>2, <2>4, <2>6, <2>7 DEF Chain
  <2>9. Suffix(q1)
    BY <2>1 DEF Suffix
  <2> QED
    BY <1>7, <1>9, <2>1, <2>8, <2>9, QueryKeeps DEF Goes
<1>10. CASE (~Exists(r.at) \/ p = 0) /\ Goes(s, q2)
  <2>1. Next_(q2) /\ q2.pc = "dst" /\ q2.rest = r.path
    BY <1>1, <1>2 DEF Request
  <2> HIDE DEF q2
  <2>2. Top(q2) = {} /\ Suffix(q2)
    BY <2>1 DEF Top, Suffix
  <2>3. inode[r.at].parent = 0
    BY <1>5, <1>10
  <2>4. \A m \in W : inode[m].parent \in W \cup {0}
    BY <1>6, <2>3
  <2>5. Chain(inode, q2, W)
    BY <1>6, <2>1, <2>2, <2>4 DEF Chain
  <2> QED
    BY <1>7, <1>10, <2>1, <2>2, <2>5, QueryKeeps DEF Goes
<1> QED
  BY <1>2, <1>8, <1>9, <1>10

LEMMA FindHomeSound ==
    ASSUME Sound, Whole', Raceless, NEW s \in Sessions, FindHome(s)
    PROVE  Sound'
<1> DEFINE r == req[s]
           d == IF Live(r.dir) /\ inode[r.dir].kind = "dir" THEN r.dir ELSE 0
           q == [r EXCEPT !.pc = "conflict", !.dir = d]
<1>1. /\ Typed /\ r \in Request /\ Shape(r) /\ Holds(inode, r) /\ Known(r, last)
  BY SoundFacts
<1>2. r.pc = "home" /\ Goes(s, q)
  BY DEF FindHome
<1>3. r.op = "restore" /\ r.dst = 0
  BY <1>1, <1>2 DEF Shape, InStep
<1>4. /\ q.op = r.op /\ q.node = r.node /\ q.dst = r.dst /\ q.kind = r.kind
      /\ q.path = r.path /\ q.ids = r.ids /\ q.pc = "conflict" /\ q.dir = d
  BY <1>1 DEF Request
<1>5. d \in {0, r.dir}
  OBVIOUS
<1> HIDE DEF q, d
<1>6. HoldsNode(inode, q) /\ HoldsDst(inode, q) /\ HoldsTrash(inode, q)
  BY <1>1, <1>3, <1>4, <1>5 DEF Holds, HoldsNode, HoldsDst, HoldsTrash
<1>7. HoldsKids(inode, q) /\ HoldsName(inode, q) /\ HoldsChain(inode, q)
  BY <1>3, <1>4 DEF HoldsKids, HoldsName, HoldsChain
<1>8. Suffix(q) /\ Known(q, last)
  BY <1>1, <1>4 DEF Suffix, Known
<1> QED
  BY <1>2, <1>6, <1>7, <1>8, QueryKeeps DEF Goes, Holds

LEMMA ConflictSound ==
    ASSUME Sound, Whole', Raceless, NEW s \in Sessions, EnsureNoConflict(s)
    PROVE  Sound'
<1> DEFINE r == req[s]
           q == [r EXCEPT !.pc = "restore"]
<1>1. /\ Typed /\ r \in Request /\ Shape(r) /\ Holds(inode, r) /\ Known(r, last)
  BY SoundFacts
<1>2. /\ r.pc = "conflict"
      /\ Goes(s, NoReq) \/ (Named(r.dir, BaseName(r.path)) = {} /\ Goes(s, q))
  BY DEF EnsureNoConflict
<1>3. CASE Goes(s, NoReq)
  BY <1>3, NoReqHolds, QueryKeeps DEF Goes
<1>4. CASE Named(r.dir, BaseName(r.path)) = {} /\ Goes(s, q)
  <2>1. r.op = "restore"
    BY <1>1, <1>2 DEF Shape, InStep
  <2>2. /\ q.op = r.op /\ q.node = r.node /\ q.dst = r.dst /\ q.kind = r.kind
        /\ q.path = r.path /\ q.ids = r.ids /\ q.pc = "restore" /\ q.dir = r.dir
    BY <1>1 DEF Request
  <2> HIDE DEF q
  <2>3. HoldsNode(inode, q) /\ HoldsDst(inode, q) /\ HoldsTrash(inode, q)
    BY <1>1, <2>2 DEF Holds, HoldsNode, HoldsDst, HoldsTrash
  <2>4. HoldsKids(inode, q) /\ HoldsChain(inode, q)
    BY <2>1, <2>2 DEF HoldsKids, HoldsChain
  <2>5. HoldsName(inode, q)
    BY <1>4, <2>1, <2>2, InNow DEF HoldsName
  <2>6. Suffix(q) /\ Known(q, last)
    BY <1>1, <2>2 DEF Suffix, Known
  <2> QED
    BY <1>4, <2>3, <2>4, <2>5, <2>6, QueryKeeps DEF Goes, Holds
<1> QED
  BY <1>2, <1>3, <1>4

LEMMA QuerySound ==
    ASSUME Sound, Whole', Raceless, NEW s \in Sessions, Query(s)
    PROVE  Sound'
<1>1. FailRequest(s) => Sound'
  BY NoReqHolds, QueryKeeps DEF FailRequest, Goes
<1> QED
  BY <1>1, LookupSound, FollowSound, CountSound, ClimbSound, FindHomeSound, ConflictSound DEF Query

(* A request that has only begun knows nothing yet.                        *)
LEMMA BegunHolds ==
    ASSUME NEW q, NEW l, q.pc \in {"open", "victim", "target", "src", "home", "conflict", "purge"},
           q.op = "restore" <=> q.pc \in {"home", "conflict"},
           q.dst = 0, q.op # "restore" => q.node = 0, HoldsNode(inode, q),
           HoldsTrash(inode, q), Known(q, l)
    PROVE  Holds(inode, q) /\ Suffix(q) /\ Known(q, l)
<1>1. HoldsDst(inode, q) /\ HoldsKids(inode, q) /\ HoldsName(inode, q) /\ Suffix(q)
  BY DEF HoldsDst, HoldsKids, HoldsName, Suffix
<1>2. HoldsChain(inode, q)
  BY DEF HoldsChain, AddingR
<1> QED
  BY <1>1, <1>2 DEF Holds

LEMMA ArriveSound ==
    ASSUME Sound, Whole', Raceless, NEW s \in Sessions, Arrive(s)
    PROVE  Sound'
<1>0. \A p \in Paths : p \in Seq(Names) /\ Len(p) > 0
  BY NamespaceAssumption
<1>1. Typed /\ inode \in Table /\ \A n \in Ids : n > last => inode[n] = Nil
  BY SoundFacts, TypedFacts
<1>8. ASSUME NEW q, Start(s, q), Holds(inode, q), Suffix(q), Known(q, last)
      PROVE  Sound'
  <2>1. req' = [req EXCEPT ![s] = q] /\ inode' = inode /\ last' = last
    BY <1>8 DEF Start
  <2> QED
    BY <1>8, <2>1, QueryKeeps
<1>2. ASSUME NEW p \in Paths, Mkdir(s, p)
      PROVE  \E q : Start(s, q) /\ Holds(inode, q) /\ Suffix(q) /\ Known(q, last)
  <2> DEFINE r == [NoReq EXCEPT !.op = "mkdir", !.kind = "dir", !.path = p]
             q == ToParent(r)
  <2>1. /\ r \in Request /\ r.path = p /\ r.op = "mkdir" /\ r.kind = "dir" /\ r.node = 0
        /\ r.dst = 0 /\ r.ids = {}
    BY <1>0, NoReqTyped DEF NoReq, Request, Kind
  <2>2. Start(s, q)
    BY <1>2 DEF Mkdir
  <2> HIDE DEF r
  <2>3. Goings(r, q) /\ Ready(r)
    BY <1>0, <2>1, ToParentGoes DEF Ready
  <2> HIDE DEF q
  <2>4. inode' = inode /\ req' = [req EXCEPT ![s] = q]
    BY <2>2 DEF Start
  <2>5. req'[s] = q
    BY <1>1, <2>4 DEF Typed, TypeOK
  <2>6. Typed' /\ Allowed' /\ Sited(inode, q)
    BY <2>4, <2>5 DEF Whole
  <2>7. Permits(q)
    BY <2>4, <2>5, <2>6, Permitted
  <2>8. HoldsNode(inode, r) /\ HoldsTrash(inode, r) /\ Known(r, last)
    BY <2>1 DEF HoldsNode, HoldsTrash, Known
  <2> QED
    BY <2>2, <2>3, <2>7, <2>8, GoingsHolds
<1>3. ASSUME NEW q, Start(s, q), q.pc \in {"open", "victim", "target", "src"},
             q.op # "restore", q.dst = 0, q.node = 0, q.ids = {}
      PROVE  \E r : Start(s, r) /\ Holds(inode, r) /\ Suffix(r) /\ Known(r, last)
  <2>1. HoldsNode(inode, q) /\ HoldsTrash(inode, q) /\ Known(q, last)
    BY <1>3 DEF HoldsNode, HoldsTrash, Known
  <2> QED
    BY <1>3, <2>1, BegunHolds
<1>4. ASSUME NEW p \in Paths, Create(s, p) \/ Remove(s, p)
      PROVE  \E q : Start(s, q) /\ Holds(inode, q) /\ Suffix(q) /\ Known(q, last)
  <2> DEFINE r1 == [NoReq EXCEPT !.op = "create", !.kind = "file", !.path = p, !.pc = "open", !.rest = p]
             r2 == [NoReq EXCEPT !.op = "remove", !.path = p, !.pc = "victim", !.rest = p]
  <2>1. Start(s, r1) \/ Start(s, r2)
    BY <1>4 DEF Create, Remove
  <2>2. r1.pc = "open" /\ r1.op = "create" /\ r1.dst = 0 /\ r1.node = 0 /\ r1.ids = {}
    BY DEF NoReq
  <2>3. r2.pc = "victim" /\ r2.op = "remove" /\ r2.dst = 0 /\ r2.node = 0 /\ r2.ids = {}
    BY DEF NoReq
  <2> HIDE DEF r1, r2
  <2> QED
    BY <1>3, <2>1, <2>2, <2>3
<1>5. ASSUME NEW p \in Paths, NEW q \in Paths, Symlink(s, p, q) \/ Rename(s, p, q)
      PROVE  \E r : Start(s, r) /\ Holds(inode, r) /\ Suffix(r) /\ Known(r, last)
  <2> DEFINE r1 == [NoReq EXCEPT !.op = "symlink", !.kind = "link", !.path = q, !.pc = "target", !.rest = p]
             r2 == [NoReq EXCEPT !.op = "rename", !.path = q, !.pc = "src", !.rest = p]
  <2>1. Start(s, r1) \/ Start(s, r2)
    BY <1>5 DEF Symlink, Rename
  <2>2. r1.pc = "target" /\ r1.op = "symlink" /\ r1.dst = 0 /\ r1.node = 0 /\ r1.ids = {}
    BY DEF NoReq
  <2>3. r2.pc = "src" /\ r2.op = "rename" /\ r2.dst = 0 /\ r2.node = 0 /\ r2.ids = {}
    BY DEF NoReq
  <2> HIDE DEF r1, r2
  <2> QED
    BY <1>3, <2>1, <2>2, <2>3
<1>6. ASSUME NEW n \in Dead, Restore(s, n)
      PROVE  \E q : Start(s, q) /\ Holds(inode, q) /\ Suffix(q) /\ Known(q, last)
  <2> DEFINE a == inode[n].name
             d == inode[n].parent
             q == [NoReq EXCEPT !.op = "restore", !.node = n, !.dir = d, !.path = <<a>>,
                                !.pc = IF d = 0 THEN "conflict" ELSE "home"]
  <2>1. Start(s, q)
    BY <1>6 DEF Restore
  <2>2. /\ q.op = "restore" /\ q.node = n /\ q.dir = d /\ q.path = <<a>> /\ q.dst = 0
        /\ q.ids = {} /\ q.pc = (IF d = 0 THEN "conflict" ELSE "home")
    BY DEF NoReq
  <2> HIDE DEF q
  <2>3. BaseName(q.path) = a
    BY <2>2 DEF BaseName
  <2>4. inode[n] # Nil /\ ~inode[n].live
    BY <1>6 DEF Dead, Exists
  <2>5. HoldsNode(inode, q) /\ HoldsTrash(inode, q) /\ Known(q, last)
    BY <2>2, <2>3, <2>4 DEF HoldsNode, HoldsTrash, Known
  <2> QED
    BY <2>1, <2>2, <2>5, BegunHolds
<1>7. ASSUME NEW N \in SUBSET Dead, Purge(s, N)
      PROVE  \E q : Start(s, q) /\ Holds(inode, q) /\ Suffix(q) /\ Known(q, last)
  <2> DEFINE q == [NoReq EXCEPT !.op = "purge", !.pc = "purge", !.ids = N]
  <2>1. Start(s, q)
    BY <1>7 DEF Purge
  <2>2. q.op = "purge" /\ q.pc = "purge" /\ q.dst = 0 /\ q.node = 0 /\ q.ids = N
    BY DEF NoReq
  <2> HIDE DEF q
  <2>3. HoldsNode(inode, q) /\ HoldsTrash(inode, q)
    BY <2>2 DEF HoldsNode, HoldsTrash, Dead, LiveIn
  <2>4. Known(q, last)
    <3> SUFFICES ASSUME NEW n \in N
                 PROVE  n <= last
      BY <2>2 DEF Known
    <3>1. n \in Ids /\ n \in Nat /\ inode[n] # Nil
      BY Numbers DEF Dead, Exists
    <3>2. last \in Nat /\ ~(n > last)
      BY <1>1, <3>1, Numbers DEF Typed, TypeOK
    <3> QED
      BY <3>1, <3>2
  <2> QED
    BY <2>1, <2>2, <2>3, <2>4, BegunHolds
<1>9. \E q : Start(s, q) /\ Holds(inode, q) /\ Suffix(q) /\ Known(q, last)
  BY <1>2, <1>4, <1>5, <1>6, <1>7 DEF Arrive
<1> QED
  BY <1>8, <1>9
-----------------------------------------------------------------------------
(* Transactions: what one request does to the rows leaves what the others  *)
(* have found out, and the tree a tree.                                    *)

(* n does not lie above d: going up from d leads to the root by V.         *)
Clear(n, d, V) ==
    /\ V \in SUBSET Ids /\ n \notin V /\ d \in V \cup {0}
    /\ \A m \in V : LiveIn(inode, m) /\ inode[m].parent \in V \cup {0}

Placed(s, U, m) ==
    AddingR(req[s]) /\ U[m].parent = req[s].dir /\ U[m].name = BaseName(req[s].path)

(* The transaction of s makes U of the table, and puts row k in its place. *)
Effect(s, U, k) ==
    /\ \A m \in Ids : inode[m] # Nil /\ m \notin Changing(s) => U[m] = inode[m]
    /\ \A m \in Ids : inode[m] # Nil /\ U[m] # Nil => U[m].kind = inode[m].kind
    /\ \A m \in Ids : inode[m] = Nil /\ U[m] # Nil => m = last + 1
    /\ \A m \in Ids : LiveIn(inode, m) /\ ~LiveIn(U, m) =>
            m \in Emptying(s) /\ KidsIn(inode, m) = {}
    /\ \A m \in Ids : LiveIn(U, m) =>
            \/ m = k /\ Placed(s, U, m)
            \/ LiveIn(inode, m) /\ U[m].parent = inode[m].parent /\ U[m].name = inode[m].name
    /\ LiveIn(inode, k) => req[s].op = "rename" /\ k = req[s].node
    /\ AddingR(req[s]) =>
            /\ NamedIn(U, req[s].dir, BaseName(req[s].path)) \subseteq {k}
            /\ DirIn(U, req[s].dir)
            /\ \E V : Clear(k, req[s].dir, V)

(* Not: an entry is added to a directory that t is deleting, two entries   *)
(* change, two directories move, one name is taken twice in the root.      *)
LEMMA Serial ==
    ASSUME Allowed, Raceless, NEW s \in Sessions, NEW t \in Sessions, s # t
    PROVE  /\ Changing(s) \cap Changing(t) = {}
           /\ AddingR(req[s]) => req[s].dir \notin Emptying(t)
           /\ AddingR(req[t]) => req[t].dir \notin Emptying(s)
           /\ ~(AddingR(req[s]) /\ req[s].op = "rename" /\ req[s].kind = "dir" /\
                AddingR(req[t]) /\ req[t].op = "rename" /\ req[t].kind = "dir")
           /\ AddingR(req[s]) /\ AddingR(req[t]) /\ req[s].dir = 0 /\ req[t].dir = 0 =>
                BaseName(req[s].path) # BaseName(req[t].path)
<1>1. /\ ~(Adding(s) /\ Adding(t) /\ Place(s) = Place(t) /\ req[s].dir = 0)
      /\ ~(MovesDir(s) /\ MovesDir(t))
      /\ Changing(s) \cap Changing(t) = {}
      /\ ~(Adding(s) /\ req[s].dir \in Emptying(t))
      /\ ~(Adding(t) /\ req[t].dir \in Emptying(s))
  BY DEF Allowed, Raceless
<1>2. (Adding(s) <=> AddingR(req[s])) /\ (Adding(t) <=> AddingR(req[t]))
  BY AddingIs
<1> QED
  BY <1>1, <1>2 DEF MovesDir, Place

LEMMA EffectHolds ==
    ASSUME Sound, Raceless, NEW s \in Sessions, NEW t \in Sessions, s # t,
           NEW U, NEW k, Effect(s, U, k)
    PROVE  Holds(U, req[t])
<1> DEFINE r == req[t]
<1>1. /\ Typed /\ Rooted(inode) /\ Whole /\ Allowed /\ inode \in Table /\ r \in Request /\ Shape(r)
      /\ Holds(inode, r) /\ Known(r, last) /\ last \in 0..MaxInode
  BY SoundFacts, TypedFacts
<1>2. /\ Changing(s) \cap Changing(t) = {}
      /\ AddingR(req[s]) => req[s].dir \notin Emptying(t)
      /\ AddingR(r) => r.dir \notin Emptying(s)
      /\ ~(AddingR(req[s]) /\ req[s].op = "rename" /\ req[s].kind = "dir" /\
           AddingR(r) /\ r.op = "rename" /\ r.kind = "dir")
      /\ AddingR(req[s]) /\ AddingR(r) /\ req[s].dir = 0 /\ r.dir = 0 =>
            BaseName(req[s].path) # BaseName(r.path)
  BY <1>1, Serial
<1>3. Emptying(t) \subseteq Changing(t) /\ {r.node, r.dst} \ {0} \subseteq Changing(t)
  BY DEF Changing
<1>4. ASSUME NEW m \in Ids, m \in Changing(t), inode[m] # Nil
      PROVE  U[m] = inode[m]
  BY <1>2, <1>4 DEF Effect
<1>5. r.node \in 0..MaxInode /\ r.dst \in 0..MaxInode
  BY <1>1 DEF Request
<1>6. HoldsNode(U, r)
  <2>1. CASE r.node = 0
    <3>1. r.op # "restore"
      BY <1>1, <2>1 DEF Shape
    <3> QED
      BY <2>1, <3>1 DEF HoldsNode
  <2>2. CASE r.node # 0
    <3>1. r.node \in Ids /\ r.node \in Changing(t)
      BY <1>3, <1>5, <2>2, Numbers
    <3>2. inode[r.node] # Nil => U[r.node] = inode[r.node]
      BY <1>4, <3>1
    <3> QED
      BY <1>1, <2>2, <3>2 DEF Holds, HoldsNode, LiveIn
  <2> QED
    BY <2>1, <2>2
<1>7. HoldsDst(U, r)
  <2> SUFFICES ASSUME r.dst # 0
               PROVE  HoldsDst(U, r)
    BY DEF HoldsDst
  <2>1. r.dst \in Ids /\ r.dst \in Changing(t)
    BY <1>3, <1>5, Numbers
  <2>2. inode[r.dst] # Nil => U[r.dst] = inode[r.dst]
    BY <1>4, <2>1
  <2> QED
    BY <1>1, <2>2 DEF Holds, HoldsDst, LiveIn
<1>8. ASSUME NEW d \in Emptying(t), KidsIn(inode, d) = {}
      PROVE  KidsIn(U, d) = {}
  BY <1>2, <1>8 DEF Effect, Placed, KidsIn
<1>9. HoldsKids(U, r)
  <2>1. r.pc = "mark" => r.node \in Emptying(t)
    BY DEF Emptying
  <2>2. r.pc = "move" /\ r.dst # 0 => r.dst \in Emptying(t)
    BY DEF Emptying
  <2> QED
    BY <1>1, <1>8, <2>1, <2>2 DEF Holds, HoldsKids
<1>10. ASSUME AddingR(r), r.dir = 0
       PROVE  NamedIn(U, 0, BaseName(r.path)) \subseteq NamedIn(inode, 0, BaseName(r.path))
  BY <1>2, <1>10 DEF Effect, Placed, NamedIn, KidsIn
<1>11. HoldsName(U, r)
  <2>1. r.pc \in {"insert", "restore"} => AddingR(r)
    BY DEF AddingR
  <2>2. r.op = "rename" /\ r.pc \in {"count", "move"} => AddingR(r)
    BY DEF AddingR
  <2> QED
    BY <1>1, <1>10, <2>1, <2>2 DEF Holds, HoldsName
<1>12. HoldsTrash(U, r)
  <2> SUFFICES ASSUME NEW n \in r.ids, LiveIn(U, n)
               PROVE  FALSE
    BY DEF HoldsTrash
  <2>1. n \in Ids /\ n \in Nat /\ n <= last /\ last \in Nat
    BY <1>1, Numbers DEF Known, LiveIn
  <2>2. r.op = "purge" /\ r.pc = "purge"
    BY <1>1 DEF Known, Shape, InStep
  <2>3. n \in Emptying(t)
    BY <2>1, <2>2, SubtreeIs DEF Emptying
  <2>4. inode[n] # Nil
    BY <2>1 DEF Effect, LiveIn
  <2>5. ~LiveIn(inode, n)
    BY <1>1 DEF Holds, HoldsTrash
  <2> QED
    BY <1>3, <1>4, <2>1, <2>3, <2>4, <2>5 DEF LiveIn
<1>13. HoldsChain(U, r)
  <2> SUFFICES ASSUME r.op = "rename", AddingR(r), r.kind = "dir", r.dir # 0
               PROVE  \E V : Chain(U, r, V)
    BY DEF HoldsChain
  <2>1. PICK V : Chain(inode, r, V)
    BY <1>1 DEF Holds, HoldsChain
  <2>2. ASSUME NEW m \in V \cup Top(r)
        PROVE  /\ LiveIn(U, m) /\ U[m].kind = "dir"
               /\ U[m].parent = inode[m].parent
    <3>1. LiveIn(inode, m) /\ inode[m].kind = "dir" /\ m \in Ids
      BY <2>1 DEF Chain, LiveIn
    <3>2. m = r.dir \/ KidsIn(inode, m) # {}
      <4>1. ASSUME m # r.dir
            PROVE  \E n \in V : inode[n].parent = m /\ LiveIn(inode, n)
        BY <2>1, <4>1 DEF Chain
      <4> QED
        BY <4>1 DEF KidsIn, LiveIn
    <3>3. LiveIn(U, m)
      BY <1>2, <3>1, <3>2 DEF Effect
    <3>4. U[m].kind = "dir"
      BY <3>1, <3>3 DEF Effect, LiveIn
    <3>5. ~(m = k /\ Placed(s, U, m))
      <4> SUFFICES ASSUME m = k, AddingR(req[s])
                   PROVE  FALSE
        BY DEF Placed
      <4>1. req[s].op = "rename" /\ k = req[s].node
        BY <3>1 DEF Effect
      <4>2. k # 0
        BY <3>1, Numbers
      <4>3. req[s].kind = "dir"
        BY <3>1, <4>1, <4>2, SoundFacts DEF Holds, HoldsNode
      <4> QED
        BY <1>2, <4>1, <4>3
    <3> QED
      BY <3>1, <3>3, <3>4, <3>5 DEF Effect
  <2>3. Chain(U, r, V)
    BY <2>1, <2>2 DEF Chain
  <2> QED
    BY <2>3
<1> QED
  BY <1>6, <1>7, <1>9, <1>11, <1>12, <1>13 DEF Holds

LEMMA EffectTidy ==
    ASSUME Sound, NEW s \in Sessions, NEW U, NEW k, Effect(s, U, k)
    PROVE  Tidy(U)
<1> DEFINE r == req[s]
<1>1. /\ Typed /\ Rooted(inode) /\ inode \in Table
      /\ LiveBelowLive(inode) /\ NamesDiffer(inode) /\ NoCycle(inode)
  BY SoundFacts DEF Tidy
<1>2. \A m \in Ids : LiveIn(U, m) =>
            \/ m = k /\ Placed(s, U, m)
            \/ LiveIn(inode, m) /\ U[m].parent = inode[m].parent /\ U[m].name = inode[m].name
  BY DEF Effect
<1>3. AddingR(r) => /\ NamedIn(U, r.dir, BaseName(r.path)) \subseteq {k}
                    /\ DirIn(U, r.dir)
                    /\ \E V : Clear(k, r.dir, V)
  BY DEF Effect
<1>4. LiveBelowLive(U)
  <2> SUFFICES ASSUME NEW n \in Ids, LiveIn(U, n), U[n].parent # 0
               PROVE  LiveIn(U, U[n].parent)
    BY DEF LiveBelowLive
  <2>1. CASE Placed(s, U, n)
    BY <1>3, <2>1 DEF Placed, DirIn
  <2>2. CASE LiveIn(inode, n) /\ U[n].parent = inode[n].parent
    <3>1. LiveIn(inode, inode[n].parent)
      BY <1>1, <2>2 DEF LiveBelowLive
    <3>2. n \in KidsIn(inode, inode[n].parent)
      BY <2>2 DEF KidsIn
    <3>3. \A m \in Ids : LiveIn(inode, m) /\ ~LiveIn(U, m) => KidsIn(inode, m) = {}
      BY DEF Effect
    <3>4. inode[n].parent \in Ids
      BY <3>1 DEF LiveIn
    <3>5. LiveIn(U, inode[n].parent)
      BY <3>1, <3>2, <3>3, <3>4
    <3> QED
      BY <2>2, <3>5
  <2> QED
    BY <1>2, <2>1, <2>2
<1>5. NamesDiffer(U)
  <2> SUFFICES ASSUME NEW n \in Ids, NEW m \in Ids, LiveIn(U, n), LiveIn(U, m),
                      U[n].parent = U[m].parent, U[n].name = U[m].name
               PROVE  n = m
    BY DEF NamesDiffer
  <2>1. CASE Placed(s, U, n) \/ Placed(s, U, m)
    <3>1. AddingR(r) /\ {n, m} \subseteq NamedIn(U, r.dir, BaseName(r.path))
      BY <2>1 DEF Placed, NamedIn, KidsIn
    <3> QED
      BY <1>3, <3>1
  <2>2. CASE ~Placed(s, U, n) /\ ~Placed(s, U, m)
    BY <1>1, <1>2, <2>2 DEF NamesDiffer
  <2> QED
    BY <2>1, <2>2
<1>6. NoCycle(U)
  <2> SUFFICES ASSUME NEW S \in SUBSET Ids, ParentsIn(U, S)
               PROVE  S = {}
    BY DEF NoCycle
  <2>1. CASE \A m \in S : LiveIn(inode, m) /\ U[m].parent = inode[m].parent
    <3>1. ParentsIn(inode, S)
      BY <2>1 DEF ParentsIn
    <3> QED
      BY <1>1, <3>1 DEF NoCycle
  <2>2. CASE \E m \in S : ~(LiveIn(inode, m) /\ U[m].parent = inode[m].parent)
    <3>1. k \in S /\ AddingR(r) /\ U[k].parent = r.dir
      BY <1>2, <2>2 DEF ParentsIn, Placed
    <3>2. r.dir \in S /\ r.dir # 0
      BY <3>1, Numbers DEF ParentsIn
    <3>3. PICK V : Clear(k, r.dir, V)
      BY <1>3, <3>1
    <3>4. ParentsIn(inode, S \cap V)
      <4> SUFFICES ASSUME NEW m \in S \cap V
                   PROVE  LiveIn(inode, m) /\ inode[m].parent \in S \cap V
        BY DEF ParentsIn
      <4>1. m # k /\ LiveIn(U, m) /\ LiveIn(inode, m) /\ inode[m].parent \in V \cup {0}
        BY <3>3 DEF Clear, ParentsIn
      <4>2. U[m].parent = inode[m].parent /\ U[m].parent \in S
        BY <1>2, <4>1 DEF ParentsIn
      <4> QED
        BY <4>1, <4>2, Numbers
    <3>5. S \cap V = {}
      BY <1>1, <3>4 DEF NoCycle
    <3> QED
      BY <3>2, <3>3, <3>5 DEF Clear
  <2> QED
    BY <2>1, <2>2
<1> QED
  BY <1>4, <1>5, <1>6 DEF Tidy
-----------------------------------------------------------------------------
(* Each transaction is one step of FileTree, and has only its effect.      *)

LEMMA TreeIs ==
    /\ Tree!Ids = Ids /\ Tree!Kind = Kind
    /\ \A n : (Tree!Exists(n) <=> Exists(n)) /\ (Tree!Live(n) <=> Live(n))
    /\ \A n \in Ids : Tree!Live(n) <=> LiveIn(inode, n)
    /\ \A d : Tree!Kids(d) = KidsIn(inode, d)
    /\ \A d, a : Tree!Named(d, a) = NamedIn(inode, d, a)
    /\ \A d \in 0..MaxInode : Tree!IsDir(d) <=> DirIn(inode, d)
<1>1. Tree!Ids = Ids /\ Tree!Kind = Kind
  BY DEF Tree!Ids, Ids, Tree!Kind, Kind
<1>2. \A n : (Tree!Exists(n) <=> Exists(n)) /\ (Tree!Live(n) <=> Live(n))
  BY DEF Tree!Exists, Exists, Tree!Live, Live
<1>3. \A n \in Ids : Live(n) <=> LiveIn(inode, n)
  BY InNow
<1>4. \A d : Tree!Kids(d) = KidsIn(inode, d)
  BY <1>1, <1>2, InNow DEF Tree!Kids, Kids
<1>5. \A d, a : Tree!Named(d, a) = NamedIn(inode, d, a)
  BY <1>4 DEF Tree!Named, NamedIn
<1>6. \A d \in 0..MaxInode : Tree!IsDir(d) <=> DirIn(inode, d)
  BY <1>2, <1>3, Numbers DEF Tree!IsDir, DirIn, LiveIn
<1> QED
  BY <1>1, <1>2, <1>3, <1>4, <1>5, <1>6

LEMMA BelowIs == \A n : Tree!Below(n) = Subtree(n)
  BY DEF Tree!Below, Subtree, Tree!Exists, Exists, Tree!Ids, Ids

(* A row that has no entries lies above nothing.                           *)
LEMMA LiveClear ==
    ASSUME Rooted(inode), Tidy(inode), NEW n \in Ids, NEW d, DirIn(inode, d),
           ~LiveIn(inode, n) \/ inode[n].kind # "dir"
    PROVE  \E V : Clear(n, d, V)
<1> DEFINE V == {m \in Ids : LiveIn(inode, m) /\ m # n}
<1>1. n # 0 /\ 0 \notin Ids
  BY Numbers
<1>2. d \in V \cup {0}
  BY DEF DirIn, LiveIn
<1>3. ASSUME NEW m \in V
      PROVE  inode[m].parent \in V \cup {0}
  <2>1. LiveIn(inode, m) /\ inode[m] # Nil
    BY DEF LiveIn
  <2>2. inode[m].parent # 0 => LiveIn(inode, inode[m].parent)
    BY <2>1 DEF Tidy, LiveBelowLive
  <2>3. inode[m].parent # 0 => inode[inode[m].parent].kind = "dir"
    BY <2>1 DEF Rooted
  <2>4. inode[m].parent # 0 => inode[m].parent # n
    BY <2>2, <2>3
  <2> QED
    BY <2>2, <2>4 DEF LiveIn
<1>4. Clear(n, d, V)
  BY <1>2, <1>3 DEF Clear
<1> QED
  BY <1>4

(* Nothing that lies below n is above d.                                   *)
LEMMA ClearBelow ==
    ASSUME NEW n \in Ids, NEW d, NEW V, Clear(n, d, V)
    PROVE  d \notin Subtree(n)
<1> DEFINE S == Ids \ V
<1>1. 0 \notin Ids
  BY Numbers
<1>2. n \in S /\ \A m \in Ids : Exists(m) /\ inode[m].parent \in S => m \in S
  BY <1>1 DEF Clear
<1>3. Subtree(n) \subseteq S
  BY <1>2, SubtreeIs
<1> QED
  BY <1>1, <1>3 DEF Clear

LEMMA InsertLegal ==
    ASSUME Sound, Raceless, NEW s \in Sessions, Insert(s), inode' # inode
    PROVE  /\ req' = [req EXCEPT ![s] = NoReq] /\ last' = last + 1
           /\ \E k : Effect(s, inode', k)
           /\ Tree!Next
<1> DEFINE r == req[s]
           n == last + 1
           d == r.dir
           a == BaseName(r.path)
           U == inode'
<1>1. /\ Whole /\ Typed /\ Rooted(inode) /\ Tidy(inode) /\ inode \in Table /\ r \in Request /\ Shape(r)
      /\ Holds(inode, r)
  BY SoundFacts
<1>2. /\ req' = [req EXCEPT ![s] = NoReq] /\ Ready(r) /\ r.pc = "insert"
      /\ n \in Ids /\ inode[n] = Nil /\ last' = n
      /\ ~Indexed(d, a, {})
      /\ inode' = [inode EXCEPT ![n] = [parent |-> d, name |-> a, kind |-> r.kind,
                                        link |-> r.link, live |-> TRUE]]
      /\ U[n] # Nil /\ U[n].live /\ U[n].kind = r.kind
      /\ U[n].parent = d /\ U[n].name = a
      /\ \A m \in Ids : m # n => U[m] = inode[m]
  BY <1>1, InsertDoes
<1>3. AddingR(r) /\ Len(r.path) > 0
  BY <1>2 DEF AddingR, Ready
<1>4. DirIn(inode, d) /\ d \in 0..MaxInode /\ a \in Names
  BY <1>1, <1>3, DirLive, BaseNameTyped DEF Raceless, Request
<1> HIDE DEF U, n
<1>5. NamedIn(inode, d, a) = {}
  <2>1. CASE d = 0
    BY <1>1, <1>2, <2>1 DEF Holds, HoldsName
  <2>2. CASE d # 0
    BY <1>2, <2>2, InNow DEF Indexed
  <2> QED
    BY <2>1, <2>2
<1>6. \A m \in Ids : LiveIn(inode, m) => m # n /\ U[m] = inode[m]
  BY <1>2 DEF LiveIn
<1>7. \A m \in Ids : LiveIn(U, m) => m = n \/ (LiveIn(inode, m) /\ U[m] = inode[m])
  BY <1>2 DEF LiveIn
<1>8. NamedIn(U, d, a) \subseteq {n}
  BY <1>5, <1>7 DEF NamedIn, KidsIn
<1>9. DirIn(U, d)
  BY <1>4, <1>6 DEF DirIn, LiveIn
<1>10. \E V : Clear(n, d, V)
  <2>1. ~LiveIn(inode, n)
    BY <1>2 DEF LiveIn
  <2> QED
    BY <1>1, <1>2, <1>4, <2>1, LiveClear
<1>11. Effect(s, U, n)
  <2>1. /\ \A m \in Ids : inode[m] # Nil => U[m] = inode[m]
        /\ \A m \in Ids : inode[m] = Nil /\ U[m] # Nil => m = n
    BY <1>2
  <2>2. \A m \in Ids : LiveIn(inode, m) => LiveIn(U, m)
    BY <1>6 DEF LiveIn
  <2>3. Placed(s, U, n)
    BY <1>2, <1>3 DEF Placed
  <2>4. ~LiveIn(inode, n)
    BY <1>2 DEF LiveIn
  <2>5. \A m \in Ids : LiveIn(U, m) =>
            \/ m = n /\ Placed(s, U, m)
            \/ LiveIn(inode, m) /\ U[m].parent = inode[m].parent /\ U[m].name = inode[m].name
    BY <1>7, <2>3
  <2> QED
    BY <1>8, <1>9, <1>10, <2>1, <2>2, <2>4, <2>5 DEF Effect, n
<1>12. Tree!Next
  <2>1. ~Exists(n)
    BY <1>2 DEF Exists
  <2>2. Tree!Add(n, d, a, r.kind, r.link)
    BY <1>2, <1>4, <1>5, <2>1, TreeIs DEF Tree!Add, U
  <2>3. r.kind \in Kind /\ r.link \in 0..MaxInode
    BY <1>1 DEF Request
  <2> QED
    BY <1>2, <1>4, <2>2, <2>3, TreeIs DEF Tree!Next
<1> QED
  BY <1>2, <1>11, <1>12 DEF U, n

LEMMA MarkDeletedLegal ==
    ASSUME Sound, Raceless, NEW s \in Sessions, MarkDeleted(s)
    PROVE  /\ req' = [req EXCEPT ![s] = NoReq] /\ last' = last
           /\ \E k : Effect(s, inode', k)
           /\ Tree!Next
<1> DEFINE r == req[s]
           n == r.node
           U == inode'
<1>1. /\ Whole /\ Typed /\ inode \in Table /\ r \in Request /\ Shape(r)
      /\ Holds(inode, r)
  BY SoundFacts
<1>2. /\ req' = [req EXCEPT ![s] = NoReq] /\ last' = last
      /\ r.pc = "mark" /\ n \in Ids
      /\ inode[n] # Nil => inode' = [inode EXCEPT ![n].live = FALSE]
      /\ U[n] # Nil <=> inode[n] # Nil
      /\ inode[n] # Nil => ~U[n].live /\ U[n].kind = inode[n].kind
      /\ \A m \in Ids : m # n => U[m] = inode[m]
  BY <1>1, MarkDeletedDoes
<1>3. n # 0 /\ r.op = "remove"
  BY <1>1, <1>2, Numbers DEF Shape, InStep
<1>4. LiveIn(inode, n) /\ KidsIn(inode, n) = {} /\ inode[n] # Nil /\ inode[n].live
  BY <1>1, <1>2, <1>3 DEF Holds, HoldsNode, HoldsKids, LiveIn
<1> HIDE DEF U
<1>5. n \in Emptying(s) /\ n \in Changing(s)
  BY <1>2, <1>3 DEF Emptying, Changing
<1>6. ~AddingR(r) /\ ~LiveIn(inode, 0)
  BY <1>2, Numbers DEF AddingR, LiveIn
<1>7. Effect(s, U, 0)
  <2>1. /\ \A m \in Ids : inode[m] # Nil /\ m \notin Changing(s) => U[m] = inode[m]
        /\ \A m \in Ids : inode[m] # Nil /\ U[m] # Nil => U[m].kind = inode[m].kind
        /\ \A m \in Ids : inode[m] = Nil => U[m] = Nil
    BY <1>2, <1>5
  <2>2. /\ \A m \in Ids : LiveIn(inode, m) /\ ~LiveIn(U, m) => m = n
        /\ \A m \in Ids : LiveIn(U, m) => LiveIn(inode, m) /\ U[m] = inode[m]
    BY <1>2 DEF LiveIn
  <2> QED
    BY <1>4, <1>5, <1>6, <2>1, <2>2 DEF Effect
<1>8. Tree!Next
  <2>1. inode' # inode
    BY <1>2, <1>4 DEF U
  <2>2. Tree!Trash(n)
    BY <1>2, <1>4, TreeIs DEF Tree!Trash
  <2> QED
    BY <1>2, <2>1, <2>2, TreeIs DEF Tree!Next
<1> QED
  BY <1>2, <1>7, <1>8 DEF U

LEMMA UndeleteLegal ==
    ASSUME Sound, Raceless, NEW s \in Sessions, Undelete(s), inode' # inode
    PROVE  /\ req' = [req EXCEPT ![s] = NoReq] /\ last' = last
           /\ \E k : Effect(s, inode', k)
           /\ Tree!Next
<1> DEFINE r == req[s]
           n == r.node
           d == r.dir
           a == BaseName(r.path)
           U == inode'
<1>1. /\ Whole /\ Typed /\ Rooted(inode) /\ Tidy(inode) /\ inode \in Table /\ r \in Request /\ Shape(r)
      /\ Holds(inode, r)
  BY SoundFacts
<1>2. /\ req' = [req EXCEPT ![s] = NoReq] /\ last' = last
      /\ r.pc = "restore" /\ r.op = "restore" /\ n \in Ids
      /\ inode[n] # Nil /\ ~Indexed(d, inode[n].name, {n})
      /\ inode' = [inode EXCEPT ![n].live = TRUE, ![n].parent = d]
      /\ U[n] # Nil /\ U[n].live /\ U[n].kind = inode[n].kind
      /\ U[n].parent = d /\ U[n].name = inode[n].name
      /\ \A m \in Ids : m # n => U[m] = inode[m]
  BY <1>1, UndeleteDoes
<1>3. ~inode[n].live /\ inode[n].name = a /\ d \in {0, inode[n].parent}
  BY <1>1, <1>2 DEF Holds, HoldsNode
<1>4. AddingR(r) /\ n # 0
  BY <1>2, Numbers DEF AddingR
<1>5. DirIn(inode, d) /\ d \in 0..MaxInode
  BY <1>1, <1>4, DirLive DEF Raceless, Request
<1> HIDE DEF U
<1>6. NamedIn(inode, d, a) = {}
  <2>1. CASE d = 0
    BY <1>1, <1>2, <2>1 DEF Holds, HoldsName
  <2>2. CASE d # 0
    <3>1. NamedIn(inode, d, a) \ {n} = {}
      BY <1>2, <1>3, <2>2, InNow DEF Indexed
    <3>2. n \notin NamedIn(inode, d, a)
      BY <1>3 DEF NamedIn, KidsIn, LiveIn
    <3> QED
      BY <3>1, <3>2
  <2> QED
    BY <2>1, <2>2
<1>7. ~LiveIn(inode, n)
  BY <1>3 DEF LiveIn
<1>8. \A m \in Ids : LiveIn(inode, m) => m # n /\ U[m] = inode[m]
  BY <1>2, <1>7
<1>9. \A m \in Ids : LiveIn(U, m) => m = n \/ (LiveIn(inode, m) /\ U[m] = inode[m])
  BY <1>2 DEF LiveIn
<1>10. NamedIn(U, d, a) \subseteq {n}
  BY <1>6, <1>9 DEF NamedIn, KidsIn
<1>11. DirIn(U, d)
  BY <1>5, <1>8 DEF DirIn, LiveIn
<1>12. \E V : Clear(n, d, V)
  BY <1>1, <1>2, <1>5, <1>7, LiveClear
<1>13. Effect(s, U, n)
  <2>1. /\ n \in Changing(s)
        /\ \A m \in Ids : inode[m] # Nil /\ m # n => U[m] = inode[m]
        /\ \A m \in Ids : inode[m] = Nil => U[m] = Nil
        /\ \A m \in Ids : inode[m] # Nil => U[m].kind = inode[m].kind
    BY <1>2, <1>4 DEF Changing
  <2>2. \A m \in Ids : LiveIn(inode, m) => LiveIn(U, m)
    BY <1>8 DEF LiveIn
  <2>3. Placed(s, U, n)
    BY <1>2, <1>3, <1>4 DEF Placed
  <2>4. \A m \in Ids : LiveIn(U, m) =>
            \/ m = n /\ Placed(s, U, m)
            \/ LiveIn(inode, m) /\ U[m].parent = inode[m].parent /\ U[m].name = inode[m].name
    BY <1>9, <2>3
  <2> QED
    BY <1>7, <1>10, <1>11, <1>12, <2>1, <2>2, <2>4 DEF Effect
<1>14. Tree!Next
  <2>1. Tree!Restore(n, d)
    BY <1>2, <1>3, <1>5, <1>6, TreeIs DEF Tree!Restore, Exists, Live
  <2> QED
    BY <1>2, <1>5, <2>1, TreeIs DEF Tree!Next
<1> QED
  BY <1>2, <1>13, <1>14 DEF U

LEMMA MoveEntryLegal ==
    ASSUME Sound, Raceless, NEW s \in Sessions, MoveEntry(s), inode' # inode
    PROVE  /\ req' = [req EXCEPT ![s] = NoReq] /\ last' = last
           /\ \E k : Effect(s, inode', k)
           /\ Tree!Next
<1> DEFINE r == req[s]
           n == r.node
           x == r.dst
           d == r.dir
           a == BaseName(r.path)
           U == inode'
<1>1. /\ Whole /\ Typed /\ Rooted(inode) /\ Tidy(inode) /\ inode \in Table /\ r \in Request /\ Shape(r)
      /\ Holds(inode, r)
  BY SoundFacts
<1>2. /\ req' = [req EXCEPT ![s] = NoReq] /\ last' = last
      /\ r.pc = "move" /\ r.op = "rename" /\ n \in Ids /\ x \in 0..MaxInode
      /\ ~(Live(n) /\ Indexed(d, a, {n, x}))
      /\ U \in Table
      /\ \A m \in Ids : U[m] # Nil <=> inode[m] # Nil
      /\ inode[n] # Nil => /\ U[n] = [inode[n] EXCEPT !.parent = d, !.name = a]
                           /\ U[n].live = inode[n].live /\ U[n].kind = inode[n].kind
                           /\ U[n].parent = d /\ U[n].name = a
      /\ x # 0 /\ x # n /\ inode[x] # Nil =>
             U[x] = [inode[x] EXCEPT !.live = FALSE] /\ ~U[x].live /\ U[x].kind = inode[x].kind
      /\ \A m \in Ids \ {n, x} : U[m] = inode[m]
  BY <1>1, MoveEntryDoes
<1> HIDE DEF U
<1>3. AddingR(r) /\ n # 0 /\ Len(r.path) > 0
  BY <1>1, <1>2, Numbers DEF AddingR, Shape
<1>4. DirIn(inode, d) /\ d \in 0..MaxInode /\ a \in Names
  BY <1>1, <1>3, DirLive, BaseNameTyped DEF Raceless, Request
<1>5. LiveIn(inode, n) /\ Live(n) /\ inode[n].kind = r.kind /\ inode[n] # Nil /\ inode[n].live
  BY <1>1, <1>2, <1>3, InNow DEF Holds, HoldsNode, LiveIn
<1>6. ASSUME x # 0
      PROVE  /\ x \in Ids /\ x # n /\ LiveIn(inode, x) /\ inode[x] # Nil
             /\ inode[x].parent = d /\ inode[x].name = a
             /\ (inode[x].kind = "dir") = (inode[n].kind = "dir")
             /\ KidsIn(inode, x) = {} /\ x \in Emptying(s)
  <2>1. x \in Emptying(s)
    BY <1>2, <1>6 DEF Emptying
  <2> QED
    BY <1>1, <1>2, <1>5, <1>6, <2>1 DEF Holds, HoldsDst, HoldsKids, LiveIn
<1>7. NamedIn(inode, d, a) \subseteq {n, x}
  <2>1. CASE d = 0
    BY <1>1, <1>2, <2>1 DEF Holds, HoldsName
  <2>2. CASE d # 0
    <3>1. NamedIn(inode, d, a) \ {n, x} = {}
      BY <1>2, <1>5, <2>2, InNow DEF Indexed
    <3> QED
      BY <3>1
  <2> QED
    BY <2>1, <2>2
<1>8. \E V : Clear(n, d, V)
  <2>1. CASE inode[n].kind # "dir"
    BY <1>1, <1>2, <1>4, <2>1, LiveClear
  <2>2. CASE d = 0
    <3>1. Clear(n, d, {})
      BY <2>2 DEF Clear
    <3> QED
      BY <3>1
  <2>3. CASE inode[n].kind = "dir" /\ d # 0
    <3>1. PICK V : Chain(inode, r, V)
      BY <1>1, <1>2, <1>3, <1>5, <2>3 DEF Holds, HoldsChain
    <3>2. Top(r) = {}
      BY <1>2 DEF Top
    <3>3. Clear(n, d, V)
      BY <3>1, <3>2 DEF Chain, Clear
    <3> QED
      BY <3>3
  <2> QED
    BY <2>1, <2>2, <2>3
<1>9. d # x \/ x = 0
  <2> SUFFICES ASSUME d = x, x # 0
               PROVE  FALSE
    OBVIOUS
  <2>1. ParentsIn(inode, {x}) /\ {x} \in SUBSET Ids
    BY <1>6 DEF ParentsIn
  <2> QED
    BY <1>1, <2>1 DEF Tidy, NoCycle
<1>10. 0 \notin Ids
  BY Numbers
<1>11. \A m \in Ids : LiveIn(U, m) =>
            /\ m # x /\ LiveIn(inode, m)
            /\ m = n \/ U[m] = inode[m]
  BY <1>2, <1>5, <1>6, <1>10 DEF LiveIn
<1>12. \A m \in Ids : LiveIn(inode, m) /\ m # x => LiveIn(U, m)
  BY <1>2, <1>5 DEF LiveIn
<1>13. \A m \in Ids : inode[m] # Nil => U[m] # Nil /\ U[m].kind = inode[m].kind
  BY <1>2, <1>6, <1>10
<1>14. NamedIn(U, d, a) \subseteq {n}
  BY <1>7, <1>11 DEF NamedIn, KidsIn
<1>15. DirIn(U, d)
  <2> SUFFICES ASSUME d # 0
               PROVE  LiveIn(U, d) /\ U[d].kind = "dir"
    BY DEF DirIn
  <2>1. LiveIn(inode, d) /\ inode[d].kind = "dir" /\ d # x
    BY <1>4, <1>9 DEF DirIn
  <2>2. d \in Ids /\ inode[d] # Nil
    BY <2>1 DEF LiveIn
  <2> QED
    BY <1>12, <1>13, <2>1, <2>2
<1>16. Effect(s, U, n)
  <2>1. {n, x} \ {0} \subseteq Changing(s)
    BY DEF Changing
  <2>2. /\ \A m \in Ids : inode[m] # Nil /\ m \notin Changing(s) => U[m] = inode[m]
        /\ \A m \in Ids : inode[m] = Nil => U[m] = Nil
    BY <1>2, <1>10, <2>1
  <2>3. \A m \in Ids : LiveIn(inode, m) /\ ~LiveIn(U, m) => m \in Emptying(s) /\ KidsIn(inode, m) = {}
    BY <1>6, <1>10, <1>12
  <2>4. Placed(s, U, n)
    BY <1>2, <1>3, <1>5 DEF Placed
  <2>5. \A m \in Ids : LiveIn(U, m) =>
            \/ m = n /\ Placed(s, U, m)
            \/ LiveIn(inode, m) /\ U[m].parent = inode[m].parent /\ U[m].name = inode[m].name
    BY <1>11, <2>4
  <2> QED
    BY <1>2, <1>8, <1>13, <1>14, <1>15, <2>2, <2>3, <2>5 DEF Effect
<1>17. Tree!Next
  <2> DEFINE R == Tree!Named(d, a) \ {n}
  <2>1. R = {x} \ {0}
    <3>1. R = NamedIn(inode, d, a) \ {n}
      BY TreeIs
    <3>2. x # 0 => x \in NamedIn(inode, d, a) /\ x # n
      BY <1>6 DEF NamedIn, KidsIn
    <3>3. 0 \notin NamedIn(inode, d, a)
      BY <1>10 DEF NamedIn, KidsIn
    <3> QED
      BY <1>7, <3>1, <3>2, <3>3
  <2>2. d \notin Tree!Below(n)
    BY <1>2, <1>8, ClearBelow, BelowIs
  <2>3. \A y \in R : (inode[y].kind = "dir") = (inode[n].kind = "dir") /\ Tree!Kids(y) = {}
    BY <1>6, <2>1, TreeIs
  <2>4. Tree!Live(n) /\ Tree!IsDir(d)
    BY <1>2, <1>4, <1>5, TreeIs
  <2> DEFINE W == [m \in Ids |-> IF m \in R THEN [inode[m] EXCEPT !.live = FALSE]
                                 ELSE IF m = n THEN [inode[n] EXCEPT !.parent = d, !.name = a]
                                 ELSE inode[m]]
  <2>5. U = W
    <3>1. U = [m \in Ids |-> U[m]]
      BY <1>2 DEF Table
    <3>2. ASSUME NEW m \in Ids
          PROVE  U[m] = W[m]
      <4>1. CASE m = x /\ x # 0
        <5>1. m \in R /\ U[m] = [inode[m] EXCEPT !.live = FALSE]
          BY <1>2, <1>6, <2>1, <4>1
        <5> QED
          BY <5>1
      <4>2. CASE m = n
        <5>1. m \notin R /\ U[m] = [inode[n] EXCEPT !.parent = d, !.name = a]
          BY <1>2, <1>5, <4>2
        <5> QED
          BY <4>2, <5>1
      <4>3. CASE m # n /\ ~(m = x /\ x # 0)
        <5>1. m \notin R /\ m # x
          BY <1>10, <2>1, <4>3
        <5>2. U[m] = inode[m]
          BY <1>2, <4>3, <5>1
        <5> QED
          BY <4>3, <5>1, <5>2
      <4> QED
        BY <4>1, <4>2, <4>3
    <3> HIDE DEF W
    <3>3. W = [m \in Ids |-> W[m]]
      BY DEF W
    <3>4. [m \in Ids |-> U[m]] = [m \in Ids |-> W[m]]
      BY <3>2
    <3> QED
      BY <3>1, <3>3, <3>4
  <2>6. inode' = [m \in Tree!Ids |-> IF m \in R THEN [inode[m] EXCEPT !.live = FALSE]
                                 ELSE IF m = n THEN [inode[n] EXCEPT !.parent = d, !.name = a]
                                 ELSE inode[m]]
    BY <2>5, TreeIs DEF U
  <2>7. Tree!Move(n, d, a)
    BY <2>2, <2>3, <2>4, <2>6 DEF Tree!Move
  <2> QED
    BY <1>2, <1>4, <2>7, TreeIs DEF Tree!Next
<1> QED
  BY <1>2, <1>16, <1>17 DEF U

(* The rows below a row of the trash are in the trash.                     *)
LEMMA DeadBelowDead ==
    ASSUME Tidy(inode), NEW n \in Ids, ~LiveIn(inode, n)
    PROVE  \A m \in Subtree(n) : ~LiveIn(inode, m)
<1> DEFINE S == {m \in Ids : ~LiveIn(inode, m)}
<1>1. ASSUME NEW m \in Ids, Exists(m), inode[m].parent \in S
      PROVE  m \in S
  BY <1>1, Numbers DEF Tidy, LiveBelowLive
<1>2. n \in S
  OBVIOUS
<1> HIDE DEF S
<1>3. Subtree(n) \subseteq S
  BY <1>1, <1>2, SubtreeIs
<1> QED
  BY <1>3 DEF S

LEMMA NothingBelowNil ==
    ASSUME Rooted(inode), NEW n \in Ids, ~Exists(n)
    PROVE  Subtree(n) = {n}
<1>1. \A m \in Ids : Exists(m) /\ inode[m].parent \in {n} => m \in {n}
  BY Numbers DEF Exists, Rooted
<1>2. Subtree(n) \subseteq {n} /\ n \in Subtree(n)
  BY <1>1, SubtreeIs
<1> QED
  BY <1>2

LEMMA PurgeLegal ==
    ASSUME Sound, NEW s \in Sessions, NEW n \in req[s].ids, PurgeInode(s, n)
    PROVE  /\ last' = last
           /\ \E q : /\ req' = [req EXCEPT ![s] = q] /\ Holds(inode', q)
                     /\ Suffix(q) /\ Known(q, last)
           /\ \E k : Effect(s, inode', k)
           /\ inode' = inode \/ Tree!Next
<1> DEFINE r == req[s]
           U == inode'
<1>1. /\ Whole /\ Typed /\ Rooted(inode) /\ Tidy(inode) /\ inode \in Table /\ r \in Request /\ Shape(r)
      /\ Holds(inode, r) /\ Known(r, last)
  BY SoundFacts
<1>2. /\ n \in Ids /\ last' = last /\ r.pc = "purge"
      /\ \A m \in Ids : U[m] = IF m \in Subtree(n) THEN Nil ELSE inode[m]
      /\ Subtree(n) \subseteq Emptying(s)
  BY <1>1, PurgeInodeDoes
<1>3. PICK q : req' = [req EXCEPT ![s] = q] /\ (q = NoReq \/ q = [r EXCEPT !.ids = r.ids \ {n}])
  BY <1>1, PurgeInodeDoes
<1>4. ~LiveIn(inode, n)
  BY <1>1 DEF Holds, HoldsTrash
<1>5. \A m \in Subtree(n) : ~LiveIn(inode, m)
  BY <1>1, <1>2, <1>4, DeadBelowDead
<1>6. U = [m \in Ids |-> IF m \in Subtree(n) THEN Nil ELSE inode[m]]
  BY DEF PurgeInode
<1> HIDE DEF U
<1>7. \A m \in Ids : LiveIn(U, m) => LiveIn(inode, m) /\ U[m] = inode[m]
  BY <1>2 DEF LiveIn
<1>8. \A m \in Ids : LiveIn(inode, m) => LiveIn(U, m)
  BY <1>2, <1>5 DEF LiveIn
<1>9. Effect(s, U, 0)
  <2>1. Emptying(s) \subseteq Changing(s)
    BY DEF Changing
  <2>2. /\ \A m \in Ids : inode[m] # Nil /\ m \notin Changing(s) => U[m] = inode[m]
        /\ \A m \in Ids : inode[m] # Nil /\ U[m] # Nil => U[m].kind = inode[m].kind
        /\ \A m \in Ids : inode[m] = Nil => U[m] = Nil
    BY <1>2, <2>1
  <2>3. ~LiveIn(inode, 0) /\ ~AddingR(r)
    BY <1>2, Numbers DEF LiveIn, AddingR
  <2> QED
    BY <1>7, <1>8, <2>2, <2>3 DEF Effect
<1>10. Holds(U, q) /\ Suffix(q) /\ Known(q, last)
  <2>1. CASE q = NoReq
    BY <2>1, NoReqHolds
  <2>2. CASE q = [r EXCEPT !.ids = r.ids \ {n}]
    <3>1. /\ q.op = r.op /\ q.pc = r.pc /\ q.node = r.node /\ q.dst = r.dst
          /\ q.ids = r.ids \ {n}
      BY <1>1, <2>2 DEF Request
    <3>2. r.op = "purge" /\ r.dst = 0
      BY <1>1, <1>2 DEF Shape, InStep
    <3>3. HoldsTrash(U, q) /\ Known(q, last) /\ Suffix(q)
      BY <1>1, <1>2, <1>7, <3>1 DEF HoldsTrash, Holds, Known, Suffix, LiveIn
    <3> QED
      BY <1>2, <3>1, <3>2, <3>3 DEF Holds, HoldsNode, HoldsDst, HoldsKids, HoldsName, HoldsChain, AddingR
  <2> QED
    BY <1>3, <2>1, <2>2
<1>11. inode' = inode \/ Tree!Next
  <2>1. CASE ~Exists(n)
    <3>1. Subtree(n) = {n} /\ inode[n] = Nil
      BY <1>1, <1>2, <2>1, NothingBelowNil DEF Exists
    <3>2. \A m \in Ids : U[m] = inode[m]
      BY <1>2, <3>1
    <3>3. U = [m \in Ids |-> U[m]] /\ inode = [m \in Ids |-> inode[m]]
      BY <1>1, <1>6 DEF Table
    <3>4. U = inode
      BY <3>2, <3>3
    <3> QED
      BY <3>4 DEF U
  <2>2. CASE Exists(n) /\ inode' # inode
    <3>1. inode' = [m \in Tree!Ids |-> IF m \in Tree!Below(n) THEN Nil ELSE inode[m]]
      BY <1>6, TreeIs, BelowIs DEF U
    <3>2. Tree!Exists(n) /\ ~Tree!Live(n)
      BY <1>2, <1>4, <2>2, TreeIs
    <3>3. Tree!Purge(n)
      BY <3>1, <3>2 DEF Tree!Purge
    <3> QED
      BY <1>2, <2>2, <3>3, TreeIs DEF Tree!Next
  <2> QED
    BY <2>1, <2>2
<1> QED
  BY <1>2, <1>3, <1>9, <1>10, <1>11 DEF U
-----------------------------------------------------------------------------
(* The invariant, and what follows from it.                                *)

LEMMA EffectKeeps ==
    ASSUME Sound, Whole', Raceless, NEW s \in Sessions, NEW q, NEW k,
           Effect(s, inode', k), req' = [req EXCEPT ![s] = q],
           last' = last \/ last' = last + 1,
           Holds(inode', q), Suffix(q), Known(q, last')
    PROVE  Sound'
<1>1. Typed /\ last \in Nat /\ Tidy(inode')
  BY SoundFacts, TypedFacts, EffectTidy, Numbers
<1>2. \A n \in Ids : n <= last => n <= last'
  <2> TAKE n \in Ids
  <2>1. n \in Nat
    BY Numbers
  <2> QED
    BY <1>1, <2>1
<1>3. ASSUME NEW t \in Sessions
      PROVE  Holds(inode', req'[t]) /\ Suffix(req'[t]) /\ Known(req'[t], last')
  <2>1. req'[t] = IF t = s THEN q ELSE req[t]
    BY <1>1 DEF Typed, TypeOK
  <2>2. CASE t = s
    BY <2>1, <2>2
  <2>3. CASE t # s
    <3>1. Holds(inode', req[t])
      BY <2>3, EffectHolds
    <3>2. Suffix(req[t]) /\ Known(req[t], last) /\ req[t] \in Request
      BY SoundFacts
    <3>3. Known(req[t], last')
      BY <1>2, <3>2 DEF Known, Request
    <3> QED
      BY <2>1, <2>3, <3>1, <3>2, <3>3
  <2> QED
    BY <2>2, <2>3
<1> QED
  BY <1>1, <1>3 DEF Sound

Change(s) ==
    \/ Insert(s) \/ MarkDeleted(s) \/ MoveEntry(s) \/ Undelete(s)
    \/ \E n \in req[s].ids : PurgeInode(s, n)

LEMMA ChangeLegal ==
    ASSUME Sound, Raceless, NEW s \in Sessions, Change(s), inode' # inode
    PROVE  /\ last' = last \/ last' = last + 1
           /\ \E q : req' = [req EXCEPT ![s] = q] /\ Holds(inode', q) /\ Suffix(q) /\ Known(q, last')
           /\ \E k : Effect(s, inode', k)
           /\ Tree!Next
<1>1. CASE Insert(s)
  BY <1>1, InsertLegal, NoReqHolds
<1>2. CASE MarkDeleted(s)
  BY <1>2, MarkDeletedLegal, NoReqHolds
<1>3. CASE MoveEntry(s)
  BY <1>3, MoveEntryLegal, NoReqHolds
<1>4. CASE Undelete(s)
  BY <1>4, UndeleteLegal, NoReqHolds
<1>5. ASSUME NEW n \in req[s].ids, PurgeInode(s, n)
      PROVE  /\ last' = last
             /\ \E q : req' = [req EXCEPT ![s] = q] /\ Holds(inode', q) /\ Suffix(q) /\ Known(q, last)
             /\ \E k : Effect(s, inode', k)
             /\ Tree!Next
  BY <1>5, PurgeLegal
<1> QED
  BY <1>1, <1>2, <1>3, <1>4, <1>5 DEF Change

(* A transaction that the unique index refuses, or that finds nothing.     *)
LEMMA NoChange ==
    ASSUME Sound, NEW s \in Sessions, Change(s), inode' = inode
    PROVE  /\ last' = last
           /\ \E q : req' = [req EXCEPT ![s] = q] /\ Holds(inode, q) /\ Suffix(q) /\ Known(q, last)
<1>1. Typed
  BY SoundFacts
<1>2. CASE Insert(s)
  <2>1. req' = [req EXCEPT ![s] = NoReq]
    BY <1>2 DEF Insert
  <2>2. last' = last \/ inode'[last + 1] # inode[last + 1]
    BY <1>1, <1>2, InsertDoes
  <2> QED
    BY <2>1, <2>2, NoReqHolds
<1>3. CASE MarkDeleted(s) \/ MoveEntry(s) \/ Undelete(s)
  BY <1>3, NoReqHolds DEF MarkDeleted, MoveEntry, Undelete
<1>4. ASSUME NEW n \in req[s].ids, PurgeInode(s, n)
      PROVE  /\ last' = last
             /\ \E q : req' = [req EXCEPT ![s] = q] /\ Holds(inode, q) /\ Suffix(q) /\ Known(q, last)
  BY <1>4, PurgeLegal
<1> QED
  BY <1>2, <1>3, <1>4 DEF Change

LEMMA StepIs ==
    ASSUME [Next]_vars
    PROVE  \/ UNCHANGED vars
           \/ \E s \in Sessions : Arrive(s)
           \/ \E s \in Sessions : Query(s)
           \/ \E s \in Sessions : Change(s)
<1>1. ASSUME NEW s \in Sessions, Continue(s)
      PROVE  Query(s) \/ Change(s)
  BY <1>1 DEF Continue, Query, Change
<1> QED
  BY <1>1 DEF Next

LEMMA SoundNext ==
    ASSUME Sound, Raceless, [Next]_vars
    PROVE  Sound'
<1>1. Whole'
  BY WholeNext DEF Sound, Raceless
<1>2. CASE UNCHANGED vars
  BY <1>1, <1>2 DEF vars, Sound
<1>3. ASSUME NEW s \in Sessions, Arrive(s) \/ Query(s)
      PROVE  Sound'
  BY <1>1, <1>3, ArriveSound, QuerySound
<1>4. ASSUME NEW s \in Sessions, Change(s)
      PROVE  Sound'
  <2>1. CASE inode' = inode
    BY <1>1, <1>4, <2>1, NoChange, QueryKeeps
  <2>2. CASE inode' # inode
    BY <1>1, <1>4, <2>2, ChangeLegal, EffectKeeps
  <2> QED
    BY <2>1, <2>2
<1> QED
  BY <1>2, <1>3, <1>4, StepIs

LEMMA StepIsLegal ==
    ASSUME Sound, Raceless, [Next]_vars
    PROVE  [Tree!Next]_inode
<1>1. CASE UNCHANGED vars
  BY <1>1 DEF vars
<1>2. ASSUME NEW s \in Sessions, Arrive(s)
      PROVE  inode' = inode
  BY <1>2 DEF Arrive, Mkdir, Create, Remove, Symlink, Rename, Restore, Purge, Start
<1>3. ASSUME NEW s \in Sessions, Query(s)
      PROVE  inode' = inode
  BY <1>3, SoundFacts, QueryDoes DEF Goes
<1>4. ASSUME NEW s \in Sessions, Change(s)
      PROVE  inode' = inode \/ Tree!Next
  BY <1>4, ChangeLegal
<1> QED
  BY <1>1, <1>2, <1>3, <1>4, StepIs

(* What a walk down from the root arrives at.                              *)
LEMMA ReachableIs ==
    ASSUME Rooted(inode), inode \in Table
    PROVE  /\ 0 \in Reachable
           /\ \A n \in Ids : Live(n) /\ inode[n].parent \in Reachable => n \in Reachable
<1> DEFINE M == {m \in Ids : Live(m)}
           P == [m \in Ids |-> inode[m].parent]
           step(f) == [k \in 0..MaxInode |->
                          IF k = 0 THEN {0}
                          ELSE f[k - 1] \cup UNION {Kids(d) : d \in {m \in f[k - 1] :
                                        m = 0 \/ inode[m].kind = "dir"}}]
           grow(f) == [k \in 0..MaxInode |->
                          IF k = 0 THEN {0} ELSE f[k - 1] \cup {m \in M : P[m] \in f[k - 1]}]
<1>1. MaxInode \in Nat /\ MaxInode \in 0..MaxInode /\ {0} \in SUBSET (0..MaxInode) /\ {0} # {}
      /\ M \in SUBSET Ids
  BY Numbers
<1>2. Reachable = (CHOOSE f : f = step(f))[MaxInode]
  BY DEF Reachable
<1>3. ASSUME NEW B
      PROVE  UNION {Kids(d) : d \in {m \in B : m = 0 \/ inode[m].kind = "dir"}} = {m \in M : P[m] \in B}
  <2>1. ASSUME NEW m \in M, P[m] \in B
        PROVE  P[m] = 0 \/ inode[P[m]].kind = "dir"
    BY <2>1 DEF Rooted, Live, Exists
  <2>2. \A m, d : m \in Kids(d) <=> m \in M /\ P[m] = d
    BY DEF Kids
  <2> HIDE DEF M, P
  <2>3. ASSUME NEW m
        PROVE  m \in UNION {Kids(d) : d \in {e \in B : e = 0 \/ inode[e].kind = "dir"}}
                    <=> m \in M /\ P[m] \in B
    BY <2>1, <2>2
  <2> QED
    BY <2>3
<1>4. ASSUME NEW f
      PROVE  step(f) = grow(f)
  <2> HIDE DEF M, P
  <2> QED
    BY <1>3
<1>5. \E f : Grows({0}, M, P, MaxInode, f)
  BY <1>1, GrowthExists
<1>6. \A f : Grows({0}, M, P, MaxInode, f) <=> f = grow(f)
  BY DEF Grows
<1> HIDE DEF step, grow, M, P
<1>7. PICK f : f = step(f)
  BY <1>4, <1>5, <1>6
<1>8. PICK g : g = (CHOOSE h : h = step(h))
  OBVIOUS
<1>9. g = step(g)
  BY <1>7, <1>8
<1>10. Grows({0}, M, P, MaxInode, g) /\ Reachable = g[MaxInode]
  BY <1>2, <1>4, <1>6, <1>8, <1>9
<1>11. {0} \subseteq g[MaxInode] /\ \A m \in M : P[m] \in g[MaxInode] => m \in g[MaxInode]
  BY <1>1, <1>10, GrowthCloses
<1> QED
  BY <1>10, <1>11 DEF M, P

LEMMA SoundOnePath == Sound => OnePathEach
<1> SUFFICES ASSUME Sound
             PROVE  OnePathEach
  OBVIOUS
<1>1. Rooted(inode) /\ inode \in Table /\ LiveBelowLive(inode) /\ NamesDiffer(inode) /\ NoCycle(inode)
  BY TypedFacts DEF Sound, Whole, Tidy, Typed, TypeOK, Table
<1> DEFINE S == {n \in Ids : Live(n) /\ n \notin Reachable}
<1>2. ParentsIn(inode, S)
  <2> SUFFICES ASSUME NEW n \in S
               PROVE  LiveIn(inode, n) /\ inode[n].parent \in S
    BY DEF ParentsIn
  <2>1. LiveIn(inode, n) /\ inode[n].parent \notin Reachable /\ inode[n].parent # 0
    BY <1>1, ReachableIs, InNow
  <2>2. LiveIn(inode, inode[n].parent)
    BY <1>1, <2>1 DEF LiveBelowLive
  <2>3. inode[n].parent \in Ids
    BY <2>2 DEF LiveIn
  <2> QED
    BY <2>1, <2>2, <2>3, InNow
<1>3. S = {}
  BY <1>1, <1>2 DEF NoCycle
<1>4. {n \in Ids : Live(n)} \subseteq Reachable
  BY <1>3
<1>5. \A n, m \in Ids : Live(n) /\ Live(m) /\ n # m =>
            inode[n].parent # inode[m].parent \/ inode[n].name # inode[m].name
  BY <1>1, InNow DEF NamesDiffer
<1> QED
  BY <1>4, <1>5 DEF OnePathEach

(* Whatever Mkdir, Open, Symlink, Remove, Rename, Restore and Purge do     *)
(* together, a path leads to every live entry and to no other one, as long *)
(* as none of the races that Allowed names happens.                        *)
THEOREM OnePath ==
    ASSUME Raceless
    PROVE  Spec => []OnePathEach
<1>1. Init => Sound
  BY SoundInit
<1>2. Sound /\ [Next]_vars => Sound'
  BY SoundNext
<1>3. Sound => OnePathEach
  BY SoundOnePath
<1> QED
  BY <1>1, <1>2, <1>3, PTL DEF Spec

(* Every transaction of fs.go, fs_write.go and recycle.go is then one      *)
(* legal step on the tree of the moment it commits.                        *)
THEOREM NamespaceImplementsTree ==
    ASSUME Raceless
    PROVE  Spec => ImplementsTree
<1>1. Init => Sound /\ Tree!Init
  BY SoundInit DEF Init, Tree!Init
<1>2. Sound /\ [Next]_vars => Sound' /\ [Tree!Next]_inode
  BY SoundNext, StepIsLegal
<1>3. Spec => Tree!Spec
  BY <1>1, <1>2, PTL DEF Spec, Tree!Spec
<1> QED
  BY <1>3 DEF ImplementsTree
=============================================================================
