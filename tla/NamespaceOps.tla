---------------------------- MODULE NamespaceOps ------------------------------
(***************************************************************************)
(* The directory tree of one share (internal/vfs/fs.go, fs_write.go,       *)
(* file.go, recycle.go): requests resolve paths query by query, check, and *)
(* then change rows of inodes.  Nothing is locked between those steps.     *)
(***************************************************************************)
EXTENDS Naturals, Sequences, FiniteSets, FiniteSetsExt

CONSTANTS
    Sessions,       \* requests served at the same time
    Names,          \* names of entries
    Paths,          \* paths that requests name: sequences of names
    Tables,         \* tables of inodes that earlier requests may have left
    MaxInode,       \* bound: rows of inodes ever created
    MaxCalls,       \* bound: requests started
    Nil,
    Overlaps        \* the races the environment may produce, see Allowed

VARIABLES
    inode,          \* the inodes table: id -> row, Nil if there is none
    last,           \* the id given last (AUTOINCREMENT: never given twice)
    req,            \* session -> the request it is serving
    calls           \* requests started so far

vars == <<inode, last, req, calls>>

Ids  == 1..MaxInode
Kind == {"dir", "file", "link"}
Row  == [parent : 0..MaxInode, name : Names, kind : Kind,
         link : 0..MaxInode, live : BOOLEAN]

(* A tree of live directories and entries, and the trash: a link names a   *)
(* row, a row lies below a directory, a live one below a live one, names   *)
(* are different, and no entries lie below each other.                     *)
IsTree(T) ==
    LET rows == {n \in Ids : T[n] # Nil}
        live == {n \in rows : T[n].live}
    IN  /\ T \in [Ids -> Row \cup {Nil}]
        /\ \A n \in rows :
            /\ T[n].kind = "link" => T[n].link # 0
            /\ T[n].parent # 0 => T[n].parent \in rows /\ T[T[n].parent].kind = "dir"
        /\ \A n \in live : T[n].parent # 0 => T[n].parent \in live
        /\ \A n, m \in live : T[n].parent = T[m].parent /\ T[n].name = T[m].name => n = m
        /\ \A S \in SUBSET live : (\A n \in S : T[n].parent \in S) => S = {}

(* Earlier requests have met no race, see Allowed.                         *)
ASSUME NamespaceAssumption ==
    /\ MaxInode \in Nat /\ MaxCalls \in Nat
    /\ \A p \in Paths : p \in Seq(Names) /\ Len(p) > 0
    /\ Nil \notin Row
    /\ \A T \in Tables : IsTree(T)

(* A request: the walk of a lookup (rest still to resolve below at), and   *)
(* what it has found out so far.  0 is the root, and "not known yet".      *)
NoReq == [op |-> "none", pc |-> "none", rest |-> <<>>, at |-> 0, path |-> <<>>,
          kind |-> "file", node |-> 0, dir |-> 0, dst |-> 0, link |-> 0, ids |-> {}]

Walking   == {"parent", "probe", "open", "target", "victim", "src", "dst"}
Following == {"parent", "open", "target"}
Request ==
    [op : {"none", "mkdir", "create", "symlink", "remove", "rename", "restore", "purge"},
     pc : Walking \cup {"none", "insert", "count", "mark", "climb", "move",
                        "home", "conflict", "restore", "purge"},
     rest : Seq(Names), at : 0..MaxInode, path : Seq(Names), kind : Kind,
     node : 0..MaxInode, dir : 0..MaxInode, dst : 0..MaxInode, link : 0..MaxInode,
     ids : SUBSET Ids]

TypeOK ==
    /\ inode \in [Ids -> Row \cup {Nil}]
    /\ last \in 0..MaxInode
    /\ req \in [Sessions -> Request]
    /\ calls \in 0..MaxCalls
    /\ \A n \in Ids : n > last => inode[n] = Nil

Init ==
    /\ inode \in Tables
    /\ last \in 0..MaxInode /\ {n \in Ids : inode[n] # Nil} = 1..last
    /\ req = [s \in Sessions |-> NoReq]
    /\ calls = 0
-----------------------------------------------------------------------------
Exists(n) == inode[n] # Nil
Live(n)   == Exists(n) /\ inode[n].live
Kids(d)   == {n \in Ids : Live(n) /\ inode[n].parent = d}
Named(d, a) == {n \in Kids(d) : inode[n].name = a}
Dead      == {n \in Ids : Exists(n) /\ ~inode[n].live}

ParentPath(p) == SubSeq(p, 1, Len(p) - 1)
BaseName(p)   == p[Len(p)]

(* The unique index of db.go: a live entry below a directory.  The root is *)
(* a NULL parent, and NULLs are all different.                             *)
Indexed(d, a, except) == d # 0 /\ Named(d, a) \ except # {}

(* The request is now r; the rows stay.                                    *)
Goes(s, r) == req' = [req EXCEPT ![s] = r] /\ UNCHANGED <<inode, last, calls>>

(* An idle session takes a request.                                        *)
Start(s, r) ==
    /\ calls < MaxCalls
    /\ req' = [req EXCEPT ![s] = r]
    /\ calls' = calls + 1
    /\ UNCHANGED <<inode, last>>
-----------------------------------------------------------------------------
(* requireDir has found d, the directory to add an entry to.               *)
AtDir(r, d) ==
    CASE r.op = "create" -> [r EXCEPT !.pc = "insert", !.rest = <<>>, !.at = 0, !.dir = d]
      [] r.op = "rename" /\ r.kind = "dir" /\ d # 0 ->
            IF d = r.node THEN NoReq
            ELSE [r EXCEPT !.pc = "climb", !.rest = <<>>, !.at = d, !.dir = d]
      [] OTHER ->
            [r EXCEPT !.pc = IF r.op = "rename" THEN "dst" ELSE "probe",
                      !.rest = r.path, !.at = 0, !.dir = d]

(* requireDir(parentPath(path)): the root needs no query.                  *)
ToParent(r) ==
    IF Len(r.path) = 1 THEN AtDir(r, 0)
    ELSE [r EXCEPT !.pc = "parent", !.rest = ParentPath(r.path), !.at = 0]

(* The lookup ends at n.                                                   *)
Found(r, n) ==
    LET isDir == inode[n].kind = "dir" IN
    CASE r.pc = "parent" -> IF isDir THEN AtDir(r, n) ELSE NoReq
      [] r.pc = "target" -> ToParent([r EXCEPT !.link = n])
      [] r.pc = "victim" -> [r EXCEPT !.pc = IF isDir THEN "count" ELSE "mark",
                                      !.rest = <<>>, !.at = 0, !.node = n]
      [] r.pc = "src"    -> ToParent([r EXCEPT !.node = n, !.kind = inode[n].kind])
      [] r.pc = "dst"    -> IF n = r.node \/ isDir # (r.kind = "dir") THEN NoReq
                            ELSE [r EXCEPT !.pc = IF isDir THEN "count" ELSE "move",
                                           !.rest = <<>>, !.at = 0, !.dst = n]
      [] OTHER           -> NoReq       \* ErrExist, or an entry that is opened

(* The lookup ends with ErrNotExist.                                       *)
Missed(r) ==
    CASE r.pc = "open"  -> ToParent(r)
      [] r.pc = "probe" -> [r EXCEPT !.pc = "insert", !.rest = <<>>, !.at = 0]
      [] r.pc = "dst"   -> [r EXCEPT !.pc = "move", !.rest = <<>>, !.at = 0]
      [] OTHER          -> NoReq

(* lookup: one query for one name below a live or dead parent; First takes *)
(* the smallest id.  A link at the end is followed when asked for.         *)
LookupStep(s) ==
    LET r == req[s]
        F == Named(r.at, Head(r.rest))
        n == Min(F)
    IN  /\ r.pc \in Walking /\ r.rest # <<>>
        /\ \/ F = {} /\ Goes(s, Missed(r))
           \/ /\ F # {} /\ Len(r.rest) > 1
              /\ Goes(s, IF inode[n].kind = "dir"
                         THEN [r EXCEPT !.rest = Tail(r.rest), !.at = n] ELSE NoReq)
           \/ /\ F # {} /\ Len(r.rest) = 1
              /\ Goes(s, IF inode[n].kind = "link" /\ r.pc \in Following
                         THEN [r EXCEPT !.rest = <<>>, !.at = inode[n].link] ELSE Found(r, n))

(* A link names the row of its target, deleted or not.                     *)
FollowLink(s) ==
    LET r == req[s] IN
    /\ r.pc \in Following /\ r.rest = <<>>
    /\ Goes(s, IF Exists(r.at) THEN Found(r, r.at) ELSE Missed(r))
-----------------------------------------------------------------------------
(* Mkdir, Open with O_CREATE, Symlink.                                     *)
Mkdir(s, p) == Start(s, ToParent([NoReq EXCEPT !.op = "mkdir", !.kind = "dir", !.path = p]))

Create(s, p) ==
    Start(s, [NoReq EXCEPT !.op = "create", !.kind = "file", !.path = p, !.pc = "open", !.rest = p])

Symlink(s, t, p) ==
    Start(s, [NoReq EXCEPT !.op = "symlink", !.kind = "link", !.path = p, !.pc = "target", !.rest = t])

(* Mutant: the row takes an id that the next row takes again.              *)
Insert_IdKept(s) ==
    LET r == req[s] IN
    /\ r.pc = "insert" /\ last < MaxInode
    /\ req' = [req EXCEPT ![s] = NoReq]
    /\ inode' = [inode EXCEPT ![last + 1] =
          [parent |-> r.dir, name |-> BaseName(r.path), kind |-> r.kind,
           link |-> r.link, live |-> TRUE]]
    /\ UNCHANGED <<last, calls>>

(* The row of the new entry, unless the unique index refuses it.           *)
Insert(s) ==
    LET r == req[s] IN
    /\ r.pc = "insert" /\ last < MaxInode
    /\ req' = [req EXCEPT ![s] = NoReq]
    /\ IF Indexed(r.dir, BaseName(r.path), {})
       THEN UNCHANGED <<inode, last>>
       ELSE /\ last' = last + 1
            /\ inode' = [inode EXCEPT ![last + 1] =
                  [parent |-> r.dir, name |-> BaseName(r.path), kind |-> r.kind,
                   link |-> r.link, live |-> TRUE]]
    /\ UNCHANGED calls

(* Remove: look up, count the children of a directory, markDeleted.        *)
Remove(s, p) == Start(s, [NoReq EXCEPT !.op = "remove", !.path = p, !.pc = "victim", !.rest = p])

(* Mutant: nobody counts.                                                  *)
CountChildren_Never(s) ==
    /\ req[s].pc = "count"
    /\ Goes(s, [req[s] EXCEPT !.pc = IF req[s].op = "remove" THEN "mark" ELSE "move"])

(* The count of Remove and of Rename: a directory must be empty.           *)
CountChildren(s) ==
    LET r == req[s]
        d == IF r.op = "remove" THEN r.node ELSE r.dst
    IN  /\ r.pc = "count"
        /\ Goes(s, IF Kids(d) # {} THEN NoReq
                   ELSE [r EXCEPT !.pc = IF r.op = "remove" THEN "mark" ELSE "move"])

Die(n) == IF Exists(n) THEN [inode EXCEPT ![n].live = FALSE] ELSE inode

MarkDeleted(s) ==
    /\ req[s].pc = "mark"
    /\ inode' = Die(req[s].node)
    /\ req' = [req EXCEPT ![s] = NoReq]
    /\ UNCHANGED <<last, calls>>
-----------------------------------------------------------------------------
(* Rename: source, target directory, no descendant, target, transaction.   *)
Rename(s, p, q) ==
    /\ p # q
    /\ Start(s, [NoReq EXCEPT !.op = "rename", !.path = q, !.pc = "src", !.rest = p])

(* Mutant: a directory may go anywhere.                                    *)
Climb_Never(s) ==
    /\ req[s].pc = "climb"
    /\ Goes(s, [req[s] EXCEPT !.pc = "dst", !.rest = req[s].path, !.at = 0])

(* isDescendant: one query per ancestor; a missing row ends the climb.     *)
Climb(s) ==
    LET r == req[s] IN
    /\ r.pc = "climb"
    /\ Goes(s, IF Exists(r.at) /\ inode[r.at].parent = r.node THEN NoReq
               ELSE IF Exists(r.at) /\ inode[r.at].parent # 0
               THEN [r EXCEPT !.at = inode[r.at].parent]
               ELSE [r EXCEPT !.pc = "dst", !.rest = r.path, !.at = 0])

(* The transaction moves the row it looked up, wherever it is by now, and  *)
(* fails as a whole when the unique index refuses the new place.           *)
MoveEntry(s) ==
    LET r == req[s]
        a == BaseName(r.path)
    IN  /\ r.pc = "move"
        /\ inode' = IF Live(r.node) /\ Indexed(r.dir, a, {r.node, r.dst}) THEN inode
                    ELSE [n \in Ids |->
                            IF ~Exists(n) THEN Nil
                            ELSE IF n = r.node THEN [inode[n] EXCEPT !.parent = r.dir, !.name = a]
                            ELSE IF n = r.dst THEN [inode[n] EXCEPT !.live = FALSE]
                            ELSE inode[n]]
        /\ req' = [req EXCEPT ![s] = NoReq]
        /\ UNCHANGED <<last, calls>>
-----------------------------------------------------------------------------
(* Restore: deletedInode, the old parent, ensureNoConflict, transaction.   *)
Restore(s, n) ==
    /\ Start(s, [NoReq EXCEPT !.op = "restore", !.node = n, !.dir = inode[n].parent,
                              !.path = <<inode[n].name>>,
                              !.pc = IF inode[n].parent = 0 THEN "conflict" ELSE "home"])

FindHome(s) ==
    LET r == req[s] IN
    /\ r.pc = "home"
    /\ Goes(s, [r EXCEPT !.pc = "conflict",
                         !.dir = IF Live(r.dir) /\ inode[r.dir].kind = "dir" THEN r.dir ELSE 0])

EnsureNoConflict(s) ==
    LET r == req[s] IN
    /\ r.pc = "conflict"
    /\ Goes(s, IF Named(r.dir, BaseName(r.path)) # {} THEN NoReq
               ELSE [r EXCEPT !.pc = "restore"])

Undelete(s) ==
    LET r == req[s] IN
    /\ r.pc = "restore"
    /\ inode' = IF ~Exists(r.node) \/ Indexed(r.dir, inode[r.node].name, {r.node}) THEN inode
                ELSE [inode EXCEPT ![r.node].live = TRUE, ![r.node].parent = r.dir]
    /\ req' = [req EXCEPT ![s] = NoReq]
    /\ UNCHANGED <<last, calls>>

(* Purge takes one entry of the trash, PurgeAll and SweepRecycle list all  *)
(* or some of it and purge the ids one by one.                             *)
Purge(s, N) ==
    /\ N # {}
    /\ Start(s, [NoReq EXCEPT !.op = "purge", !.pc = "purge", !.ids = N])

(* Mutant: the rows of a directory's entries stay.                         *)
Subtree_Top(n) == {n}

(* collectSubtree: every row below n, live or not.                         *)
Subtree(n) ==
    LET f[k \in 0..MaxInode] ==
            IF k = 0 THEN {n}
            ELSE f[k - 1] \cup {m \in Ids : Exists(m) /\ inode[m].parent \in f[k - 1]}
    IN  f[MaxInode]

PurgeInode(s, n) ==
    LET left == req[s].ids \ {n} IN
    /\ req[s].pc = "purge"
    /\ inode' = [m \in Ids |-> IF m \in Subtree(n) THEN Nil ELSE inode[m]]
    /\ req' = [req EXCEPT ![s] = IF left = {} THEN NoReq ELSE [req[s] EXCEPT !.ids = left]]
    /\ UNCHANGED <<last, calls>>

(* A query or a transaction fails, or the process stops: the request ends. *)
FailRequest(s) == Goes(s, NoReq)
=============================================================================
