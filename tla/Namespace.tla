------------------------------ MODULE Namespace -------------------------------
(***************************************************************************)
(* The requests on one share together, the races that are left out, and    *)
(* the properties.                                                         *)
(***************************************************************************)
EXTENDS NamespaceOps

(* A request arrives.                                                      *)
Arrive(s) ==
    /\ req[s].op = "none"
    /\ \/ \E p \in Paths : Mkdir(s, p) \/ Create(s, p) \/ Remove(s, p)
       \/ \E p, q \in Paths : Symlink(s, p, q) \/ Rename(s, p, q)
       \/ \E n \in Dead : Restore(s, n)
       \/ \E N \in SUBSET Dead : Purge(s, N)

(* Its next query or transaction.                                          *)
Continue(s) ==
    /\ req[s].op # "none"
    /\ \/ LookupStep(s) \/ FollowLink(s) \/ Insert(s)
       \/ CountChildren(s) \/ MarkDeleted(s) \/ Climb(s) \/ MoveEntry(s)
       \/ FindHome(s) \/ EnsureNoConflict(s) \/ Undelete(s)
       \/ \E n \in req[s].ids : PurgeInode(s, n)
       \/ FailRequest(s)

(* The place a request has checked, or is checking, to put an entry at.    *)
Adding(s) ==
    \/ req[s].pc \in {"probe", "insert", "climb", "dst", "move", "conflict", "restore"}
    \/ req[s].op = "rename" /\ req[s].pc = "count"
Place(s)  == <<req[s].dir, BaseName(req[s].path)>>

(* The directories a request is about to delete, and all the entries whose *)
(* rows it is about to change.                                             *)
Emptying(s) ==
    CASE req[s].pc = "mark"  -> {req[s].node}
      [] req[s].pc = "move"  -> {req[s].dst} \ {0}
      [] req[s].pc = "purge" -> UNION {Subtree(n) : n \in req[s].ids}
      [] OTHER               -> {}
Changing(s) == ({req[s].node, req[s].dst} \ {0}) \cup Emptying(s)

MovesDir(s) == req[s].op = "rename" /\ req[s].kind = "dir" /\ Adding(s)

(* A name is free for Open when lookup followed a link into nothing.       *)
AtDanglingLink(s) ==
    req[s].op = "create" /\ Adding(s) /\ req[s].dir = 0 /\ Named(0, BaseName(req[s].path)) # {}

(* Rename resolves its whole path once more after it has found the         *)
(* directory, and the path may lead to another directory by then.          *)
Astray(s) == req[s].dst \in {n \in Ids : Exists(n) /\ inode[n].parent # req[s].dir}

(* The races of check and act, one class each:                             *)
(*   name   two requests put an entry of one name into the root, where     *)
(*          the unique index does not apply;                               *)
(*   move   two directories are moved at a time;                           *)
(*   entry  two requests change one entry;                                 *)
(*   empty  an entry is added to a directory that is being deleted, or     *)
(*          that requireDir finds deleted at the end of a link;            *)
(*   link   a file is created in the root under the name of a link to a    *)
(*          purged entry;                                                  *)
(*   path   the entry that a rename replaces is not in the directory that  *)
(*          it moves to.                                                   *)
Allowed ==
    /\ \A s, t \in Sessions : s # t =>
        /\ "name" \in Overlaps \/ ~(Adding(s) /\ Adding(t) /\ Place(s) = Place(t) /\ req[s].dir = 0)
        /\ "move" \in Overlaps \/ ~(MovesDir(s) /\ MovesDir(t))
        /\ "entry" \in Overlaps \/ Changing(s) \cap Changing(t) = {}
        /\ "empty" \in Overlaps \/ ~(Adding(s) /\ req[s].dir \in Emptying(t))
    /\ \A s \in Sessions :
        /\ "empty" \in Overlaps \/ ~(Adding(s) /\ req[s].dir \in Dead)
        /\ "link" \in Overlaps \/ ~AtDanglingLink(s)
        /\ "path" \in Overlaps \/ ~Astray(s)

Next == (\E s \in Sessions : Arrive(s) \/ Continue(s)) /\ Allowed'

Spec == Init /\ [][Next]_vars
-----------------------------------------------------------------------------
(* Properties.                                                             *)

(* Every operation is one legal step on the tree at the moment its         *)
(* transaction commits, whatever the other requests did since it looked:   *)
(* no entry in a deleted directory, no second entry of a name, no          *)
(* directory below itself, no purge of a live entry, no replacement        *)
(* without the entry that replaces.                                        *)
Tree == INSTANCE FileTree
ImplementsTree == Tree!Spec

(* The entries a walk down from the root arrives at.                       *)
Reachable ==
    LET f[k \in 0..MaxInode] ==
            IF k = 0 THEN {0}
            ELSE f[k - 1] \cup UNION {Kids(d) : d \in {m \in f[k - 1] :
                                        m = 0 \/ inode[m].kind = "dir"}}
    IN  f[MaxInode]

(* A user reaches every live entry by a path, and the path names no other: *)
(* nothing is lost in a deleted directory or a cycle of renames.           *)
OnePathEach ==
    /\ {n \in Ids : Live(n)} \subseteq Reachable
    /\ \A n, m \in Ids : Live(n) /\ Live(m) /\ n # m =>
            inode[n].parent # inode[m].parent \/ inode[n].name # inode[m].name

(* The directory of every row, in the trash or not, still has its row: a   *)
(* purge leaves nothing behind that no later purge would find.             *)
PurgesWholeSubtrees ==
    \A n \in Ids : Exists(n) => inode[n].parent = 0 \/ Exists(inode[n].parent)
=============================================================================
