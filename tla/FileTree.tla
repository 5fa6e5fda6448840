------------------------------- MODULE FileTree -------------------------------
(***************************************************************************)
(* What the namespace of a share promises: a tree of directories in which  *)
(* every operation takes effect at one moment, judged by the tree of that  *)
(* moment.  Entries go to the trash first and leave it restored or purged. *)
(***************************************************************************)
EXTENDS Naturals, FiniteSets

CONSTANTS Names, Tables, MaxInode, Nil

VARIABLE inode      \* id -> Nil, or the row of an entry that exists or existed

Ids  == 1..MaxInode
Kind == {"dir", "file", "link"}
Row  == [parent : 0..MaxInode, name : Names, kind : Kind,
         link : 0..MaxInode, live : BOOLEAN]

Exists(n) == inode[n] # Nil
Live(n)   == Exists(n) /\ inode[n].live
IsDir(d)  == d = 0 \/ (Live(d) /\ inode[d].kind = "dir")

Kids(d)     == {n \in Ids : Live(n) /\ inode[n].parent = d}
Named(d, a) == {n \in Kids(d) : inode[n].name = a}

(* The rows below n, those in the trash included.                          *)
Below(n) ==
    LET f[k \in 0..MaxInode] ==
            IF k = 0 THEN {n}
            ELSE f[k - 1] \cup {m \in Ids : Exists(m) /\ inode[m].parent \in f[k - 1]}
    IN  f[MaxInode]

Add(n, d, a, k, l) ==
    /\ ~Exists(n)
    /\ IsDir(d) /\ Named(d, a) = {}
    /\ inode' = [inode EXCEPT ![n] = [parent |-> d, name |-> a, kind |-> k, link |-> l, live |-> TRUE]]

Trash(n) ==
    /\ Live(n) /\ Kids(n) = {}
    /\ inode' = [inode EXCEPT ![n].live = FALSE]

(* n becomes d/a; the entry that has that name is replaced.                *)
Move(n, d, a) ==
    LET R == Named(d, a) \ {n} IN
    /\ Live(n) /\ IsDir(d) /\ d \notin Below(n)
    /\ \A x \in R : /\ (inode[x].kind = "dir") = (inode[n].kind = "dir")
                    /\ Kids(x) = {}
    /\ inode' = [x \in Ids |->
                    IF x \in R THEN [inode[x] EXCEPT !.live = FALSE]
                    ELSE IF x = n THEN [inode[n] EXCEPT !.parent = d, !.name = a]
                    ELSE inode[x]]

Restore(n, d) ==
    /\ Exists(n) /\ ~Live(n)
    /\ d \in {0, inode[n].parent} /\ IsDir(d) /\ Named(d, inode[n].name) = {}
    /\ inode' = [inode EXCEPT ![n].live = TRUE, ![n].parent = d]

Purge(n) ==
    /\ Exists(n) /\ ~Live(n)
    /\ inode' = [x \in Ids |-> IF x \in Below(n) THEN Nil ELSE inode[x]]

Init == inode \in Tables

Next ==
    /\ inode' # inode
    /\ \E n \in Ids :
        \/ \E d \in 0..MaxInode, a \in Names, k \in Kind, l \in 0..MaxInode : Add(n, d, a, k, l)
        \/ \E d \in 0..MaxInode, a \in Names : Move(n, d, a)
        \/ \E d \in 0..MaxInode : Restore(n, d)
        \/ Trash(n)
        \/ Purge(n)

Spec == Init /\ [][Next]_inode
=============================================================================
