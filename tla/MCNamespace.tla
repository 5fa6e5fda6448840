----------------------------- MODULE MCNamespace ------------------------------
(***************************************************************************)
(* Instances of Namespace for the model checker.                           *)
(***************************************************************************)
EXTENDS Namespace, TLC

(* Paths of up to three names that change at every level.                  *)
ZigZag == {p \in UNION {[1..k -> Names] : k \in 1..3} :
              \A k \in 2..Len(p) : p[k] # p[k - 1]}

(* A new share; a directory in another one; a file and its directory, both *)
(* removed; a link to a file that has been removed.                        *)
Entry(d, a, k, live) == [parent |-> d, name |-> a, kind |-> k, link |-> 0, live |-> live]
Left(rows) == [n \in Ids |-> IF n \in DOMAIN rows THEN rows[n] ELSE Nil]
EarlierTables ==
    {Left(<<>>)} \cup UNION {
        {Left(<<Entry(0, p[1], "dir", TRUE), Entry(1, p[2], "dir", TRUE)>>),
         Left(<<Entry(0, p[1], "dir", FALSE), Entry(1, p[2], "file", FALSE)>>),
         Left(<<Entry(0, p[1], "file", FALSE),
                [Entry(0, p[2], "link", TRUE) EXCEPT !.link = 1]>>)}
        : p \in {q \in Names \X Names : q[1] # q[2]}}

(* Names and sessions are interchangeable.                                 *)
Symmetry == Permutations(Names) \cup Permutations(Sessions)
=============================================================================
