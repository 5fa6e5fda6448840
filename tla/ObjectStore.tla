---------------------------- MODULE ObjectStore ------------------------------
(***************************************************************************)
(* What a pool promises to the file layer: a map from version_chunks keys  *)
(* to slice contents.  An entry changes when its slice is stored or a      *)
(* purge takes it, and at no other time.                                   *)
(***************************************************************************)
CONSTANTS Objects, Data, Nil
VARIABLE content

Init == content = [o \in Objects |-> Nil]

Put(o)   == \E v \in Data : content' = [content EXCEPT ![o] = v]
Purge(O) == content' = [o \in Objects |-> IF o \in O THEN Nil ELSE content[o]]

Next == \/ \E o \in Objects : Put(o)
        \/ \E O \in SUBSET Objects : Purge(O)
Spec == Init /\ [][Next]_content
=============================================================================
