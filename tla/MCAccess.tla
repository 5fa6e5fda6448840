------------------------------- MODULE MCAccess --------------------------------
(***************************************************************************)
(* Instances of Access for the model checker.                              *)
(***************************************************************************)
EXTENDS Access, TLC

LowerCase == [n \in Names |-> IF n = "Bob" THEN "bob" ELSE n]

Left(f, D, none) == [i \in D |-> IF i \in DOMAIN f THEN f[i] ELSE none]
Setup(users, tokens, shares, grants, files) ==
    [user |-> Left(users, UserIds, Nil), token |-> Left(tokens, TokenIds, 0),
     share |-> Left(shares, ShareIds, Nil),
     grant |-> [s \in ShareIds |-> IF s \in DOMAIN grants THEN Left(grants[s], UserIds, Nil)
                                   ELSE [u \in UserIds |-> Nil]],
     file |-> Left(files, ShareIds, Nil)]

Ann == [name |-> "ann", role |-> "admin"]
Bob == [name |-> "bob", role |-> "user"]
Row(e) == [enc |-> e, keyed |-> e, comp |-> "none"]
Text(e) == [comp |-> "none",
            slice |-> [i \in 1..2 |-> [comp |-> "none", seal |-> IF e THEN "key" ELSE "plain"]]]

(* Nothing; a plain share without a file or an encrypted one with a file,  *)
(* of an administrator and of a user who may write and has a token.        *)
EarlierSetups ==
    {Setup(<<>>, <<>>, <<>>, <<>>, <<>>)} \cup
    {Setup(<<Ann, Bob>>, <<2>>, <<Row(e)>>, << <<"admin", "write">> >>,
           IF e THEN <<Text(e)>> ELSE <<>>) : e \in BOOLEAN}

Symmetry == Permutations(Handlers) \cup Permutations(Clients)
=============================================================================
