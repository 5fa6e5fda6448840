------------------------------- MODULE MCPool --------------------------------
(***************************************************************************)
(* Instances of Pool for the model checker.                                *)
(***************************************************************************)
EXTENDS Pool, TLC

(* Contents, writers and objects are interchangeable in Pool.              *)
Symmetry == Permutations(Data) \cup Permutations(Writers) \cup Permutations(Objects)
=============================================================================
