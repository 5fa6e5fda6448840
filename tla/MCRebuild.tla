------------------------------- MODULE MCRebuild -------------------------------
(***************************************************************************)
(* Instances of Rebuild for the model checker.                             *)
(***************************************************************************)
EXTENDS Rebuild, TLC

Symmetry == Permutations(Writers)
=============================================================================
