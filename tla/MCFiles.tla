------------------------------ MODULE MCFiles --------------------------------
(* What TLC needs on top of Files.                                         *)
EXTENDS Files, TLC

\* Written across a slice boundary, or over what another write left there.
SlicePayloads == {<<1, 1>>, <<0, 0>>}

\* One byte, two contents: enough to tell the versions of a file apart.
BytePayloads == {<<1>>, <<2>>}

FileSymmetry == Permutations(Handles) \cup Permutations(Chunks)
=============================================================================
