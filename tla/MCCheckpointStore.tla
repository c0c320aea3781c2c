------------------------- MODULE MCCheckpointStore -------------------------
(***************************************************************************)
(* Instances of CheckpointStore for TLC.                                   *)
(***************************************************************************)
EXTENDS CheckpointStoreInv, TLC

CONSTANTS w1, w2

\* Concurrent writers, no two of them on the same version.
Disjoint == {<<w1, 1>>, <<w2, 2>>}

\* Writers that do not know of each other.
Shared == {<<w1, 1>>, <<w2, 1>>}

Symmetry == Permutations(Contents) \cup Permutations(Temps)

=============================================================================
