---------------------------- MODULE MCTaskQueue ----------------------------
(* Instances of the task queue for TLC.                                     *)
EXTENDS TaskQueue, TLC

MCOffsets == {-1, 0, 1}

Symmetry == Permutations(Tasks) \cup Permutations(Handlers) \cup Permutations(Workers)

=============================================================================
