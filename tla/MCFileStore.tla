---------------------------- MODULE MCFileStore ----------------------------
(* Instances of the task file for TLC.                                      *)
EXTENDS FileStore, TLC

Symmetry == Permutations(Stores) \cup Permutations(Values) \cup Permutations(Inodes)

=============================================================================
