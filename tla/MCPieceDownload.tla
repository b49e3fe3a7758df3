-------------------------- MODULE MCPieceDownload --------------------------
(* Instances of a multi-connection transfer for TLC.                        *)
EXTENDS PieceDownload, TLC

Symmetry == Permutations(Conns)

=============================================================================
