------------------------- MODULE MCDownloadManager -------------------------
(* Instances of the download manager on its queue for TLC.                  *)
EXTENDS DownloadManager, TLC

\* All goroutines that report to the queue.
MCWorkers == Downloads \cup Monitors

Symmetry == Permutations(Tasks) \cup Permutations(Handlers)
            \cup Permutations(Downloads) \cup Permutations(Monitors)

=============================================================================
