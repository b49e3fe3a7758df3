----------------------------- MODULE MCCluster -----------------------------
(* Two tasks for the scheduler alone, whose nodes may all become           *)
(* unavailable; one task and one update when the failover runs too.        *)
EXTENDS Cluster
CONSTANT t1
MCInit ==
    /\ Init
    /\ submitted = IF stopped THEN {} ELSE {t1}
    /\ updates = IF stopped THEN 0 ELSE 1
MCSpec == MCInit /\ [][Next]_vars /\ Fairness
=============================================================================
