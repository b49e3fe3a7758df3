------------------------------ MODULE MCGossip ------------------------------
EXTENDS Gossip
CONSTANTS n1, n2, n3
OneSeed == [n \in Nodes |-> IF n = n1 THEN {} ELSE {n1}]
=============================================================================
