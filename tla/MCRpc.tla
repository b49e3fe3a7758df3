------------------------------- MODULE MCRpc -------------------------------
EXTENDS Rpc, TLC

\* A server that refuses every request is checked without TLS only.
MCInit == Init /\ (tls => serves)

MCSpec == MCInit /\ [][Next]_vars /\ Fairness
============================================================================
