------------------------- MODULE MCProtocolSession -------------------------
(* Instances of the download sessions for TLC.                              *)
EXTENDS ProtocolSession

\* Conditional requests and preallocation, which do not meet, one at a time, in
\* front of every kind of server.
MCConfigs == {c \in Config : ~(c.conditional /\ c.prealloc)}

=============================================================================
