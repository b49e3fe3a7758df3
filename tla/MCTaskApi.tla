----------------------------- MODULE MCTaskApi -----------------------------
(* Two tasks for one handler and the autosave loop, on a disk that works;  *)
(* one task for two handlers, faults of the disk and a restart.            *)
EXTENDS TaskApi
CONSTANTS t1, h1
TwoTasks ==
    /\ status = [t \in Tasks |-> "none"]
    /\ call = [c \in Callers |-> IF c \in Handlers \ {h1} THEN Elsewhere ELSE Idle]
    /\ faults = MaxFaults /\ restarts = MaxRestarts
OneTask ==
    /\ status = [t \in Tasks |-> IF t = t1 THEN "none" ELSE "gone"]
    /\ call = [c \in Callers |-> Idle]
    /\ faults = 0 /\ restarts = 0
MCInit == Init /\ (TwoTasks \/ OneTask)
MCSpec == MCInit /\ [][Next]_vars
=============================================================================
