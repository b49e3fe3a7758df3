----------------------------- MODULE AtomicFile -----------------------------
(***************************************************************************)
(* What TaskStore and ControlFileStore promise about the file of one task: *)
(* it holds a complete value or is absent, it changes in one step, and a   *)
(* crash of the machine leaves one of the values it has had since it was   *)
(* last known to be on disk.                                               *)
(***************************************************************************)
CONSTANTS Values, Absent

VARIABLES value,    \* what a reader finds
          survivors \* what a reader may find after a crash of the machine

Init == value = Absent /\ survivors = {Absent}

Write(v) == value' = v /\ survivors' = survivors \cup {v}

Flush == survivors' = {value} /\ UNCHANGED value

Crash == value' \in survivors /\ survivors' = {value'}

Next == (\E v \in Values \cup {Absent} : Write(v)) \/ Flush \/ Crash

Spec == Init /\ [][Next]_<<value, survivors>>

=============================================================================
