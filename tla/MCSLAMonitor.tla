---------------------------- MODULE MCSLAMonitor ----------------------------
(***************************************************************************)
(* Small instances of SLAMonitor: executions with different deadlines.     *)
(***************************************************************************)
EXTENDS SLAMonitor

CONSTANTS e1, e2, w1, w2

MCDeadline == [e \in Executions |-> IF e = e1 THEN 0 ELSE 1]

=============================================================================
