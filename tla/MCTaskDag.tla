------------------------------ MODULE MCTaskDag ------------------------------
(* Instances of TaskDag for TLC. *)
EXTENDS TaskDag

CONSTANTS t1, t2, t3

TasksMC == {t1, t2, t3}
Chain == t1 :> {} @@ t2 :> {t1} @@ t3 :> {t2}

\* A chain created backwards, its first two tasks, a bakeoff of two candidates.
AcyclicMC == {[list |-> <<t3, t2, t1>>, deps |-> Chain, blind |-> {}],
              [list |-> <<t1, t2>>, deps |-> Chain, blind |-> {}],
              [list |-> <<t1, t2, t3>>, blind |-> {t3},
               deps |-> t1 :> {} @@ t2 :> {} @@ t3 :> {t1, t2}]}
================================================================================
