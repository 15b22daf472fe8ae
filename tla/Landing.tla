-------------------------------- MODULE Landing --------------------------------
(***************************************************************************)
(* What an approval promises to those who read the base branch, with no git   *)
(* command, no row and no call: the work of a lineage comes to the base       *)
(* branch all at once, nothing is added to a lineage that is there, only work  *)
(* that is there is ever reported as done, and what was reported as done      *)
(* never leaves the base branch again.                                        *)
(***************************************************************************)
CONSTANTS Lineage, Parts,   \* and the pieces that the work of one may have
          Revocable    \* whether what came to the base branch may leave it

VARIABLES work,      \* the pieces committed, by lineage
          landed,    \* those of them on the base branch
          closed     \* the lineages whose first run is done

vars == <<work, landed, closed>>

Init ==
  /\ work \in [Lineage -> SUBSET Parts]
  /\ landed = [t \in Lineage |-> {}]
  /\ closed = {}

Commit(t) ==
  /\ landed[t] = {}
  /\ \E n \in Parts \ work[t] : work' = [work EXCEPT ![t] = @ \cup {n}]
  /\ UNCHANGED <<landed, closed>>

Land(t) ==
  /\ landed[t] = {} /\ work[t] # {}
  /\ landed' = [landed EXCEPT ![t] = work[t]]
  /\ UNCHANGED <<work, closed>>

Unland(t) ==
  /\ Revocable /\ t \notin closed
  /\ landed' = [landed EXCEPT ![t] = {}]
  /\ UNCHANGED <<work, closed>>

Close(t) ==
  /\ landed[t] = work[t] /\ work[t] # {}
  /\ closed' = closed \cup {t}
  /\ UNCHANGED <<work, landed>>

\* A run that is done may be reported as failed after all.
Withdraw(S) ==
  /\ closed' = closed \ S
  /\ UNCHANGED <<work, landed>>

Next ==
  \/ \E t \in Lineage : Commit(t) \/ Land(t) \/ Unland(t) \/ Close(t)
  \/ \E S \in SUBSET Lineage : Withdraw(S)

Spec == Init /\ [][Next]_vars
================================================================================
