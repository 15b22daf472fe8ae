-------------------------------- MODULE MCApproval --------------------------------
\* A lineage of a run (1) and its follow-up (2), and a run of another task (3).
EXTENDS Approval, TLC

ParentMC == <<0, 1, 0>>
BesideMC == {"approve", "rebase"}
ApprovesMC == {"approve"}
SymmetryMC == Permutations(Calls)
================================================================================
