----------------------------- MODULE MCRunControl -----------------------------
EXTENDS RunControl

OperatorMC == {"pause", "redirect", "cancel", "cap", "retry", "extend", "deny"}

\* When the last run has been started, agents and their worktrees only become fewer.
Open == n < MaxRuns \/ \E i \in Run : spawn[i].by # "none"
================================================================================
