---------------------------- MODULE MCAttemptLease ----------------------------
\* Two runs, a factory process and its successor, a clock that
\* outlives one lease and its renewal.
EXTENDS AttemptLease

CONSTANTS r1, r2, p1, p2

RunsMC == {r1, r2}
OwnersMC == {p1, p2}
================================================================================
