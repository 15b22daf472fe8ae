--------------------------- MODULE MCPostCompletion ---------------------------
EXTENDS PostCompletion

AllMC == {"cancel", "retry", "approve", "reject"}
EitherMC == {TRUE, FALSE}
================================================================================
