---------------------------- MODULE FencedRegister ----------------------------
(***************************************************************************)
(* What the attempt lease promises to the rest of the factory, with no      *)
(* clock, no table and no processes: every run has at most one holder,      *)
(* each grant opens an epoch above every epoch granted before it, and the   *)
(* durable row of a run is only ever written under the epoch of its holder. *)
(***************************************************************************)
EXTENDS Naturals

CONSTANTS Run, Owner, NoOwner

VARIABLES holder,  \* the owner that may write the run's row
          epoch,   \* the epoch of the last grant of the run (0: never granted)
          value    \* the epoch of the last write of the run's row

vars == <<holder, epoch, value>>

Init ==
  /\ holder = [r \in Run |-> NoOwner]
  /\ epoch = [r \in Run |-> 0]
  /\ value = [r \in Run |-> 0]

\* The holders of a set of runs lose them.
Revoke(S) ==
  /\ holder' = [r \in Run |-> IF r \in S THEN NoOwner ELSE holder[r]]
  /\ UNCHANGED <<epoch, value>>

\* A free run, or one that is revoked in the same step, gets a new holder under
\* an epoch that no run has had.
Grant(r, o, S) ==
  /\ holder[r] = NoOwner \/ r \in S
  /\ \A q \in Run : epoch[q] < epoch'[r]
  /\ epoch' = [epoch EXCEPT ![r] = epoch'[r]]
  /\ holder' = [q \in Run |-> IF q = r THEN o ELSE IF q \in S THEN NoOwner ELSE holder[q]]
  /\ UNCHANGED value

\* The holder of a run writes its row.
Commit(r) ==
  /\ holder[r] # NoOwner
  /\ value' = [value EXCEPT ![r] = epoch[r]]
  /\ UNCHANGED <<holder, epoch>>

Next ==
  \/ \E S \in SUBSET Run : Revoke(S)
  \/ \E r \in Run, o \in Owner, S \in SUBSET Run : Grant(r, o, S)
  \/ \E r \in Run : Commit(r)

Spec == Init /\ [][Next]_vars
================================================================================
