--------------------------- MODULE RunControl_proofs ---------------------------
(***************************************************************************)
(* For every retry budget and every bound: the types, the bill of the       *)
(* attempts, and the pause that nothing but an operator ends.               *)
(***************************************************************************)
EXTENDS RunControl, TLAPS

\* The end of a run changes the status of its row and keeps the types.
LEMMA ToRow ==
  ASSUME TypeOK, NEW i \in Run, NEW st \in Ended, NEW why \in {"none", "cap", "reached"}
  PROVE  /\ To(i, st, why) \in [Run -> Row]
         /\ st # "live"
         /\ \A j \in Run : To(i, st, why)[j].st = IF j = i THEN st ELSE run[j].st
<1> DEFINE r == [run[i] EXCEPT !.st = st, !.why = why]
<1>1. run \in [Run -> Row]
  BY DEF TypeOK
<1>2. r \in Row /\ r.st = st
  BY <1>1 DEF Row
<1>3. To(i, st, why) = [run EXCEPT ![i] = r]
  BY <1>1 DEF To, Row
<1>4. st # "live"
  BY DEF Ended, Resumable
<1> HIDE DEF r
<1> QED BY <1>1, <1>2, <1>3, <1>4

\* The row that the start-up reconcile leaves.
LEMMA RecoveredRow ==
  ASSUME TypeOK, NEW i \in Run
  PROVE  /\ Recovered(i) \in [Run -> Row]
         /\ Recovered(i)[i].st # "live"
         /\ \A j \in Run : Recovered(i)[j].st = IF j = i /\ Live(i) THEN "stalled" ELSE run[j].st
<1>1. CASE Live(i)
  BY <1>1, ToRow DEF Recovered, Ended, Resumable
<1>2. CASE ~Live(i)
  <2> DEFINE r == [run[i] EXCEPT !.why = "none"]
  <2>1. run \in [Run -> Row] /\ run[i].st # "live"
    BY <1>2 DEF TypeOK, Live
  <2>2. r \in Row /\ r.st = run[i].st
    BY <2>1 DEF Row
  <2>3. Recovered(i) = [run EXCEPT ![i] = r]
    BY <1>2, <2>1 DEF Recovered, Row
  <2> HIDE DEF r
  <2> QED BY <1>2, <2>1, <2>2, <2>3
<1> QED BY <1>1, <1>2

\* A dispatch adds one live row, when there is none.
LEMMA DispatchRow ==
  ASSUME TypeOK, NEW R \in [Run -> Row], NEW by \in Waiters,
         NEW from \in Run \cup {0}, NEW over \in Run \cup {0}, Dispatch(R, by, from, over)
  PROVE  /\ n' = n + 1 /\ n' \in 0 .. MaxRuns /\ n + 1 \in Run
         /\ run' \in [Run -> Row] /\ spawn' \in [Run -> SpawnRow]
         /\ \A j \in Run : R[j].st # "live"
         /\ \A j \in Run : run'[j].st = IF j = n + 1 THEN "live" ELSE R[j].st
<1> DEFINE tree == IF from = 0 THEN n + 1 ELSE R[from].tree
           r == [st |-> "live", tree |-> tree, why |-> "none", ran |-> FALSE]
<1>1. n' = n + 1 /\ n' \in 0 .. MaxRuns /\ n + 1 \in Run
  BY BoundsAssumption DEF TypeOK, Dispatch, Run
<1>2. r \in Row
  <2>1. from # 0 => R[from] \in Row
    OBVIOUS
  <2>2. tree \in Run \cup {0}
    BY <1>1, <2>1 DEF Row
  <2> HIDE DEF tree
  <2> QED BY <2>2 DEF Row
<1>3. run' = [R EXCEPT ![n + 1] = r]
  BY DEF Dispatch
<1>4. spawn' \in [Run -> SpawnRow]
  <2> DEFINE s == [by |-> by, from |-> from, over |-> over]
  <2>1. s \in SpawnRow
    BY DEF SpawnRow
  <2>2. spawn' = [spawn EXCEPT ![n + 1] = s] /\ spawn \in [Run -> SpawnRow]
    BY DEF Dispatch, TypeOK
  <2> HIDE DEF s
  <2> QED BY <2>1, <2>2
<1>5. \A j \in Run : R[j].st # "live"
  BY DEF Dispatch
<1>6. r.st = "live"
  OBVIOUS
<1> HIDE DEF r
<1> QED BY <1>1, <1>2, <1>3, <1>4, <1>5, <1>6

\* What DispatchRow says, when R are the rows that the caller leaves.
DispatchFacts(R) ==
  /\ n' = n + 1 /\ n' \in 0 .. MaxRuns /\ n + 1 \in Run
  /\ run' \in [Run -> Row] /\ spawn' \in [Run -> SpawnRow]
  /\ \A j \in Run : R[j].st # "live"
  /\ \A j \in Run : run'[j].st = IF j = n + 1 THEN "live" ELSE R[j].st

\* The reason of a failure is no status.
LEMMA EditedRow ==
  ASSUME TypeOK, NEW i \in Run
  PROVE  /\ [run EXCEPT ![i].why = "none"] \in [Run -> Row]
         /\ \A j \in Run : [run EXCEPT ![i].why = "none"][j].st = run[j].st
<1> DEFINE r == [run[i] EXCEPT !.why = "none"]
<1>1. run \in [Run -> Row]
  BY DEF TypeOK
<1>2. r \in Row /\ r.st = run[i].st
  BY <1>1 DEF Row
<1>3. [run EXCEPT ![i].why = "none"] = [run EXCEPT ![i] = r]
  BY <1>1 DEF Row
<1> HIDE DEF r
<1> QED BY <1>1, <1>2, <1>3

\* A spawn that is back makes no run live.
LEMMA SpawnedRow ==
  ASSUME TypeOK, NEW i \in Run, SpawnDone(i)
  PROVE  run' \in [Run -> Row] /\ \A j \in Run : run'[j].st = "live" => run[j].st = "live"
<1> DEFINE r == [run[i] EXCEPT !.ran = TRUE]
           R == [run EXCEPT ![i] = r]
           over == spawn[i].over
           o == [R[over] EXCEPT !.st = "failed", !.why = "none"]
<1>1. run \in [Run -> Row] /\ over \in Run \cup {0}
  BY DEF TypeOK, SpawnRow
<1>2. r \in Row /\ r.st = run[i].st
  BY <1>1 DEF Row
<1>3. R \in [Run -> Row] /\ \A j \in Run : R[j].st = run[j].st
  <2> HIDE DEF r
  <2> QED BY <1>1, <1>2
<1>4. [run EXCEPT ![i].ran = TRUE] = R
  BY <1>1 DEF Row
<1>5. over # 0 => o \in Row /\ o.st = "failed"
  <2>1. over # 0 => R[over] \in Row
    BY <1>1, <1>3
  <2>2. "failed" \in Ended
    BY DEF Ended
  <2> HIDE DEF R
  <2> QED BY <2>1, <2>2 DEF Row
<1>6. run' = IF over = 0 THEN R ELSE [R EXCEPT ![over] = o]
  <2>1. run' = IF over = 0 THEN R ELSE [R EXCEPT ![over].st = "failed", ![over].why = "none"]
    BY <1>4 DEF SpawnDone
  <2>2. over # 0 =>
          [R EXCEPT ![over].st = "failed", ![over].why = "none"] = [R EXCEPT ![over] = o]
    <3> HIDE DEF R
    <3> QED BY <1>1, <1>3 DEF Row
  <2> QED BY <2>1, <2>2
<1> HIDE DEF R, o
<1> QED BY <1>1, <1>3, <1>5, <1>6

\* The end of a run, or none, makes no run live.
LEMMA EndRow ==
  ASSUME TypeOK, NEW i \in Run,
         \/ run' = run
         \/ \E st \in Ended, why \in {"none", "cap", "reached"} :
              run' = To(i, st, why) /\ st # "live"
  PROVE  run' \in [Run -> Row] /\ \A j \in Run : run'[j].st = "live" => run[j].st = "live"
<1>1. CASE run' = run
  BY <1>1 DEF TypeOK
<1>2. ASSUME NEW st \in Ended, NEW why \in {"none", "cap", "reached"}, run' = To(i, st, why)
      PROVE  run' \in [Run -> Row] /\ \A j \in Run : run'[j].st = "live" => run[j].st = "live"
  BY <1>2, ToRow
<1> QED BY <1>1, <1>2

\* A call that readies the task keeps the types, and pays for what it grants.
LEMMA GrantTypes ==
  ASSUME TypeOK, Grant
  PROVE  /\ task' \in TaskRow /\ task'.st = "ready" /\ task'.retries = 0
         /\ grants' \in 0 .. MaxGrants
         /\ allowance' \in Nat /\ allowance' = allowance + MaxTaskRetries + 1
         /\ held' = FALSE /\ waived' \in 0 .. MaxRuns
  BY RetriesAssumption, BoundsAssumption DEF TypeOK, Grant, Ready, TaskRow

LEMMA TypeStep == TypeOK /\ [Next]_vars => TypeOK'
<1> USE RetriesAssumption, BoundsAssumption DEF bill, workers
<1> SUFFICES ASSUME TypeOK, [Next]_vars PROVE TypeOK'
  OBVIOUS
<1>1. CASE CycleDispatches
  <2>1. PICK from \in Resume : Dispatch(run, "cycle", from, 0)
    BY <1>1 DEF CycleDispatches
  <2>2. from \in Run \cup {0} /\ run \in [Run -> Row] /\ "cycle" \in Waiters /\ 0 \in Run \cup {0}
    BY DEF Resume, TypeOK, Waiters
  <2>3. DispatchFacts(run)
    BY <2>1, <2>2, DispatchRow DEF DispatchFacts
  <2> QED BY <1>1, <2>3 DEF DispatchFacts, CycleDispatches, Polls, TypeOK, TaskRow, Live
<1>2. CASE TaskDone
  BY <1>2 DEF TaskDone, TypeOK, TaskRow, Live
<1>3. CASE Crash
  BY <1>3 DEF Crash, AtWork, NoSpawn, SpawnRow, TypeOK, TaskRow, Live
<1>4. ASSUME NEW i \in Run, SpawnDone(i) PROVE TypeOK'
  <2>1. run' \in [Run -> Row] /\ \A j \in Run : run'[j].st = "live" => run[j].st = "live"
    BY <1>4, SpawnedRow
  <2> QED BY <1>4, <2>1 DEF SpawnDone, CheckpointMoved, NoSpawn, SpawnRow, Waiters, TypeOK,
      TaskRow, Live
<1>5. ASSUME NEW i \in Run, SpawnFails(i) PROVE TypeOK'
  <2>1. run' \in [Run -> Row] /\ \A j \in Run : run'[j].st = "live" => run[j].st = "live"
    BY <1>5, EndRow DEF SpawnFails, Ended, Resumable
  <2> QED BY <1>5, <2>1 DEF SpawnFails, NoSpawn, SpawnRow, TypeOK, TaskRow, Live
<1>6. ASSUME NEW i \in Run, StageEntered(i) PROVE TypeOK'
  BY <1>6 DEF StageEntered, AtWork, TypeOK, TaskRow, Live, Suspended
<1>7. ASSUME NEW i \in Run, HeartbeatStall(i) PROVE TypeOK'
  <2>1. run' \in [Run -> Row] /\ \A j \in Run : run'[j].st = "live" => run[j].st = "live"
    BY <1>7, EndRow DEF HeartbeatStall, Ended, Resumable
  <2> QED BY <1>7, <2>1 DEF HeartbeatStall, TypeOK, TaskRow, Live
<1>k. ASSUME NEW i \in Run, HeartbeatKill(i) PROVE TypeOK'
  <2>1. run' \in [Run -> Row] /\ \A j \in Run : run'[j].st = "live" => run[j].st = "live"
    BY <1>k, EndRow DEF HeartbeatKill, Ended, Resumable
  <2> QED BY <1>k, <2>1 DEF HeartbeatKill, Polls, TypeOK, TaskRow, Live
<1>f. ASSUME NEW i \in Run, HeartbeatFails(i) PROVE TypeOK'
  BY <1>f DEF HeartbeatFails, Forgotten, TypeOK, TaskRow, Live
<1>8. ASSUME NEW i \in Run, EndCrashed(i) PROVE TypeOK'
  <2>1. CASE Live(i)
    <3>1. retryOrFail(i)
      BY <1>8, <2>1 DEF EndCrashed
    <3>2. run' \in [Run -> Row] /\ \A j \in Run : run'[j].st = "live" => run[j].st = "live"
      BY <3>1, EndRow DEF retryOrFail, Ended, Resumable
    <3> QED BY <1>8, <2>1, <3>1, <3>2 DEF EndCrashed, Exits, retryOrFail, Charged, Ready,
        TypeOK, TaskRow, Live
  <2>2. CASE ~Live(i)
    BY <1>8, <2>2 DEF EndCrashed, Exits, TypeOK, TaskRow, Live
  <2> QED BY <2>1, <2>2
<1>9. ASSUME NEW i \in Run, EndCapped(i) PROVE TypeOK'
  <2>1. run' \in [Run -> Row] /\ \A j \in Run : run'[j].st = "live" => run[j].st = "live"
    BY <1>9, EndRow DEF EndCapped, Ended, Resumable
  <2> QED BY <1>9, <2>1 DEF EndCapped, Exits, TypeOK, TaskRow, Live
<1>10. ASSUME NEW i \in Run, Failover(i) PROVE TypeOK'
  <2> DEFINE R == To(i, "frozen", "none")
  <2>1. /\ R \in [Run -> Row] /\ "failover" \in Waiters
        /\ ResumeOf(i) \in Run \cup {0} /\ i \in Run \cup {0}
        /\ \A j \in Run : R[j].st = IF j = i THEN "frozen" ELSE run[j].st
    BY ToRow DEF Ended, Resumable, ResumeOf, Waiters
  <2>2. Dispatch(R, "failover", ResumeOf(i), i)
    BY <1>10 DEF Failover
  <2>3. DispatchFacts(R)
    <3> HIDE DEF R
    <3> QED BY <2>1, <2>2, DispatchRow DEF DispatchFacts
  <2> HIDE DEF R
  <2> QED BY <1>10, <2>1, <2>3 DEF DispatchFacts, Failover, Exits, Charged, TypeOK, TaskRow, Live
<1>11. ASSUME NEW i \in Run, FailoverFreezes(i) PROVE TypeOK'
  <2>1. run' \in [Run -> Row] /\ \A j \in Run : run'[j].st = "live" => run[j].st = "live"
    BY <1>11, EndRow DEF FailoverFreezes, Ended, Resumable
  <2> QED BY <1>11, <2>1 DEF FailoverFreezes, Exits, Charged, TypeOK, TaskRow, Live
<1>12. ASSUME NEW i \in Run, EndCompleted(i) PROVE TypeOK'
  BY <1>12 DEF EndCompleted, AtWork, TypeOK, TaskRow, Live, Suspended
<1>o. ASSUME NEW i \in Run, OrphanEnds(i) PROVE TypeOK'
  BY <1>o DEF OrphanEnds, TypeOK, TaskRow, Live
<1>13. ASSUME NEW i \in Run, Routed(i) PROVE TypeOK'
  <2>1. run' \in [Run -> Row] /\ \A j \in Run : run'[j].st = "live" => run[j].st = "live"
    BY <1>13, EndRow DEF Routed, Ended, Resumable
  <2> QED BY <1>13, <2>1 DEF Routed, TypeOK, TaskRow, Live
<1>14. ASSUME NEW i \in Run, StartupStalls(i) PROVE TypeOK'
  BY <1>14, RecoveredRow DEF StartupStalls, TypeOK, TaskRow, Live
<1>15. ASSUME NEW i \in Run, StartupLeaves(i) PROVE TypeOK'
  BY <1>15 DEF StartupLeaves, TypeOK, TaskRow, Live, Suspended
<1>16. ASSUME NEW i \in Run, StartupFinalizes(i) PROVE TypeOK'
  BY <1>16 DEF StartupFinalizes, TypeOK, TaskRow, Live, Suspended
<1>17. ASSUME NEW i \in Run, StartupResumes(i) PROVE TypeOK'
  <2> DEFINE R == Recovered(i)
  <2>1. /\ R \in [Run -> Row] /\ "startup" \in Waiters
        /\ i \in Run \cup {0} /\ 0 \in Run \cup {0}
        /\ \A j \in Run : R[j].st = IF j = i /\ Live(i) THEN "stalled" ELSE run[j].st
    BY RecoveredRow DEF Waiters
  <2>2. CASE /\ Dispatch(R, "startup", i, 0)
             /\ task' = [task EXCEPT !.st = "active"]
             /\ allowance' = allowance + 1
    <3>1. DispatchFacts(R)
      <4> HIDE DEF R
      <4> QED BY <2>1, <2>2, DispatchRow DEF DispatchFacts
    <3> HIDE DEF R
    <3> QED BY <1>17, <2>1, <2>2, <3>1 DEF DispatchFacts, StartupResumes, TypeOK, TaskRow, Live
  <2>3. CASE run' = R /\ UNCHANGED <<n, task, spawn, allowance>>
    <3> HIDE DEF R
    <3> QED BY <1>17, <2>1, <2>3 DEF StartupResumes, TypeOK, TaskRow, Live
  <2> QED BY <1>17, <2>2, <2>3 DEF StartupResumes
<1>18. ASSUME NEW i \in Run, NEW op \in Suspended, Call(i, op) PROVE TypeOK'
  <2>1. [run |-> i, op |-> op, had |-> i \in session] \in [run : Run, op : Suspended, had : BOOLEAN]
    OBVIOUS
  <2>2. calls' \subseteq [run : Run, op : Suspended, had : BOOLEAN]
    BY <1>18, <2>1 DEF Call, TypeOK
  <2> QED BY <1>18, <2>2 DEF Call, TypeOK, TaskRow, Live
<1>19. ASSUME NEW i \in Run, CallThrows(i) PROVE TypeOK'
  BY <1>19 DEF CallThrows, killRun, Forgotten, TypeOK, TaskRow, Live, Suspended
<1>20. ASSUME NEW i \in Run, pauseRun(i) PROVE TypeOK'
  <2>1. /\ run' \in [Run -> Row]
        /\ \A j \in Run : run'[j].st = "live" => j # i /\ run[j].st = "live"
    BY <1>20, ToRow DEF pauseRun, Ended, Resumable
  <2> QED BY <1>20, <2>1 DEF pauseRun, Killed, killRun, Forgotten, TypeOK, TaskRow, Live
<1>21. ASSUME NEW i \in Run, redirectRun(i) PROVE TypeOK'
  <2>1. run' \in [Run -> Row] /\ \A j \in Run : run'[j].st = "live" => run[j].st = "live"
    BY <1>21, ToRow DEF redirectRun, Ended
  <2>2. Grant
    BY <1>21 DEF redirectRun
  <2> QED BY <1>21, <2>1, <2>2, GrantTypes
    DEF redirectRun, Killed, killRun, Forgotten, TypeOK, TaskRow, Live
<1>22. ASSUME NEW i \in Run, cancelRun(i) PROVE TypeOK'
  <2>1. run' \in [Run -> Row] /\ \A j \in Run : run'[j].st = "live" => run[j].st = "live"
    BY <1>22, EndRow DEF cancelRun, Ended, Resumable
  <2> QED BY <1>22, <2>1 DEF cancelRun, Killed, killRun, Forgotten, TypeOK, TaskRow, Live
<1>23. ASSUME NEW i \in Run, enforceCostBudget(i) PROVE TypeOK'
  <2>1. run' \in [Run -> Row] /\ \A j \in Run : run'[j].st = "live" => run[j].st = "live"
    BY <1>23, EndRow DEF enforceCostBudget, Ended, Resumable
  <2> QED BY <1>23, <2>1 DEF enforceCostBudget, Killed, killRun, Forgotten, TypeOK, TaskRow, Live
<1>24. ASSUME NEW i \in Run, retryRun(i) PROVE TypeOK'
  <2>1. CASE run' = To(i, "failed", "none") /\ Grant
    <3>1. run' \in [Run -> Row] /\ \A j \in Run : run'[j].st = "live" => run[j].st = "live"
      BY <2>1, ToRow DEF Ended
    <3> QED BY <1>24, <2>1, <3>1, GrantTypes DEF retryRun, TypeOK, TaskRow, Live
  <2>2. CASE UNCHANGED <<run, task, bill>>
    BY <1>24, <2>2 DEF retryRun, TypeOK, TaskRow, Live
  <2> QED BY <1>24, <2>1, <2>2 DEF retryRun
<1>25. ASSUME NEW i \in Run, resumePausedRun(i) PROVE TypeOK'
  <2>1. Grant
    BY <1>25 DEF resumePausedRun
  <2> QED BY <1>25, <2>1, GrantTypes DEF resumePausedRun, TypeOK, TaskRow, Live
<1>26. ASSUME NEW i \in Run, extend(i) PROVE TypeOK'
  <2>1. Grant
    BY <1>26 DEF extend
  <2> QED BY <1>26, <2>1, GrantTypes DEF extend, TypeOK, TaskRow, Live
<1>27. ASSUME NEW i \in Run, deny(i) PROVE TypeOK'
  <2>1. run' \in [Run -> Row] /\ \A j \in Run : run'[j].st = run[j].st
    BY <1>27, EditedRow DEF deny
  <2> QED BY <1>27, <2>1 DEF deny, TypeOK, TaskRow, Live
<1>28. CASE UNCHANGED vars
  BY <1>28 DEF vars, TypeOK, TaskRow, Live
<1> QED BY <1>1, <1>2, <1>3, <1>4, <1>5, <1>6, <1>7, <1>k, <1>f, <1>8, <1>9, <1>10, <1>11,
    <1>12, <1>o, <1>13, <1>14, <1>15, <1>16, <1>17, <1>18, <1>19, <1>20, <1>21, <1>22, <1>23,
    <1>24, <1>25, <1>26, <1>27, <1>28 DEF Next, AttemptNext, OperatorNext

\* The state always has its type.
THEOREM TypeCorrect == Spec => []TypeOK
<1>1. Init => TypeOK
  <2>1. NoRun \in Row
    BY DEF NoRun, Row
  <2>2. NoSpawn \in SpawnRow
    BY DEF NoSpawn, SpawnRow
  <2> SUFFICES ASSUME Init PROVE TypeOK
    OBVIOUS
  <2>3. run \in [Run -> Row] /\ spawn \in [Run -> SpawnRow]
    BY <2>1, <2>2 DEF Init
  <2>4. task \in TaskRow
    BY RetriesAssumption DEF Init, TaskRow
  <2>5. /\ n \in 0 .. MaxRuns /\ crashes \in 0 .. MaxCrashes /\ grants \in 0 .. MaxGrants
        /\ allowance \in Nat
    BY RetriesAssumption, BoundsAssumption DEF Init
  <2>6. ckpt \in [Run -> {"none", "early", "late"}]
    BY DEF Init
  <2>7. held \in BOOLEAN
    BY DEF Init
  <2> QED BY <2>3, <2>4, <2>5, <2>6, <2>7 DEF Init, TypeOK
<1> QED BY <1>1, TypeStep, PTL DEF Spec

\* What a task may still cost: the dispatch it is ready for and the retries left.
Unspent ==
  (IF task.st = "ready" THEN 1 ELSE 0) +
  (IF task.retries > MaxTaskRetries THEN 0 ELSE MaxTaskRetries - task.retries)

Paid == n + Unspent <= allowance

LEMMA GrantPaid ==
  ASSUME TypeOK, Paid, Grant, n' = n
  PROVE  Paid'
<1>1. n \in Nat /\ allowance \in Nat /\ n <= allowance
  BY RetriesAssumption, BoundsAssumption DEF TypeOK, TaskRow, Paid, Unspent
<1>2. Unspent' = 1 + MaxTaskRetries
  BY GrantTypes, RetriesAssumption DEF Unspent
<1> QED BY <1>1, <1>2, GrantTypes, RetriesAssumption DEF Paid

LEMMA PaidStep == TypeOK /\ Paid /\ [Next]_vars => Paid'
<1> USE RetriesAssumption, BoundsAssumption DEF bill, workers
<1> SUFFICES ASSUME TypeOK, Paid, [Next]_vars PROVE Paid'
  OBVIOUS
<1>1. CASE CycleDispatches
  <2>1. PICK from \in Resume : Dispatch(run, "cycle", from, 0)
    BY <1>1 DEF CycleDispatches
  <2>2. from \in Run \cup {0} /\ run \in [Run -> Row] /\ "cycle" \in Waiters /\ 0 \in Run \cup {0}
    BY DEF Resume, TypeOK, Waiters
  <2>3. DispatchFacts(run)
    BY <2>1, <2>2, DispatchRow DEF DispatchFacts
  <2> QED BY <1>1, <2>3 DEF DispatchFacts, CycleDispatches, Polls, TypeOK, Paid, Unspent,
      TaskRow, Live
<1>2. CASE TaskDone
  BY <1>2 DEF TaskDone, TypeOK, Paid, Unspent, TaskRow, Live
<1>3. CASE Crash
  BY <1>3 DEF Crash, AtWork, NoSpawn, SpawnRow, TypeOK, Paid, Unspent, TaskRow, Live
<1>4. ASSUME NEW i \in Run, SpawnDone(i) PROVE Paid'
  <2>1. run' \in [Run -> Row] /\ \A j \in Run : run'[j].st = "live" => run[j].st = "live"
    BY <1>4, SpawnedRow
  <2> QED BY <1>4, <2>1 DEF SpawnDone, CheckpointMoved, NoSpawn, SpawnRow, Waiters, TypeOK,
      Paid, Unspent, TaskRow, Live
<1>5. ASSUME NEW i \in Run, SpawnFails(i) PROVE Paid'
  <2>1. run' \in [Run -> Row] /\ \A j \in Run : run'[j].st = "live" => run[j].st = "live"
    BY <1>5, EndRow DEF SpawnFails, Ended, Resumable
  <2> QED BY <1>5, <2>1 DEF SpawnFails, NoSpawn, SpawnRow, TypeOK, Paid, Unspent, TaskRow, Live
<1>6. ASSUME NEW i \in Run, StageEntered(i) PROVE Paid'
  BY <1>6 DEF StageEntered, AtWork, TypeOK, Paid, Unspent, TaskRow, Live
<1>7. ASSUME NEW i \in Run, HeartbeatStall(i) PROVE Paid'
  <2>1. run' \in [Run -> Row] /\ \A j \in Run : run'[j].st = "live" => run[j].st = "live"
    BY <1>7, EndRow DEF HeartbeatStall, Ended, Resumable
  <2> QED BY <1>7, <2>1 DEF HeartbeatStall, TypeOK, Paid, Unspent, TaskRow, Live
<1>k. ASSUME NEW i \in Run, HeartbeatKill(i) PROVE Paid'
  <2>1. run' \in [Run -> Row] /\ \A j \in Run : run'[j].st = "live" => run[j].st = "live"
    BY <1>k, EndRow DEF HeartbeatKill, Ended, Resumable
  <2> QED BY <1>k, <2>1 DEF HeartbeatKill, Polls, TypeOK, Paid, Unspent, TaskRow, Live
<1>f. ASSUME NEW i \in Run, HeartbeatFails(i) PROVE Paid'
  BY <1>f DEF HeartbeatFails, Forgotten, TypeOK, Paid, Unspent, TaskRow, Live
<1>8. ASSUME NEW i \in Run, EndCrashed(i) PROVE Paid'
  <2>1. CASE Live(i)
    <3>1. retryOrFail(i)
      BY <1>8, <2>1 DEF EndCrashed
    <3>2. run' \in [Run -> Row] /\ \A j \in Run : run'[j].st = "live" => run[j].st = "live"
      BY <3>1, EndRow DEF retryOrFail, Ended, Resumable
    <3> QED BY <1>8, <2>1, <3>1, <3>2 DEF EndCrashed, Exits, retryOrFail, Charged, Ready,
        TypeOK, Paid, Unspent, TaskRow, Live
  <2>2. CASE ~Live(i)
    BY <1>8, <2>2 DEF EndCrashed, Exits, TypeOK, Paid, Unspent, TaskRow, Live
  <2> QED BY <2>1, <2>2
<1>9. ASSUME NEW i \in Run, EndCapped(i) PROVE Paid'
  <2>1. run' \in [Run -> Row] /\ \A j \in Run : run'[j].st = "live" => run[j].st = "live"
    BY <1>9, EndRow DEF EndCapped, Ended, Resumable
  <2> QED BY <1>9, <2>1 DEF EndCapped, Exits, TypeOK, Paid, Unspent, TaskRow, Live
<1>10. ASSUME NEW i \in Run, Failover(i) PROVE Paid'
  <2> DEFINE R == To(i, "frozen", "none")
  <2>1. /\ R \in [Run -> Row] /\ "failover" \in Waiters
        /\ ResumeOf(i) \in Run \cup {0} /\ i \in Run \cup {0}
        /\ \A j \in Run : R[j].st = IF j = i THEN "frozen" ELSE run[j].st
    BY ToRow DEF Ended, Resumable, ResumeOf, Waiters
  <2>2. Dispatch(R, "failover", ResumeOf(i), i)
    BY <1>10 DEF Failover
  <2>3. DispatchFacts(R)
    <3> HIDE DEF R
    <3> QED BY <2>1, <2>2, DispatchRow DEF DispatchFacts
  <2> HIDE DEF R
  <2> QED BY <1>10, <2>1, <2>3 DEF DispatchFacts, Failover, Exits, Charged, TypeOK, Paid,
      Unspent, TaskRow, Live
<1>11. ASSUME NEW i \in Run, FailoverFreezes(i) PROVE Paid'
  <2>1. run' \in [Run -> Row] /\ \A j \in Run : run'[j].st = "live" => run[j].st = "live"
    BY <1>11, EndRow DEF FailoverFreezes, Ended, Resumable
  <2> QED BY <1>11, <2>1 DEF FailoverFreezes, Exits, Charged, TypeOK, Paid, Unspent, TaskRow, Live
<1>12. ASSUME NEW i \in Run, EndCompleted(i) PROVE Paid'
  BY <1>12 DEF EndCompleted, AtWork, TypeOK, Paid, Unspent, TaskRow, Live
<1>o. ASSUME NEW i \in Run, OrphanEnds(i) PROVE Paid'
  BY <1>o DEF OrphanEnds, TypeOK, Paid, Unspent, TaskRow, Live
<1>13. ASSUME NEW i \in Run, Routed(i) PROVE Paid'
  <2>1. run' \in [Run -> Row] /\ \A j \in Run : run'[j].st = "live" => run[j].st = "live"
    BY <1>13, EndRow DEF Routed, Ended, Resumable
  <2> QED BY <1>13, <2>1 DEF Routed, TypeOK, Paid, Unspent, TaskRow, Live
<1>14. ASSUME NEW i \in Run, StartupStalls(i) PROVE Paid'
  BY <1>14, RecoveredRow DEF StartupStalls, TypeOK, Paid, Unspent, TaskRow, Live
<1>15. ASSUME NEW i \in Run, StartupLeaves(i) PROVE Paid'
  BY <1>15 DEF StartupLeaves, TypeOK, Paid, Unspent, TaskRow, Live
<1>16. ASSUME NEW i \in Run, StartupFinalizes(i) PROVE Paid'
  BY <1>16 DEF StartupFinalizes, TypeOK, Paid, Unspent, TaskRow, Live
<1>17. ASSUME NEW i \in Run, StartupResumes(i) PROVE Paid'
  <2> DEFINE R == Recovered(i)
  <2>1. /\ R \in [Run -> Row] /\ "startup" \in Waiters
        /\ i \in Run \cup {0} /\ 0 \in Run \cup {0}
        /\ \A j \in Run : R[j].st = IF j = i /\ Live(i) THEN "stalled" ELSE run[j].st
    BY RecoveredRow DEF Waiters
  <2>2. CASE /\ Dispatch(R, "startup", i, 0)
             /\ task' = [task EXCEPT !.st = "active"]
             /\ allowance' = allowance + 1
    <3>1. DispatchFacts(R)
      <4> HIDE DEF R
      <4> QED BY <2>1, <2>2, DispatchRow DEF DispatchFacts
    <3> HIDE DEF R
    <3> QED BY <1>17, <2>1, <2>2, <3>1 DEF DispatchFacts, StartupResumes, TypeOK, Paid, Unspent,
        TaskRow, Live
  <2>3. CASE run' = R /\ UNCHANGED <<n, task, spawn, allowance>>
    <3> HIDE DEF R
    <3> QED BY <1>17, <2>1, <2>3 DEF StartupResumes, TypeOK, Paid, Unspent, TaskRow, Live
  <2> QED BY <1>17, <2>2, <2>3 DEF StartupResumes
<1>18. ASSUME NEW i \in Run, NEW op \in Suspended, Call(i, op) PROVE Paid'
  BY <1>18 DEF Call, TypeOK, Paid, Unspent, TaskRow, Live
<1>19. ASSUME NEW i \in Run, CallThrows(i) PROVE Paid'
  BY <1>19 DEF CallThrows, killRun, Forgotten, TypeOK, Paid, Unspent, TaskRow, Live
<1>20. ASSUME NEW i \in Run, pauseRun(i) PROVE Paid'
  <2>1. /\ run' \in [Run -> Row]
        /\ \A j \in Run : run'[j].st = "live" => j # i /\ run[j].st = "live"
    BY <1>20, ToRow DEF pauseRun, Ended, Resumable
  <2> QED BY <1>20, <2>1
    DEF pauseRun, Killed, killRun, Forgotten, TypeOK, Paid, Unspent, TaskRow, Live
<1>21. ASSUME NEW i \in Run, redirectRun(i) PROVE Paid'
  <2>1. run' \in [Run -> Row] /\ \A j \in Run : run'[j].st = "live" => run[j].st = "live"
    BY <1>21, ToRow DEF redirectRun, Ended
  <2>2. Grant
    BY <1>21 DEF redirectRun
  <2> QED BY <1>21, <2>1, <2>2, GrantPaid DEF redirectRun, Killed, killRun
<1>22. ASSUME NEW i \in Run, cancelRun(i) PROVE Paid'
  <2>1. run' \in [Run -> Row] /\ \A j \in Run : run'[j].st = "live" => run[j].st = "live"
    BY <1>22, EndRow DEF cancelRun, Ended, Resumable
  <2> QED BY <1>22, <2>1
    DEF cancelRun, Killed, killRun, Forgotten, TypeOK, Paid, Unspent, TaskRow, Live
<1>23. ASSUME NEW i \in Run, enforceCostBudget(i) PROVE Paid'
  <2>1. run' \in [Run -> Row] /\ \A j \in Run : run'[j].st = "live" => run[j].st = "live"
    BY <1>23, EndRow DEF enforceCostBudget, Ended, Resumable
  <2> QED BY <1>23, <2>1
    DEF enforceCostBudget, Killed, killRun, Forgotten, TypeOK, Paid, Unspent, TaskRow, Live
<1>24. ASSUME NEW i \in Run, retryRun(i) PROVE Paid'
  <2>1. CASE run' = To(i, "failed", "none") /\ Grant
    BY <1>24, <2>1, GrantPaid DEF retryRun
  <2>2. CASE UNCHANGED <<run, task, bill>>
    BY <1>24, <2>2 DEF retryRun, TypeOK, Paid, Unspent, TaskRow, Live
  <2> QED BY <1>24, <2>1, <2>2 DEF retryRun
<1>25. ASSUME NEW i \in Run, resumePausedRun(i) PROVE Paid'
  <2>1. Grant
    BY <1>25 DEF resumePausedRun
  <2> QED BY <1>25, <2>1, GrantPaid DEF resumePausedRun
<1>26. ASSUME NEW i \in Run, extend(i) PROVE Paid'
  <2>1. Grant
    BY <1>26 DEF extend
  <2> QED BY <1>26, <2>1, GrantPaid DEF extend
<1>27. ASSUME NEW i \in Run, deny(i) PROVE Paid'
  <2>1. run' \in [Run -> Row] /\ \A j \in Run : run'[j].st = run[j].st
    BY <1>27, EditedRow DEF deny
  <2> QED BY <1>27, <2>1 DEF deny, TypeOK, Paid, Unspent, TaskRow, Live
<1>28. CASE UNCHANGED vars
  BY <1>28 DEF vars, TypeOK, Paid, Unspent, TaskRow, Live
<1> QED BY <1>1, <1>2, <1>3, <1>4, <1>5, <1>6, <1>7, <1>k, <1>f, <1>8, <1>9, <1>10, <1>11,
    <1>12, <1>o, <1>13, <1>14, <1>15, <1>16, <1>17, <1>18, <1>19, <1>20, <1>21, <1>22, <1>23,
    <1>24, <1>25, <1>26, <1>27, <1>28 DEF Next, AttemptNext, OperatorNext

\* Every attempt is paid for by the budget, by an operator or by a start-up
\* resume.
THEOREM AttemptsArePaid == Spec => []AttemptsPaid
<1>1. Init => Paid
  BY RetriesAssumption DEF Init, Paid, Unspent
<1>2. TypeOK /\ Paid => AttemptsPaid
  BY RetriesAssumption, BoundsAssumption DEF TypeOK, TaskRow, Paid, Unspent, AttemptsPaid
<1> QED BY <1>1, <1>2, PaidStep, TypeCorrect, PTL DEF Spec

\* One run of the task is live at a time; until the start-up reconcile has been
\* through, it is the one that was live before the crash.
OneLive == \A i, j \in Run : Live(i) /\ Live(j) => i = j
BootAlone ==
  /\ \A i, j \in boot : i = j
  /\ boot # {} =>
       /\ session = {} /\ lost = {}
       /\ \A i \in Run : spawn[i].by = "none" /\ (Live(i) => i \in boot)

\* A pause that holds leaves nothing from which an attempt could start.
HeldStill == held => task.st # "ready" /\ boot = {} /\ \A i \in Run : ~Live(i)

Quiet == OneLive /\ BootAlone /\ HeldStill

LEMMA QuietStep == TypeOK /\ Quiet /\ [Next]_vars => Quiet'
<1> USE RetriesAssumption, BoundsAssumption DEF bill, workers
<1> SUFFICES ASSUME TypeOK, Quiet, [Next]_vars PROVE Quiet'
  OBVIOUS
<1>1. CASE CycleDispatches
  <2>1. PICK from \in Resume : Dispatch(run, "cycle", from, 0)
    BY <1>1 DEF CycleDispatches
  <2>2. from \in Run \cup {0} /\ run \in [Run -> Row] /\ "cycle" \in Waiters /\ 0 \in Run \cup {0}
    BY DEF Resume, TypeOK, Waiters
  <2>3. DispatchFacts(run)
    BY <2>1, <2>2, DispatchRow DEF DispatchFacts
  <2> QED BY <1>1, <2>3 DEF DispatchFacts, CycleDispatches, Polls, TypeOK, Quiet, OneLive,
      BootAlone, HeldStill, TaskRow, Live
<1>2. CASE TaskDone
  BY <1>2 DEF TaskDone, TypeOK, Quiet, OneLive, BootAlone, HeldStill, TaskRow, Live
<1>3. CASE Crash
  BY <1>3
    DEF Crash, AtWork, NoSpawn, SpawnRow, TypeOK, Quiet, OneLive, BootAlone, HeldStill, TaskRow,
      Live
<1>4. ASSUME NEW i \in Run, SpawnDone(i) PROVE Quiet'
  <2>1. run' \in [Run -> Row] /\ \A j \in Run : run'[j].st = "live" => run[j].st = "live"
    BY <1>4, SpawnedRow
  <2> QED BY <1>4, <2>1 DEF SpawnDone, CheckpointMoved, NoSpawn, SpawnRow, Waiters, TypeOK,
      Quiet, OneLive, BootAlone, HeldStill, TaskRow, Live
<1>5. ASSUME NEW i \in Run, SpawnFails(i) PROVE Quiet'
  <2>1. run' \in [Run -> Row] /\ \A j \in Run : run'[j].st = "live" => run[j].st = "live"
    BY <1>5, EndRow DEF SpawnFails, Ended, Resumable
  <2> QED BY <1>5, <2>1 DEF SpawnFails, NoSpawn, SpawnRow, TypeOK, Quiet, OneLive, BootAlone,
      HeldStill, TaskRow, Live
<1>6. ASSUME NEW i \in Run, StageEntered(i) PROVE Quiet'
  BY <1>6 DEF StageEntered, AtWork, TypeOK, Quiet, OneLive, BootAlone, HeldStill, TaskRow, Live
<1>7. ASSUME NEW i \in Run, HeartbeatStall(i) PROVE Quiet'
  <2>1. run' \in [Run -> Row] /\ \A j \in Run : run'[j].st = "live" => run[j].st = "live"
    BY <1>7, EndRow DEF HeartbeatStall, Ended, Resumable
  <2> QED BY <1>7, <2>1 DEF HeartbeatStall, TypeOK, Quiet, OneLive, BootAlone, HeldStill,
      TaskRow, Live
<1>k. ASSUME NEW i \in Run, HeartbeatKill(i) PROVE Quiet'
  <2>1. run' \in [Run -> Row] /\ \A j \in Run : run'[j].st = "live" => run[j].st = "live"
    BY <1>k, EndRow DEF HeartbeatKill, Ended, Resumable
  <2> QED BY <1>k, <2>1 DEF HeartbeatKill, Polls, TypeOK, Quiet, OneLive, BootAlone, HeldStill,
      TaskRow, Live
<1>f. ASSUME NEW i \in Run, HeartbeatFails(i) PROVE Quiet'
  BY <1>f DEF HeartbeatFails, Forgotten, TypeOK, Quiet, OneLive, BootAlone, HeldStill, TaskRow, Live
<1>8. ASSUME NEW i \in Run, EndCrashed(i) PROVE Quiet'
  <2>1. CASE Live(i)
    <3>1. retryOrFail(i)
      BY <1>8, <2>1 DEF EndCrashed
    <3>2. run' \in [Run -> Row] /\ \A j \in Run : run'[j].st = "live" => run[j].st = "live"
      BY <3>1, EndRow DEF retryOrFail, Ended, Resumable
    <3> QED BY <1>8, <2>1, <3>1, <3>2 DEF EndCrashed, Exits, retryOrFail, Charged, Ready,
        TypeOK, Quiet, OneLive, BootAlone, HeldStill, TaskRow, Live
  <2>2. CASE ~Live(i)
    BY <1>8, <2>2 DEF EndCrashed, Exits, TypeOK, Quiet, OneLive, BootAlone, HeldStill, TaskRow,
        Live
  <2> QED BY <2>1, <2>2
<1>9. ASSUME NEW i \in Run, EndCapped(i) PROVE Quiet'
  <2>1. run' \in [Run -> Row] /\ \A j \in Run : run'[j].st = "live" => run[j].st = "live"
    BY <1>9, EndRow DEF EndCapped, Ended, Resumable
  <2> QED BY <1>9, <2>1 DEF EndCapped, Exits, TypeOK, Quiet, OneLive, BootAlone, HeldStill,
      TaskRow, Live
<1>10. ASSUME NEW i \in Run, Failover(i) PROVE Quiet'
  <2> DEFINE R == To(i, "frozen", "none")
  <2>1. /\ R \in [Run -> Row] /\ "failover" \in Waiters
        /\ ResumeOf(i) \in Run \cup {0} /\ i \in Run \cup {0}
        /\ \A j \in Run : R[j].st = IF j = i THEN "frozen" ELSE run[j].st
    BY ToRow DEF Ended, Resumable, ResumeOf, Waiters
  <2>2. Dispatch(R, "failover", ResumeOf(i), i)
    BY <1>10 DEF Failover
  <2>3. DispatchFacts(R)
    <3> HIDE DEF R
    <3> QED BY <2>1, <2>2, DispatchRow DEF DispatchFacts
  <2> HIDE DEF R
  <2> QED BY <1>10, <2>1, <2>3 DEF DispatchFacts, Failover, Exits, Charged, TypeOK, Quiet,
      OneLive, BootAlone, HeldStill, TaskRow, Live
<1>11. ASSUME NEW i \in Run, FailoverFreezes(i) PROVE Quiet'
  <2>1. run' \in [Run -> Row] /\ \A j \in Run : run'[j].st = "live" => run[j].st = "live"
    BY <1>11, EndRow DEF FailoverFreezes, Ended, Resumable
  <2> QED BY <1>11, <2>1 DEF FailoverFreezes, Exits, Charged, TypeOK, Quiet, OneLive, BootAlone,
      HeldStill, TaskRow, Live
<1>12. ASSUME NEW i \in Run, EndCompleted(i) PROVE Quiet'
  BY <1>12 DEF EndCompleted, AtWork, TypeOK, Quiet, OneLive, BootAlone, HeldStill, TaskRow, Live
<1>o. ASSUME NEW i \in Run, OrphanEnds(i) PROVE Quiet'
  BY <1>o DEF OrphanEnds, TypeOK, Quiet, OneLive, BootAlone, HeldStill, TaskRow, Live
<1>13. ASSUME NEW i \in Run, Routed(i) PROVE Quiet'
  <2>1. run' \in [Run -> Row] /\ \A j \in Run : run'[j].st = "live" => run[j].st = "live"
    BY <1>13, EndRow DEF Routed, Ended, Resumable
  <2> QED BY <1>13, <2>1 DEF Routed, TypeOK, Quiet, OneLive, BootAlone, HeldStill, TaskRow, Live
<1>14. ASSUME NEW i \in Run, StartupStalls(i) PROVE Quiet'
  <2>1. \A j \in Run : run'[j].st = "live" => j # i /\ run[j].st = "live"
    BY <1>14, RecoveredRow DEF StartupStalls
  <2> QED BY <1>14, <2>1 DEF StartupStalls, TypeOK, Quiet, OneLive, BootAlone, HeldStill, Live
<1>15. ASSUME NEW i \in Run, StartupLeaves(i) PROVE Quiet'
  BY <1>15 DEF StartupLeaves, TypeOK, Quiet, OneLive, BootAlone, HeldStill, TaskRow, Live
<1>16. ASSUME NEW i \in Run, StartupFinalizes(i) PROVE Quiet'
  BY <1>16 DEF StartupFinalizes, TypeOK, Quiet, OneLive, BootAlone, HeldStill, TaskRow, Live
<1>17. ASSUME NEW i \in Run, StartupResumes(i) PROVE Quiet'
  <2> DEFINE R == Recovered(i)
  <2>1. /\ R \in [Run -> Row] /\ "startup" \in Waiters
        /\ i \in Run \cup {0} /\ 0 \in Run \cup {0}
        /\ \A j \in Run : R[j].st = IF j = i /\ Live(i) THEN "stalled" ELSE run[j].st
    BY RecoveredRow DEF Waiters
  <2>2. CASE /\ Dispatch(R, "startup", i, 0)
             /\ task' = [task EXCEPT !.st = "active"]
             /\ allowance' = allowance + 1
    <3>1. DispatchFacts(R)
      <4> HIDE DEF R
      <4> QED BY <2>1, <2>2, DispatchRow DEF DispatchFacts
    <3>2. boot' = {} /\ held' = held /\ ~held
      BY <1>17 DEF StartupResumes, Quiet, BootAlone, HeldStill
    <3>3. \A j \in Run : Live(j)' => j = n + 1
      <4> HIDE DEF R
      <4> QED BY <2>1, <3>1 DEF DispatchFacts, Live
    <3> QED BY <3>2, <3>3 DEF Quiet, OneLive, BootAlone, HeldStill
  <2>3. CASE run' = R /\ UNCHANGED <<n, task, spawn, allowance>>
    <3> HIDE DEF R
    <3> QED BY <1>17, <2>1, <2>3 DEF StartupResumes, TypeOK, Quiet, OneLive, BootAlone,
        HeldStill, TaskRow, Live
  <2> QED BY <1>17, <2>2, <2>3 DEF StartupResumes
<1>18. ASSUME NEW i \in Run, NEW op \in Suspended, Call(i, op) PROVE Quiet'
  BY <1>18 DEF Call, TypeOK, Quiet, OneLive, BootAlone, HeldStill, TaskRow, Live
<1>19. ASSUME NEW i \in Run, CallThrows(i) PROVE Quiet'
  BY <1>19
    DEF CallThrows, killRun, Forgotten, TypeOK, Quiet, OneLive, BootAlone, HeldStill, TaskRow,
      Live
<1>20. ASSUME NEW i \in Run, pauseRun(i) PROVE Quiet'
  <2>1. /\ run' \in [Run -> Row]
        /\ \A j \in Run : run'[j].st = "live" => j # i /\ run[j].st = "live"
    BY <1>20, ToRow DEF pauseRun, Ended, Resumable
  <2> QED BY <1>20, <2>1
    DEF pauseRun, Killed, killRun, Forgotten, TypeOK, Quiet, OneLive, BootAlone, HeldStill,
      TaskRow, Live
<1>21. ASSUME NEW i \in Run, redirectRun(i) PROVE Quiet'
  <2>1. run' \in [Run -> Row] /\ \A j \in Run : run'[j].st = "live" => run[j].st = "live"
    BY <1>21, ToRow DEF redirectRun, Ended
  <2>2. Grant
    BY <1>21 DEF redirectRun
  <2> QED BY <1>21, <2>1, <2>2, GrantTypes
    DEF redirectRun, Killed, killRun, Forgotten, TypeOK, Quiet, OneLive, BootAlone, HeldStill,
      TaskRow, Live
<1>22. ASSUME NEW i \in Run, cancelRun(i) PROVE Quiet'
  <2>1. run' \in [Run -> Row] /\ \A j \in Run : run'[j].st = "live" => run[j].st = "live"
    BY <1>22, EndRow DEF cancelRun, Ended, Resumable
  <2> QED BY <1>22, <2>1
    DEF cancelRun, Killed, killRun, Forgotten, TypeOK, Quiet, OneLive, BootAlone, HeldStill,
      TaskRow, Live
<1>23. ASSUME NEW i \in Run, enforceCostBudget(i) PROVE Quiet'
  <2>1. run' \in [Run -> Row] /\ \A j \in Run : run'[j].st = "live" => run[j].st = "live"
    BY <1>23, EndRow DEF enforceCostBudget, Ended, Resumable
  <2> QED BY <1>23, <2>1
    DEF enforceCostBudget, Killed, killRun, Forgotten, TypeOK, Quiet, OneLive, BootAlone,
      HeldStill, TaskRow, Live
<1>24. ASSUME NEW i \in Run, retryRun(i) PROVE Quiet'
  <2>1. CASE run' = To(i, "failed", "none") /\ Grant
    <3>1. run' \in [Run -> Row] /\ \A j \in Run : run'[j].st = "live" => run[j].st = "live"
      BY <2>1, ToRow DEF Ended
    <3>2. UNCHANGED <<n, ckpt, workers, spawn, routing, stalling, boot, crashes>>
      BY <1>24 DEF retryRun
    <3> QED BY <2>1, <3>1, <3>2, GrantTypes DEF TypeOK, Quiet, OneLive, BootAlone, HeldStill, Live
  <2>2. CASE UNCHANGED <<run, task, bill>>
    BY <1>24, <2>2 DEF retryRun, TypeOK, Quiet, OneLive, BootAlone, HeldStill, TaskRow, Live
  <2> QED BY <1>24, <2>1, <2>2 DEF retryRun
<1>25. ASSUME NEW i \in Run, resumePausedRun(i) PROVE Quiet'
  <2>1. Grant
    BY <1>25 DEF resumePausedRun
  <2> QED BY <1>25, <2>1, GrantTypes DEF resumePausedRun, TypeOK, Quiet, OneLive, BootAlone,
      HeldStill, TaskRow, Live
<1>26. ASSUME NEW i \in Run, extend(i) PROVE Quiet'
  <2>1. Grant
    BY <1>26 DEF extend
  <2> QED BY <1>26, <2>1, GrantTypes DEF extend, TypeOK, Quiet, OneLive, BootAlone, HeldStill,
      TaskRow, Live
<1>27. ASSUME NEW i \in Run, deny(i) PROVE Quiet'
  <2>1. run' \in [Run -> Row] /\ \A j \in Run : run'[j].st = run[j].st
    BY <1>27, EditedRow DEF deny
  <2> QED BY <1>27, <2>1 DEF deny, TypeOK, Quiet, OneLive, BootAlone, HeldStill, TaskRow, Live
<1>28. CASE UNCHANGED vars
  BY <1>28 DEF vars, TypeOK, Quiet, OneLive, BootAlone, HeldStill, TaskRow, Live
<1> QED BY <1>1, <1>2, <1>3, <1>4, <1>5, <1>6, <1>7, <1>k, <1>f, <1>8, <1>9, <1>10, <1>11,
    <1>12, <1>o, <1>13, <1>14, <1>15, <1>16, <1>17, <1>18, <1>19, <1>20, <1>21, <1>22, <1>23,
    <1>24, <1>25, <1>26, <1>27, <1>28 DEF Next, AttemptNext, OperatorNext

\* After a pause nothing is dispatched until an operator readies the task.
THEOREM PauseIsKept == Spec => PauseHolds
<1>1. Init => Quiet
  BY DEF Init, Quiet, OneLive, BootAlone, HeldStill, Live, NoRun, NoSpawn, Run
<1>2. TypeOK /\ Quiet /\ [Next]_vars => [held => n' = n]_vars
  <2> SUFFICES ASSUME TypeOK, Quiet, Next, held PROVE n' = n
    OBVIOUS
  <2>1. ~CycleDispatches
    BY DEF Quiet, HeldStill, CycleDispatches
  <2>2. \A i \in Run : ~Failover(i) /\ ~StartupResumes(i)
    BY DEF Quiet, HeldStill, Failover, StartupResumes
  <2>3. TaskDone \/ Crash => n' = n
    BY DEF TaskDone, Crash
  <2>4. ASSUME NEW i \in Run, AttemptNext(i) PROVE n' = n
    <3>1. CASE SpawnDone(i) \/ SpawnFails(i) \/ StageEntered(i)
      BY <3>1 DEF SpawnDone, SpawnFails, StageEntered
    <3>2. CASE HeartbeatStall(i) \/ HeartbeatKill(i) \/ HeartbeatFails(i)
      BY <3>2 DEF HeartbeatStall, HeartbeatKill, HeartbeatFails
    <3>3. CASE EndCrashed(i) \/ EndCapped(i) \/ FailoverFreezes(i)
      BY <3>3 DEF EndCrashed, EndCapped, FailoverFreezes
    <3>4. CASE EndCompleted(i) \/ OrphanEnds(i) \/ Routed(i)
      BY <3>4 DEF EndCompleted, OrphanEnds, Routed
    <3>5. CASE StartupStalls(i) \/ StartupLeaves(i) \/ StartupFinalizes(i)
      BY <3>5 DEF StartupStalls, StartupLeaves, StartupFinalizes
    <3> QED BY <2>2, <2>4, <3>1, <3>2, <3>3, <3>4, <3>5 DEF AttemptNext
  <2>5. ASSUME NEW i \in Run, OperatorNext(i) PROVE n' = n
    <3>1. \A op \in Suspended : Call(i, op) => n' = n
      BY DEF Call
    <3>2. CASE CallThrows(i) \/ pauseRun(i) \/ redirectRun(i)
      BY <3>2 DEF CallThrows, pauseRun, redirectRun, Killed, killRun
    <3>3. CASE cancelRun(i) \/ enforceCostBudget(i)
      BY <3>3 DEF cancelRun, enforceCostBudget, Killed, killRun
    <3>4. CASE retryRun(i) \/ resumePausedRun(i) \/ extend(i) \/ deny(i)
      BY <3>4 DEF retryRun, resumePausedRun, extend, deny
    <3> QED BY <2>5, <3>1, <3>2, <3>3, <3>4 DEF OperatorNext
  <2> QED BY <2>1, <2>3, <2>4, <2>5 DEF Next
<1> QED BY <1>1, <1>2, QuietStep, TypeCorrect, PTL DEF Spec, PauseHolds
================================================================================
