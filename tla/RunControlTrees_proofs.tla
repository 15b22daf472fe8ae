------------------------ MODULE RunControlTrees_proofs ------------------------
(***************************************************************************)
(* The worktrees, for every retry budget and every bound: no two agents in   *)
(* one, and every attempt resumes one as the last agent left it.             *)
(***************************************************************************)
EXTENDS RunControl_proofs

Pending(i) == spawn[i].by # "none"
Shares(i, j) == i # j /\ run[i].tree = run[j].tree

\* A run that does not exist has nothing; one that does has the worktree of an
\* earlier run, or its own.
Fresh ==
  \A i \in Run :
    /\ i > n => ckpt[i] = "none" /\ i \notin session /\ ~Pending(i)
    /\ i <= n => run[i].tree \in 1 .. i

\* A worktree has one checkpoint, ...
OneCheckpoint ==
  \A i, j \in 1 .. n : Shares(i, j) => ckpt[i] = "none" \/ ckpt[j] = "none"

\* ... which is its agent's, if an agent works there, ...
SessionAlone ==
  \A i \in session, j \in 1 .. n :
    Shares(i, j) => ckpt[j] = "none" /\ j \notin session /\ ~Pending(j)

\* ... and nobody works where an agent is being started.
SpawnAlone ==
  \A j \in 1 .. n : Pending(j) =>
    /\ j \notin session /\ run[j].st # "stalled" /\ ckpt[j] = "none"
    /\ \A i \in 1 .. n : Shares(i, j) => i < j /\ i \notin session /\ ~Pending(i)

\* Until its session is recorded, a spawn leaves the checkpoint to the run that
\* it continues, which has ended.
Continues(j, f) ==
  /\ f <= n /\ Shares(f, j) /\ ckpt[f] # "none" /\ ~Live(f)
  /\ spawn[j].by = "failover" => run[f].st # "stalled"

SpawnFrom ==
  \A j \in 1 .. n : Pending(j) =>
    /\ spawn[j].from = 0 => \A i \in 1 .. n : ~Shares(i, j)
    /\ spawn[j].from # 0 => Continues(j, spawn[j].from)

\* An agent without a session, of a live run or of one that nobody has gone past, has
\* the worktree to itself; of a live run, the checkpoint too.
StrayAlone ==
  \A i \in lost \cup orphan : Live(i) \/ i > waived =>
    \A j \in 1 .. n : Shares(i, j) =>
      /\ j \notin session /\ ~Pending(j)
      /\ Live(i) => ckpt[j] = "none"

\* A stalled run has no agent, but for the time of its kill.
StalledIdle == \A i \in session : run[i].st = "stalled" => i \in stalling

\* No agent has worked in the worktree since that of the checkpoint, or of the
\* session.
LatestWork ==
  \A i, j \in 1 .. n :
    (ckpt[i] # "none" \/ i \in session) /\ Shares(i, j) /\ j > i => ~run[j].ran

TreeInv ==
  /\ Fresh /\ OneCheckpoint /\ SessionAlone /\ SpawnAlone /\ SpawnFrom
  /\ StrayAlone /\ StalledIdle /\ LatestWork

\* An agent works with a session, without one whose end is reported, or without; none
\* of them is still being started.
Strays ==
  /\ \A i \in lost \cup orphan : i <= n /\ ~Pending(i)
  /\ \A i \in orphan : i \notin session /\ i \notin lost

LiveLast == \A i \in Run : Live(i) \/ i \in boot => i = n

\* As long as an agent that nobody has gone past works, or is being started, the task
\* is not ready, and no later run is dispatched.
AgentsLast ==
  \A i \in Run : (i \in AtWork \/ Pending(i)) /\ i > waived => i = n /\ task.st # "ready"

WorkInv == Strays /\ LiveLast /\ AgentsLast

\* Whoever works, or is being started, has a row.
LEMMA WorkersExist ==
  ASSUME TypeOK, TreeInv, WorkInv
  PROVE  /\ n \in Nat /\ waived \in Nat
         /\ \A i \in AtWork : i \in Run /\ i \in 1 .. n /\ ~Pending(i)
         /\ \A i \in Run : i \in Nat /\ (Pending(i) => i \in 1 .. n)
<1>1. n \in Nat /\ waived \in Nat /\ \A i \in Run : i \in Nat /\ i >= 1
  BY BoundsAssumption DEF TypeOK, Run
<1>2. \A i \in Run : (i > n => i \notin session /\ ~Pending(i)) /\ (i \notin 1 .. n => i > n)
  BY <1>1 DEF TreeInv, Fresh
<1>3. \A i \in session : i \in Run /\ i \in 1 .. n /\ ~Pending(i)
  BY <1>2 DEF TypeOK, TreeInv, SpawnAlone
<1>4. \A i \in lost \cup orphan : i \in Run /\ i \in 1 .. n /\ ~Pending(i)
  BY <1>1 DEF TypeOK, WorkInv, Strays
<1> QED BY <1>1, <1>2, <1>3, <1>4 DEF AtWork

\* What every step but a dispatch leaves of worktrees and sessions.
Kept(R) == \A i \in Run : R[i].tree = run[i].tree /\ R[i].ran = run[i].ran

LEMMA ToKeeps ==
  ASSUME TypeOK, NEW i \in Run, NEW st \in Ended, NEW why \in {"none", "cap", "reached"}
  PROVE  Kept(To(i, st, why))
<1> DEFINE r == [run[i] EXCEPT !.st = st, !.why = why]
<1>1. run \in [Run -> Row]
  BY DEF TypeOK
<1>2. r.tree = run[i].tree /\ r.ran = run[i].ran
  BY <1>1 DEF Row
<1>3. To(i, st, why) = [run EXCEPT ![i] = r]
  BY <1>1 DEF To, Row
<1> HIDE DEF r
<1> QED BY <1>1, <1>2, <1>3 DEF Kept

LEMMA EditedKeeps ==
  ASSUME TypeOK, NEW i \in Run
  PROVE  Kept([run EXCEPT ![i].why = "none"])
<1> DEFINE r == [run[i] EXCEPT !.why = "none"]
<1>1. run \in [Run -> Row]
  BY DEF TypeOK
<1>2. r.tree = run[i].tree /\ r.ran = run[i].ran
  BY <1>1 DEF Row
<1>3. [run EXCEPT ![i].why = "none"] = [run EXCEPT ![i] = r]
  BY <1>1 DEF Row
<1> HIDE DEF r
<1> QED BY <1>1, <1>2, <1>3 DEF Kept

LEMMA RecoveredKeeps ==
  ASSUME TypeOK, NEW i \in Run
  PROVE  Kept(Recovered(i))
BY ToKeeps, EditedKeeps DEF Recovered, Ended, Resumable

\* A spawn that is back records the session of its run.
LEMMA SpawnedKeeps ==
  ASSUME TypeOK, NEW i \in Run, SpawnDone(i)
  PROVE  \A j \in Run :
           /\ run'[j].tree = run[j].tree
           /\ run'[j].ran = IF j = i THEN TRUE ELSE run[j].ran
           /\ run'[j].st = "stalled" => run[j].st = "stalled"
<1> DEFINE r == [run[i] EXCEPT !.ran = TRUE]
           R == [run EXCEPT ![i] = r]
           over == spawn[i].over
           o == [R[over] EXCEPT !.st = "failed", !.why = "none"]
<1>1. run \in [Run -> Row] /\ over \in Run \cup {0}
  BY DEF TypeOK, SpawnRow
<1>2. r \in Row /\ r.st = run[i].st /\ r.tree = run[i].tree /\ r.ran = TRUE
  BY <1>1 DEF Row
<1>3. /\ R \in [Run -> Row]
      /\ \A j \in Run : /\ R[j].st = run[j].st /\ R[j].tree = run[j].tree
                        /\ R[j].ran = IF j = i THEN TRUE ELSE run[j].ran
  <2> HIDE DEF r
  <2> QED BY <1>1, <1>2
<1>4. [run EXCEPT ![i].ran = TRUE] = R
  BY <1>1 DEF Row
<1>5. over # 0 => o.st = "failed" /\ o.tree = R[over].tree /\ o.ran = R[over].ran
  <2>1. over # 0 => R[over] \in Row
    BY <1>1, <1>3
  <2> HIDE DEF R
  <2> QED BY <2>1 DEF Row
<1>6. run' = IF over = 0 THEN R ELSE [R EXCEPT ![over] = o]
  <2>1. run' = IF over = 0 THEN R ELSE [R EXCEPT ![over].st = "failed", ![over].why = "none"]
    BY <1>4 DEF SpawnDone
  <2>2. over # 0 =>
          [R EXCEPT ![over].st = "failed", ![over].why = "none"] = [R EXCEPT ![over] = o]
    <3> HIDE DEF R
    <3> QED BY <1>1, <1>3 DEF Row
  <2> QED BY <2>1, <2>2
<1> HIDE DEF R, o
<1> QED BY <1>1, <1>3, <1>5, <1>6

\* A dispatch adds a run with a worktree of its own or that of an earlier run.
LEMMA DispatchKeeps ==
  ASSUME TypeOK, NEW R \in [Run -> Row], NEW by \in Waiters,
         NEW from \in Run \cup {0}, NEW over \in Run \cup {0}, Dispatch(R, by, from, over)
  PROVE  /\ \A j \in Run : j # n + 1 => run'[j] = R[j] /\ spawn'[j] = spawn[j]
         /\ run'[n + 1].ran = FALSE /\ run'[n + 1].st = "live"
         /\ run'[n + 1].tree = IF from = 0 THEN n + 1 ELSE R[from].tree
         /\ spawn'[n + 1].by = by /\ by # "none" /\ spawn'[n + 1].from = from
<1> DEFINE s == [by |-> by, from |-> from, over |-> over]
           r == [st |-> "live", why |-> "none", ran |-> FALSE,
                 tree |-> IF from = 0 THEN n + 1 ELSE R[from].tree]
<1>1. n + 1 \in Run
  BY DispatchRow
<1>2. run' = [R EXCEPT ![n + 1] = r] /\ spawn' = [spawn EXCEPT ![n + 1] = s]
  BY DEF Dispatch
<1>3. spawn \in [Run -> SpawnRow]
  BY DEF TypeOK
<1>4. /\ r.ran = FALSE /\ r.st = "live" /\ r.tree = IF from = 0 THEN n + 1 ELSE R[from].tree
      /\ s.by = by /\ s.from = from /\ by # "none"
  BY DEF Waiters
<1> HIDE DEF r, s
<1> QED BY <1>1, <1>2, <1>3, <1>4

\* An agent that loses its session had one, or was being started for a run that has
\* ended; and the task is not readied while one works that nobody has gone past.
CalmStrays ==
  /\ \A j \in lost' \cup orphan' :
       \/ j \in AtWork
       \/ j \in Run /\ Pending(j) /\ run'[j].st # "live" /\ spawn'[j].by = "none"
  /\ \A j \in orphan' : j \notin session' /\ j \notin lost'
  /\ waived' = waived \/ waived' = n
  /\ task'.st = "ready" =>
       \/ task.st = "ready" \/ waived' = n
       \/ \A j \in Run : j \in AtWork' \/ Pending(j) => j <= waived
  /\ \A j \in boot' : j \in boot \/ Live(j)

\* A step that neither dispatches nor records a session or a stage.
Calm ==
  /\ n' = n /\ ckpt' = ckpt /\ session' \subseteq session /\ Kept(run')
  /\ \A j \in Run : spawn'[j] = spawn[j] \/ spawn'[j].by = "none"
  /\ \A j \in Run : run'[j].st = "live" => run[j].st = "live"
  /\ \A j \in Run : run'[j].st = "stalled" =>
       \/ run[j].st = "stalled"
       \/ /\ Live(j) \/ Pending(j)
          /\ spawn'[j].by = "none" /\ (j \in session' => j \in stalling')
  /\ \A j \in session' : j \in stalling => j \in stalling'
  /\ CalmStrays

LEMMA CalmTrees ==
  ASSUME TypeOK, TreeInv, WorkInv, Calm
  PROVE  TreeInv' /\ WorkInv'
<1>1. /\ n' = n /\ ckpt' = ckpt /\ session' \subseteq session /\ n \in 0 .. MaxRuns
      /\ \A i \in Run : run'[i].tree = run[i].tree /\ run'[i].ran = run[i].ran
      /\ \A i, j \in Run : Shares(i, j)' <=> Shares(i, j)
      /\ \A j \in Run : Pending(j)' => Pending(j) /\ spawn'[j] = spawn[j]
      /\ \A i \in Run : i \in 1 .. n => i \in Run
  BY DEF Calm, Kept, Shares, Pending, TypeOK
<1>r. \A i \in 1 .. n : i \in Run
  BY BoundsAssumption DEF TypeOK, Run
<1>s. \A i \in session : i \in Run
  BY DEF TypeOK
<1>2. Fresh'
  BY <1>1 DEF TreeInv, Fresh
<1>3. OneCheckpoint'
  BY <1>1, <1>r DEF TreeInv, OneCheckpoint
<1>4. SessionAlone'
  BY <1>1, <1>r, <1>s DEF TreeInv, SessionAlone
<1>5. SpawnAlone'
  <2>1. \A j \in 1 .. n : Pending(j)' => run'[j].st # "stalled"
    BY <1>1, <1>r DEF TreeInv, SpawnAlone, Calm, Pending
  <2> QED BY <1>1, <1>r, <2>1 DEF TreeInv, SpawnAlone
<1>6. SpawnFrom'
  <2>1. ASSUME NEW j \in 1 .. n, Pending(j)', spawn[j].from = 0, NEW i \in 1 .. n
        PROVE  ~Shares(i, j)'
    BY <1>1, <1>r, <2>1 DEF TreeInv, SpawnFrom
  <2>2. ASSUME NEW j \in 1 .. n, Pending(j)', NEW f \in Run, f = spawn[j].from
        PROVE  Continues(j, f)'
    <3>1. Pending(j) /\ spawn'[j] = spawn[j] /\ j \in Run
      BY <1>1, <1>r, <2>2
    <3>2. Continues(j, f)
      BY <2>2, <3>1, BoundsAssumption DEF TreeInv, SpawnFrom, Run
    <3>3. f \in 1 .. n /\ ~Pending(f) /\ Shares(f, j)'
      BY <1>1, <3>1, <3>2 DEF TreeInv, SpawnAlone, Continues, Run
    <3>4. ~Live(f)' /\ (spawn[j].by = "failover" => run'[f].st # "stalled")
      BY <3>2, <3>3 DEF Calm, Live, Continues
    <3>5. n' = n /\ ckpt' = ckpt /\ spawn'[j].by = spawn[j].by /\ f <= n /\ ckpt[f] # "none"
      BY <1>1, <3>1, <3>2 DEF Continues
    <3> QED BY <3>3, <3>4, <3>5 DEF Continues
  <2>3. \A j \in 1 .. n : Pending(j)' => spawn'[j] = spawn[j] /\ spawn[j].from \in Run \cup {0}
    BY <1>1, <1>r DEF TypeOK, SpawnRow
  <2>4. n' = n
    BY <1>1
  <2> QED BY <2>1, <2>2, <2>3, <2>4 DEF SpawnFrom
<1>7. StalledIdle'
  BY <1>1, <1>s DEF TreeInv, StalledIdle, Calm
<1>8. LatestWork'
  BY <1>1, <1>r DEF TreeInv, LatestWork
<1>9. StrayAlone'
  <2> SUFFICES ASSUME NEW i \in lost' \cup orphan', Live(i)' \/ i > waived',
                      NEW j \in 1 .. n, Shares(i, j)'
               PROVE  j \notin session' /\ ~Pending(j)' /\ (Live(i)' => ckpt'[j] = "none")
    BY <1>1 DEF StrayAlone
  <2>1. i \in AtWork \/ (i \in Run /\ Pending(i) /\ ~Live(i)')
    BY DEF Calm, CalmStrays, Live
  <2>2. i \in 1 .. n /\ i \in Run
    BY <2>1, WorkersExist
  <2>3. Shares(i, j) /\ (Live(i)' => Live(i)) /\ (Live(i) \/ i > waived)
    BY <1>1, <1>r, <2>2, WorkersExist DEF Calm, CalmStrays, Live
  <2>4. j \notin session /\ ~Pending(j) /\ (Live(i)' => ckpt[j] = "none")
    <3>1. CASE i \in session
      BY <2>3, <3>1 DEF TreeInv, SessionAlone
    <3>2. CASE i \in lost \cup orphan
      BY <2>3, <3>2 DEF TreeInv, StrayAlone
    <3>3. CASE Pending(i) /\ ~Live(i)'
      BY <2>2, <2>3, <3>3 DEF TreeInv, SpawnAlone, Shares
    <3> QED BY <2>1, <3>1, <3>2, <3>3 DEF AtWork
  <2> QED BY <1>1, <1>r, <2>4
<1>10. WorkInv'
  <2>1. \A i \in AtWork : i \in Run /\ i <= n /\ ~Pending(i)
    BY WorkersExist
  <2>2. n \in Nat /\ waived \in Nat /\ \A i \in Run : i \in Nat /\ (Pending(i) => i <= n)
    BY WorkersExist
  <2>3. \A i \in lost' \cup orphan' :
          i <= n /\ (i \in AtWork \/ (i \in Run /\ Pending(i) /\ ~Pending(i)'))
    BY <2>1, <2>2 DEF Calm, CalmStrays, Pending
  <2>4. Strays'
    BY <1>1, <2>1, <2>3 DEF Strays, Calm, CalmStrays
  <2>5. LiveLast'
    BY <1>1 DEF WorkInv, LiveLast, Live, Calm, CalmStrays
  <2>6. AgentsLast'
    <3> SUFFICES ASSUME NEW i \in Run, i \in AtWork' \/ Pending(i)', i > waived'
                 PROVE  i = n /\ task'.st # "ready"
      BY <1>1 DEF AgentsLast
    <3>1. i \in AtWork \/ Pending(i)
      BY <1>1, <2>3 DEF AtWork
    <3>2. i <= n
      BY <2>1, <2>2, <3>1
    <3>3. waived' # n /\ waived' = waived /\ ~(i <= waived)
      BY <2>2, <3>2 DEF Calm, CalmStrays
    <3>4. i = n /\ task.st # "ready"
      BY <2>2, <3>1, <3>3 DEF WorkInv, AgentsLast
    <3>5. i \in AtWork' \/ Pending(i)
      BY <1>1
    <3> QED BY <3>3, <3>4, <3>5 DEF Calm, CalmStrays
  <2> QED BY <2>4, <2>5, <2>6 DEF WorkInv
<1> QED BY <1>2, <1>3, <1>4, <1>5, <1>6, <1>7, <1>8, <1>9, <1>10 DEF TreeInv

\* The worktree of the run that a dispatch continues, if any, has a checkpoint and
\* nobody who works or is being started in it; and whoever works or is being started
\* anywhere has been gone past.
Free(R, by, from) ==
  /\ from # 0 =>
       /\ from <= n /\ ckpt[from] # "none"
       /\ by = "failover" => R[from].st # "stalled"
       /\ \A j \in 1 .. n : run[j].tree = run[from].tree => j \notin session' /\ ~Pending(j)
  /\ \A j \in Run : R[j].st = "stalled" =>
       run[j].st = "stalled" \/ (session' = {} /\ \A k \in Run : ~Pending(k))
  /\ \A j \in Run : j \in AtWork' \/ Pending(j) => j <= waived'

LEMMA DispatchTrees ==
  ASSUME TypeOK, TreeInv, WorkInv, NEW R \in [Run -> Row], NEW by \in Waiters,
         NEW from \in Run \cup {0}, NEW over \in Run \cup {0}, Dispatch(R, by, from, over),
         Kept(R), Free(R, by, from),
         ckpt' = ckpt, session' \subseteq session, stalling' = stalling,
         lost' \subseteq lost, orphan' = orphan, waived' \in Nat, boot' = {}, task'.st = "active"
  PROVE  TreeInv' /\ WorkInv'
<1>m. PICK m \in Run : m = n + 1
  BY DispatchRow
<1>1. /\ \A j \in Run : j # m => run'[j] = R[j] /\ spawn'[j] = spawn[j]
      /\ run'[m].ran = FALSE /\ run'[m].st = "live"
      /\ run'[m].tree = IF from = 0 THEN m ELSE R[from].tree
      /\ spawn'[m].by = by /\ by # "none" /\ spawn'[m].from = from
  <2>1. /\ \A j \in Run : j # n + 1 => run'[j] = R[j] /\ spawn'[j] = spawn[j]
        /\ run'[n + 1].ran = FALSE /\ run'[n + 1].st = "live"
        /\ run'[n + 1].tree = IF from = 0 THEN n + 1 ELSE R[from].tree
        /\ spawn'[n + 1].by = by /\ by # "none" /\ spawn'[n + 1].from = from
    BY DispatchKeeps
  <2> QED BY <1>m, <2>1
<1>2. n \in Nat /\ n' = m /\ m = n + 1 /\ \A j \in Run : R[j].st # "live"
  <2>1. n \in Nat
    BY DEF TypeOK
  <2> QED BY <1>m, <2>1, DispatchRow
<1>3. /\ \A i \in 1 .. n : i \in Run /\ i # m
      /\ \A i \in 1 .. n' : i \in 1 .. n \/ i = m
      /\ \A i \in session' : i \in Run
  BY <1>2, BoundsAssumption DEF TypeOK, Run
<1>4. \A j \in Run : j # m => run'[j].tree = run[j].tree /\ run'[j].ran = run[j].ran
  BY <1>1 DEF Kept
<1>5. /\ ckpt'[m] = "none" /\ m \notin session' /\ m \notin session
      /\ \A i \in session' : i \in 1 .. n
  BY <1>2, <1>3 DEF TreeInv, Fresh, Run
<1>6. \A i, j \in 1 .. n : Shares(i, j)' <=> Shares(i, j)
  BY <1>3, <1>4 DEF Shares
<1>7. \A j \in 1 .. n : (Pending(j)' <=> Pending(j)) /\ spawn'[j] = spawn[j]
  BY <1>1, <1>3 DEF Pending
\* The sharers of the new run.
<1>8. ASSUME NEW j \in 1 .. n, run'[j].tree = run'[m].tree
      PROVE  from # 0 /\ run[j].tree = run[from].tree /\ j \notin session' /\ ~Pending(j)
  <2>1. run'[j].tree = run[j].tree /\ run[j].tree \in 1 .. j
    BY <1>3, <1>4 DEF TreeInv, Fresh
  <2>2. from # 0
    BY <1>1, <1>2, <1>8, <2>1
  <2>3. run'[m].tree = run[from].tree
    BY <1>1, <2>2 DEF Kept
  <2> QED BY <1>8, <2>1, <2>2, <2>3 DEF Free
<1>9. from # 0 => from \in 1 .. n /\ run'[from].tree = run'[m].tree
  BY <1>1, <1>2, <1>4 DEF Free, Kept, Run
<1>10. Fresh'
  <2>1. ASSUME NEW i \in Run, i > n'
        PROVE  ckpt'[i] = "none" /\ i \notin session' /\ ~Pending(i)'
    BY <1>1, <1>2, <2>1 DEF TreeInv, Fresh, Pending, Run
  <2>2. ASSUME NEW i \in 1 .. n PROVE run'[i].tree \in 1 .. i
    BY <1>3, <1>4 DEF TreeInv, Fresh
  <2>3. run'[m].tree \in 1 .. m
    <3>1. CASE from = 0
      BY <1>1, <1>2, <3>1
    <3>2. CASE from # 0
      BY <1>2, <1>9, <2>2, <3>2
    <3> QED BY <3>1, <3>2
  <2>4. \A i \in Run : i <= n' => i \in 1 .. n \/ i = m
    BY <1>2 DEF Run
  <2> QED BY <2>1, <2>2, <2>3, <2>4 DEF Fresh
<1>11. OneCheckpoint'
  BY <1>3, <1>5, <1>6 DEF TreeInv, OneCheckpoint
<1>12. SessionAlone'
  <2>1. ASSUME NEW i \in session', NEW j \in 1 .. n, Shares(i, j)'
        PROVE  ckpt[j] = "none" /\ j \notin session /\ ~Pending(j)
    BY <1>5, <1>6, <2>1 DEF TreeInv, SessionAlone
  <2>2. \A i \in session' : ~Shares(i, m)'
    BY <1>5, <1>8 DEF Shares
  <2> QED BY <1>3, <1>7, <2>1, <2>2 DEF SessionAlone
<1>13. SpawnAlone'
  <2>1. ASSUME NEW j \in 1 .. n, Pending(j)'
        PROVE  /\ j \notin session' /\ run'[j].st # "stalled" /\ ckpt'[j] = "none"
               /\ \A i \in 1 .. n : Shares(i, j)' => i < j /\ i \notin session' /\ ~Pending(i)'
               /\ ~Shares(m, j)'
    <3>1. Pending(j) /\ j \in Run /\ j # m
      BY <1>3, <1>7, <2>1
    <3>2. /\ j \notin session /\ run[j].st # "stalled" /\ ckpt[j] = "none"
          /\ \A i \in 1 .. n : Shares(i, j) => i < j /\ i \notin session /\ ~Pending(i)
      BY <3>1 DEF TreeInv, SpawnAlone
    <3>3. run'[j].st # "stalled"
      BY <1>1, <3>1, <3>2 DEF Free
    <3>4. ~Shares(m, j)'
      BY <1>8, <3>1 DEF Shares
    <3> QED BY <1>6, <1>7, <3>2, <3>3, <3>4
  <2>2. \A i \in 1 .. n : Shares(i, m)' => i < m /\ i \notin session' /\ ~Pending(i)'
    BY <1>2, <1>7, <1>8 DEF Shares
  <2>3. ~Shares(m, m)'
    BY DEF Shares
  <2> QED BY <1>1, <1>3, <1>5, <2>1, <2>2, <2>3 DEF SpawnAlone
<1>14. SpawnFrom'
  <2>1. ASSUME NEW j \in 1 .. n, Pending(j)', spawn[j].from = 0, NEW i \in 1 .. n'
        PROVE  ~Shares(i, j)'
    <3>1. Pending(j)
      BY <1>7, <2>1
    <3>2. i \in 1 .. n => ~Shares(i, j)'
      BY <1>6, <2>1, <3>1 DEF TreeInv, SpawnFrom
    <3>3. ~Shares(m, j)'
      BY <1>8, <3>1 DEF Shares
    <3> QED BY <1>3, <3>2, <3>3
  <2>2. ASSUME NEW j \in 1 .. n, Pending(j)', NEW f \in Run, f = spawn[j].from
        PROVE  Continues(j, f)'
    <3>1. Pending(j) /\ spawn'[j] = spawn[j] /\ j \in Run
      BY <1>3, <1>7, <2>2
    <3>2. Continues(j, f)
      BY <2>2, <3>1, BoundsAssumption DEF TreeInv, SpawnFrom, Run
    <3>3. f \in 1 .. n /\ f # m /\ Shares(f, j)'
      BY <1>2, <1>6, <3>2 DEF Continues, Run
    <3>4. run'[f].st # "live" /\ (spawn[j].by = "failover" => run'[f].st # "stalled")
      BY <1>1, <1>2, <3>1, <3>2, <3>3 DEF Continues, Free
    <3>5. f <= n' /\ ckpt' = ckpt /\ spawn'[j].by = spawn[j].by /\ ckpt[f] # "none"
      BY <1>2, <3>1, <3>2, <3>3 DEF Continues
    <3> QED BY <3>3, <3>4, <3>5 DEF Continues, Live
  <2>3. from = 0 => \A i \in 1 .. n' : ~Shares(i, m)'
    BY <1>3, <1>8 DEF Shares
  <2>4. from # 0 => Continues(m, from)'
    <3> SUFFICES ASSUME from # 0 PROVE Continues(m, from)'
      OBVIOUS
    <3>1. from \in Run /\ from \in 1 .. n /\ from # m /\ run'[from] = R[from]
      BY <1>1, <1>2, <1>3, <1>9
    <3>2. from <= n' /\ Shares(from, m)' /\ run'[from].st # "live"
      BY <1>2, <1>9, <3>1 DEF Shares
    <3>3. ckpt'[from] # "none" /\ (by = "failover" => run'[from].st # "stalled")
      BY <3>1 DEF Free
    <3> QED BY <1>1, <3>2, <3>3 DEF Continues, Live
  <2>5. \A j \in 1 .. n : spawn'[j] = spawn[j] /\ spawn[j].from \in Run \cup {0}
    BY <1>3, <1>7 DEF TypeOK, SpawnRow
  <2> QED BY <1>1, <1>3, <2>1, <2>2, <2>3, <2>4, <2>5 DEF SpawnFrom
<1>15. StalledIdle'
  BY <1>1, <1>3, <1>5 DEF TreeInv, StalledIdle, Free
<1>16. LatestWork'
  <2>1. \A i, j \in 1 .. n : (ckpt'[i] # "none" \/ i \in session') /\ Shares(i, j)' /\ j > i
                            => ~run'[j].ran
    BY <1>3, <1>4, <1>6 DEF TreeInv, LatestWork
  <2> QED BY <1>1, <1>3, <1>5, <2>1 DEF LatestWork
<1>17. StrayAlone'
  <2>1. ASSUME NEW j \in lost' \cup orphan'
        PROVE  ~Live(j)' /\ ~(j > waived')
    <3>1. j \in Run /\ j \in AtWork' /\ j <= n
      BY DEF TypeOK, AtWork, WorkInv, Strays
    <3>2. j <= waived' /\ waived' \in Nat
      BY <3>1 DEF Free
    <3> QED BY <1>1, <1>2, <3>1, <3>2 DEF Live, Run
  <2> QED BY <2>1 DEF StrayAlone
<1>18. WorkInv'
  <2>1. Strays'
    <3>1. \A j \in lost \cup orphan : j \in Run /\ j <= n /\ ~Pending(j) /\ j # m
      BY <1>2 DEF TypeOK, WorkInv, Strays, Run
    <3>2. \A j \in lost \cup orphan : j <= n' /\ ~Pending(j)'
      BY <1>1, <1>2, <3>1 DEF Pending, Run
    <3> QED BY <3>2 DEF WorkInv, Strays
  <2>2. LiveLast'
    BY <1>1, <1>2 DEF LiveLast, Live
  <2>3. AgentsLast'
    <3> SUFFICES ASSUME NEW j \in Run, j \in AtWork' \/ Pending(j)', j > waived'
                 PROVE  j = m
      BY <1>2 DEF AgentsLast
    <3>1. j # m => j \in AtWork' \/ Pending(j)
      BY <1>1 DEF Pending
    <3> QED BY <3>1 DEF Free, Run
  <2> QED BY <2>1, <2>2, <2>3 DEF WorkInv
<1> QED BY <1>10, <1>11, <1>12, <1>13, <1>14, <1>15, <1>16, <1>17, <1>18 DEF TreeInv

\* The session of a spawn takes the checkpoint over from the run it continues.
LEMMA SpawnTrees ==
  ASSUME TypeOK, TreeInv, WorkInv, NEW i \in Run, SpawnDone(i)
  PROVE  TreeInv' /\ WorkInv'
<1>1. \A j \in Run :
        /\ run'[j].tree = run[j].tree
        /\ run'[j].ran = IF j = i THEN TRUE ELSE run[j].ran
        /\ run'[j].st = "stalled" => run[j].st = "stalled"
        /\ run'[j].st = "live" => run[j].st = "live"
  BY SpawnedKeeps, SpawnedRow
<1>2. /\ n' = n /\ session' = session \cup {i} /\ stalling' = stalling /\ Pending(i)
      /\ \A j \in Run : j # i => spawn'[j] = spawn[j]
      /\ ~Pending(i)' /\ spawn[i].from \in Run \cup {0}
  BY DEF SpawnDone, Pending, NoSpawn, TypeOK, SpawnRow
<1>3. i \in 1 .. n /\ \A j \in 1 .. n : j \in Run
  BY <1>2, BoundsAssumption DEF TreeInv, Fresh, TypeOK, Run
<1>4. \A j \in Run : (Pending(j)' => j # i /\ Pending(j)) /\ (j # i => (Pending(j)' <=> Pending(j)))
  BY <1>2 DEF Pending
<1>5. \A j, k \in 1 .. n : Shares(j, k)' <=> Shares(j, k)
  BY <1>1, <1>3 DEF Shares
<1>6. /\ i \notin session /\ run[i].st # "stalled" /\ ckpt[i] = "none"
      /\ \A k \in 1 .. n : Shares(k, i) \/ Shares(i, k) => k < i /\ k \notin session /\ ~Pending(k)
  BY <1>2, <1>3 DEF TreeInv, SpawnAlone, Shares
\* The checkpoint is now i's alone.
<1>7. /\ \A j \in Run : ckpt'[j] # "none" => j = i \/ ckpt[j] # "none"
      /\ \A j \in 1 .. n : Shares(j, i) => ckpt'[j] = "none"
      /\ \A j \in Run : ckpt[j] # "none" => ckpt'[j] # "none" \/ Shares(j, i)
  <2>1. CASE spawn[i].from = 0
    <3>1. ckpt' = ckpt /\ \A j \in 1 .. n : ~Shares(j, i)
      BY <1>2, <1>3, <2>1 DEF SpawnDone, CheckpointMoved, TreeInv, SpawnFrom
    <3> QED BY <3>1
  <2>2. ASSUME NEW f \in Run, f = spawn[i].from
        PROVE  <1>7!1 /\ <1>7!2 /\ <1>7!3
    <3>1. f # 0 /\ f \in 1 .. n /\ Shares(f, i) /\ ckpt[f] # "none" /\ f # i
      BY <1>2, <1>3, <2>2, BoundsAssumption DEF TreeInv, SpawnFrom, Continues, Run, Shares
    <3>2. /\ ckpt' = [ckpt EXCEPT ![i] = "early", ![f] = "none"]
          /\ ckpt \in [Run -> {"none", "early", "late"}]
      BY <2>2, <3>1 DEF SpawnDone, CheckpointMoved, TypeOK
    <3>3. \A j \in 1 .. n : Shares(j, i) => ckpt'[j] = "none"
      <4> SUFFICES ASSUME NEW j \in 1 .. n, Shares(j, i), j # f PROVE ckpt'[j] = "none"
        BY <1>3, <3>1, <3>2
      <4>1. Shares(f, j) /\ j # i
        BY <3>1 DEF Shares
      <4>2. ckpt[j] = "none"
        BY <3>1, <4>1 DEF TreeInv, OneCheckpoint
      <4> QED BY <1>3, <3>2, <4>1, <4>2
    <3> QED BY <3>1, <3>2, <3>3
  <2> QED BY <1>2, <2>1, <2>2
<1>8. Fresh'
  BY <1>1, <1>2, <1>3, <1>4, <1>7 DEF TreeInv, Fresh, Run
<1>9. OneCheckpoint'
  <2> SUFFICES ASSUME NEW j \in 1 .. n, NEW k \in 1 .. n, Shares(j, k), ckpt'[j] # "none"
               PROVE  ckpt'[k] = "none"
    BY <1>2, <1>5 DEF OneCheckpoint
  <2>1. CASE j = i
    BY <1>7, <2>1 DEF Shares
  <2>2. CASE j # i /\ k = i
    BY <1>7, <2>2
  <2>3. CASE j # i /\ k # i
    BY <1>3, <1>7, <2>3 DEF TreeInv, OneCheckpoint
  <2> QED BY <2>1, <2>2, <2>3
<1>10. SessionAlone'
  <2> SUFFICES ASSUME NEW j \in session', NEW k \in 1 .. n, Shares(j, k)'
               PROVE  ckpt'[k] = "none" /\ k \notin session' /\ ~Pending(k)'
    BY <1>2 DEF SessionAlone
  <2>1. CASE j = i
    BY <1>2, <1>3, <1>4, <1>5, <1>6, <1>7, <2>1 DEF Shares
  <2>2. CASE j # i
    <3>1. j \in session /\ j \in 1 .. n
      BY <1>2, <2>2, BoundsAssumption DEF TypeOK, TreeInv, Fresh, Run
    <3>2. Shares(j, k) /\ k # i
      BY <1>5, <1>6, <3>1
    <3>3. ckpt[k] = "none" /\ k \notin session /\ ~Pending(k)
      BY <3>1, <3>2 DEF TreeInv, SessionAlone
    <3> QED BY <1>2, <1>3, <1>4, <1>7, <3>2, <3>3
  <2> QED BY <2>1, <2>2
<1>11. SpawnAlone'
  <2> SUFFICES ASSUME NEW j \in 1 .. n, Pending(j)'
               PROVE  /\ j \notin session' /\ run'[j].st # "stalled" /\ ckpt'[j] = "none"
                      /\ \A k \in 1 .. n : Shares(k, j)' =>
                           k < j /\ k \notin session' /\ ~Pending(k)'
    BY <1>2 DEF SpawnAlone
  <2>1. j \in Run /\ j # i /\ Pending(j) /\ ~Shares(i, j)
    BY <1>3, <1>4, <1>6
  <2>2. /\ j \notin session /\ run[j].st # "stalled" /\ ckpt[j] = "none"
        /\ \A k \in 1 .. n : Shares(k, j) => k < j /\ k \notin session /\ ~Pending(k)
    BY <2>1 DEF TreeInv, SpawnAlone
  <2>3. \A k \in 1 .. n : Shares(k, j)' => k < j /\ k \notin session' /\ ~Pending(k)'
    BY <1>2, <1>3, <1>4, <1>5, <2>1, <2>2
  <2> QED BY <1>1, <1>2, <1>7, <2>1, <2>2, <2>3
<1>12. SpawnFrom'
  <2>1. ASSUME NEW j \in 1 .. n, Pending(j)', spawn[j].from = 0, NEW k \in 1 .. n
        PROVE  ~Shares(k, j)'
    BY <1>3, <1>4, <1>5, <2>1 DEF TreeInv, SpawnFrom
  <2>2. ASSUME NEW j \in 1 .. n, Pending(j)', NEW f \in Run, f = spawn[j].from
        PROVE  Continues(j, f)'
    <3>1. j \in Run /\ j # i /\ Pending(j) /\ spawn'[j] = spawn[j]
      BY <1>2, <1>3, <1>4, <2>2
    <3>2. Continues(j, f)
      BY <2>2, <3>1, BoundsAssumption DEF TreeInv, SpawnFrom, Run
    <3>3. f \in 1 .. n /\ Shares(f, j) /\ Shares(f, j)'
      BY <1>5, <3>2 DEF Continues, Run
    <3>4. ~Shares(f, i)
      BY <1>6, <3>1, <3>3 DEF Shares
    <3>5. ckpt'[f] # "none"
      BY <1>7, <3>2, <3>4 DEF Continues
    <3>6. run'[f].st # "live" /\ (spawn[j].by = "failover" => run'[f].st # "stalled")
      BY <1>1, <3>2 DEF Continues, Live
    <3>7. f <= n' /\ spawn'[j].by = spawn[j].by
      BY <1>2, <3>1, <3>3
    <3> QED BY <3>3, <3>5, <3>6, <3>7 DEF Continues, Live
  <2>3. \A j \in 1 .. n : Pending(j)' => spawn'[j] = spawn[j] /\ spawn[j].from \in Run \cup {0}
    BY <1>2, <1>3, <1>4 DEF TypeOK, SpawnRow
  <2> QED BY <1>2, <2>1, <2>2, <2>3 DEF SpawnFrom
<1>13. StalledIdle'
  BY <1>1, <1>2, <1>6 DEF TypeOK, TreeInv, StalledIdle
<1>14. LatestWork'
  <2> SUFFICES ASSUME NEW j \in 1 .. n, NEW k \in 1 .. n, ckpt'[j] # "none" \/ j \in session',
                      Shares(j, k), k > j
               PROVE  ~run'[k].ran
    BY <1>2, <1>5 DEF LatestWork
  <2>1. j # i
    BY <1>6
  <2>2. k # i
    BY <1>2, <1>6, <1>7, <2>1 DEF Shares
  <2> QED BY <1>1, <1>2, <1>3, <1>7, <2>1, <2>2 DEF TreeInv, LatestWork
<1>15. StrayAlone'
  <2>1. lost' = lost /\ orphan' = orphan /\ waived' = waived
    BY DEF SpawnDone, bill
  <2> SUFFICES ASSUME NEW j \in lost \cup orphan, Live(j)' \/ j > waived,
                      NEW k \in 1 .. n, Shares(j, k)'
               PROVE  k \notin session' /\ ~Pending(k)' /\ (Live(j)' => ckpt'[k] = "none")
    BY <1>2, <2>1 DEF StrayAlone
  <2>2. j \in Run /\ j \in 1 .. n /\ (Live(j)' => Live(j))
    BY <1>1, WorkersExist DEF AtWork, Live
  <2>3. k \notin session /\ ~Pending(k) /\ (Live(j)' => ckpt[k] = "none")
    BY <1>5, <2>2 DEF TreeInv, StrayAlone
  <2>4. k # i
    BY <1>2, <2>3
  <2> QED BY <1>2, <1>3, <1>4, <1>7, <2>3, <2>4
<1>16. WorkInv'
  <2>1. UNCHANGED <<lost, orphan, waived, task, boot>>
    BY DEF SpawnDone, bill
  <2>2. Strays'
    BY <1>2, <1>4, <2>1 DEF TypeOK, WorkInv, Strays
  <2>3. LiveLast'
    BY <1>1, <1>2, <2>1 DEF WorkInv, LiveLast, Live
  <2>4. AgentsLast'
    BY <1>2, <1>4, <2>1 DEF WorkInv, AgentsLast, AtWork
  <2> QED BY <2>2, <2>3, <2>4 DEF WorkInv
<1> QED BY <1>8, <1>9, <1>10, <1>11, <1>12, <1>13, <1>14, <1>15, <1>16 DEF TreeInv

\* A stage gives a checkpoint only to a run with an agent.
LEMMA StageTrees ==
  ASSUME TypeOK, TreeInv, WorkInv, NEW i \in Run, StageEntered(i)
  PROVE  TreeInv' /\ WorkInv'
<1>1. /\ UNCHANGED <<n, run, session, lost, orphan, spawn, stalling, waived>>
      /\ i \in session \/ i \in lost \cup orphan
      /\ Live(i) /\ i = n
      /\ \A j \in Run : j # i => ckpt'[j] = ckpt[j]
      /\ ckpt'[i] # "none"
  BY DEF StageEntered, AtWork, workers, bill, TypeOK, WorkInv, LiveLast
<1>2. /\ \A j \in Run : Pending(j)' <=> Pending(j)
      /\ \A j, k \in Run : Shares(j, k)' <=> Shares(j, k)
      /\ \A j \in Run : Live(j)' <=> Live(j)
      /\ \A j \in 1 .. n : j \in Run
      /\ \A j \in session : j \in Run /\ j \in 1 .. n
      /\ \A j \in lost \cup orphan : j \in Run /\ j \in 1 .. n
      /\ i \in 1 .. n
  BY <1>1, BoundsAssumption
    DEF Pending, Shares, Live, TypeOK, Run, TreeInv, Fresh, WorkInv, Strays
\* The run has the worktree to itself.
<1>a. /\ \A j \in 1 .. n : Shares(i, j) \/ Shares(j, i) =>
           ckpt[j] = "none" /\ j \notin session /\ ~Pending(j)
      /\ ~Pending(i)
  <2>1. \A j \in 1 .. n : Shares(i, j) => ckpt[j] = "none" /\ j \notin session /\ ~Pending(j)
    BY <1>1 DEF TreeInv, SessionAlone, StrayAlone
  <2>2. ~Pending(i)
    BY <1>1, <1>2 DEF TreeInv, SpawnAlone, WorkInv, Strays
  <2> QED BY <2>1, <2>2 DEF Shares
<1>3. Fresh' /\ StalledIdle'
  BY <1>1, <1>2 DEF TreeInv, Fresh, StalledIdle, Run
<1>4. OneCheckpoint'
  <2> SUFFICES ASSUME NEW j \in 1 .. n, NEW k \in 1 .. n, Shares(j, k)
               PROVE  ckpt'[j] = "none" \/ ckpt'[k] = "none"
    BY <1>1, <1>2 DEF OneCheckpoint
  <2>1. CASE j = i \/ k = i
    BY <1>1, <1>2, <1>a, <2>1 DEF Shares
  <2>2. CASE j # i /\ k # i
    BY <1>1, <1>2, <2>2 DEF TreeInv, OneCheckpoint
  <2> QED BY <2>1, <2>2
<1>5. SessionAlone'
  <2> SUFFICES ASSUME NEW j \in session, NEW k \in 1 .. n, Shares(j, k)
               PROVE  ckpt'[k] = "none" /\ k \notin session /\ ~Pending(k)
    BY <1>1, <1>2 DEF TypeOK, SessionAlone
  <2>1. ckpt[k] = "none" /\ k \notin session /\ ~Pending(k)
    BY DEF TreeInv, SessionAlone
  <2>2. k # i
    BY <1>2, <1>a
  <2> QED BY <1>1, <1>2, <2>1, <2>2
<1>6. SpawnAlone'
  BY <1>1, <1>2, <1>a DEF TreeInv, SpawnAlone
<1>7. SpawnFrom'
  <2>1. \A j \in 1 .. n, f \in Run : Continues(j, f) => Continues(j, f)'
    BY <1>1, <1>2 DEF Continues, Live
  <2>2. \A j \in 1 .. n : spawn[j].from \in Run \cup {0}
    BY <1>2 DEF TypeOK, SpawnRow
  <2> QED BY <1>1, <1>2, <2>1, <2>2 DEF TreeInv, SpawnFrom
<1>8. LatestWork'
  <2> SUFFICES ASSUME NEW j \in 1 .. n, NEW k \in 1 .. n, ckpt'[j] # "none" \/ j \in session,
                      Shares(j, k), k > j
               PROVE  ~run[k].ran
    BY <1>1, <1>2 DEF LatestWork
  <2>1. j # i
    BY <1>1, <1>2
  <2> QED BY <1>1, <1>2, <2>1 DEF TreeInv, LatestWork
<1>9. StrayAlone'
  <2> SUFFICES ASSUME NEW j \in lost \cup orphan, Live(j) \/ j > waived,
                      NEW k \in 1 .. n, Shares(j, k)
               PROVE  k \notin session /\ ~Pending(k) /\ (Live(j) => ckpt'[k] = "none")
    BY <1>1, <1>2 DEF StrayAlone
  <2>1. k \notin session /\ ~Pending(k) /\ (Live(j) => ckpt[k] = "none")
    BY DEF TreeInv, StrayAlone
  <2>2. Live(j) => k # i
    BY <1>1, <1>2 DEF WorkInv, LiveLast, Shares
  <2> QED BY <1>1, <1>2, <2>1, <2>2
<1>10. WorkInv'
  <2>1. UNCHANGED <<session, lost, orphan, waived, task, boot>>
    BY DEF StageEntered, workers, bill
  <2> QED BY <1>1, <1>2, <2>1 DEF WorkInv, Strays, LiveLast, AgentsLast, AtWork
<1> QED BY <1>3, <1>4, <1>5, <1>6, <1>7, <1>8, <1>9, <1>10 DEF TreeInv

\* The end of a run, or none, is calm.
LEMMA EndCalm ==
  ASSUME TypeOK, CalmStrays, NEW i \in Run, n' = n, ckpt' = ckpt, session' \subseteq session,
         \A j \in Run : spawn'[j] = spawn[j] \/ spawn'[j].by = "none",
         \A j \in session' : j \in stalling => j \in stalling',
         \/ run' = run
         \/ \E st \in Ended, why \in {"none", "cap", "reached"} :
              /\ run' = To(i, st, why)
              /\ st = "stalled" => /\ Live(i) \/ Pending(i)
                                   /\ spawn'[i].by = "none"
                                   /\ i \in session' => i \in stalling'
  PROVE  Calm
<1>1. CASE run' = run
  BY <1>1 DEF Calm, Kept
<1>2. ASSUME NEW st \in Ended, NEW why \in {"none", "cap", "reached"}, run' = To(i, st, why),
             st = "stalled" => /\ Live(i) \/ Pending(i)
                               /\ spawn'[i].by = "none"
                               /\ i \in session' => i \in stalling'
      PROVE  Calm
  <2>1. Kept(run')
    BY <1>2, ToKeeps
  <2>2. st # "live" /\ \A j \in Run : run'[j].st = IF j = i THEN st ELSE run[j].st
    <3> DEFINE R == To(i, st, why)
    <3>1. st # "live" /\ \A j \in Run : R[j].st = IF j = i THEN st ELSE run[j].st
      BY ToRow
    <3> HIDE DEF R
    <3>2. run' = R
      BY <1>2 DEF R
    <3> QED BY <3>1, <3>2
  <2> QED BY <1>2, <2>1, <2>2 DEF Calm
<1> QED BY <1>1, <1>2

LEMMA TreeStep == TypeOK /\ Quiet /\ TreeInv /\ WorkInv /\ [Next]_vars => TreeInv' /\ WorkInv'
<1> USE DEF workers, bill
<1> SUFFICES ASSUME TypeOK, Quiet, TreeInv, WorkInv, [Next]_vars PROVE TreeInv' /\ WorkInv'
  OBVIOUS
<1>0. \A i \in session : i \in Run /\ i \in 1 .. n /\ ~Pending(i)
  BY BoundsAssumption DEF TypeOK, TreeInv, Fresh, SpawnAlone, Run
<1>s. \A i \in 1 .. n : i \in Run
  BY BoundsAssumption DEF TypeOK, Run
<1>b. boot # {} => session = {} /\ lost = {} /\ \A i \in Run : ~Pending(i)
  BY DEF Quiet, BootAlone, Pending
<1>1. ASSUME NEW i \in Run, SpawnFails(i) PROVE TreeInv' /\ WorkInv'
  <2>0. /\ Pending(i) /\ i \notin session /\ spawn'[i].by = "none"
        /\ \A j \in Run : spawn'[j] = spawn[j] \/ spawn'[j].by = "none"
    BY <1>0, <1>1 DEF SpawnFails, NoSpawn, Pending, TypeOK
  <2>1. CalmStrays
    <3>1. /\ i \notin lost \cup orphan /\ run'[i].st = "stalled"
          /\ orphan' \subseteq orphan \cup {i}
      BY <1>1, <2>0, ToRow DEF SpawnFails, WorkInv, Strays, Ended, Resumable
    <3> QED BY <1>1, <2>0, <3>1 DEF SpawnFails, CalmStrays, AtWork, WorkInv, Strays
  <2>2. Calm
    BY <1>1, <2>0, <2>1, EndCalm DEF SpawnFails, Ended, Resumable
  <2> QED BY <2>2, CalmTrees
<1>2. ASSUME NEW i \in Run, HeartbeatStall(i) PROVE TreeInv' /\ WorkInv'
  <2>0. CalmStrays
    BY <1>2 DEF HeartbeatStall, CalmStrays, AtWork, WorkInv, Strays
  <2>1. Calm
    BY <1>2, <2>0, EndCalm DEF HeartbeatStall, Ended, Resumable
  <2> QED BY <2>1, CalmTrees
<1>3. ASSUME NEW i \in Run, HeartbeatKill(i) PROVE TreeInv' /\ WorkInv'
  <2>0. CalmStrays
    BY <1>3 DEF HeartbeatKill, Pending, CalmStrays, AtWork, WorkInv, Strays
  <2>1. Calm
    BY <1>3, <1>0, <2>0, EndCalm DEF HeartbeatKill, Pending, Ended, Resumable
  <2> QED BY <2>1, CalmTrees
<1>4. ASSUME NEW i \in Run, HeartbeatFails(i) PROVE TreeInv' /\ WorkInv'
  <2>0. CalmStrays
    BY <1>4 DEF HeartbeatFails, Forgotten, CalmStrays, AtWork, WorkInv, Strays
  <2>1. Calm
    BY <1>4, <2>0, EndCalm DEF HeartbeatFails, Forgotten, Ended, Resumable
  <2> QED BY <2>1, CalmTrees
<1>5. ASSUME NEW i \in Run, EndCrashed(i) PROVE TreeInv' /\ WorkInv'
  <2>1. /\ session' = session \ {i} /\ lost' = lost \ {i}
        /\ UNCHANGED <<orphan, waived, spawn, stalling, boot, n, ckpt>>
        /\ i \in session \cup lost /\ ~Pending(i)
    BY <1>5, <1>0 DEF EndCrashed, Exits, AtWork, WorkInv, Strays
  <2>2. ASSUME Live(i), NEW j \in Run, j \in AtWork' \/ Pending(j) PROVE j <= waived
    <3>1. j # i /\ (j \in AtWork \/ Pending(j))
      BY <2>1, <2>2 DEF AtWork, WorkInv, Strays
    <3>2. i = n /\ waived \in Nat
      BY <2>2, BoundsAssumption DEF WorkInv, LiveLast, TypeOK
    <3> QED BY <3>1, <3>2 DEF WorkInv, AgentsLast, Run
  <2>3. Live(i) \/ UNCHANGED <<run, task>>
    BY <1>5 DEF EndCrashed
  <2>4. CalmStrays
    BY <2>1, <2>2, <2>3 DEF CalmStrays, AtWork, WorkInv, Strays
  <2>5. Calm
    BY <1>5, <1>0, <2>1, <2>4, EndCalm DEF EndCrashed, Exits, retryOrFail, Pending, Ended, Resumable
  <2> QED BY <2>5, CalmTrees
<1>6. ASSUME NEW i \in Run, EndCapped(i) PROVE TreeInv' /\ WorkInv'
  <2>0. CalmStrays
    BY <1>6 DEF EndCapped, Exits, CalmStrays, AtWork, WorkInv, Strays
  <2>1. Calm
    BY <1>6, <2>0, EndCalm DEF EndCapped, Exits, Ended, Resumable
  <2> QED BY <2>1, CalmTrees
<1>7. ASSUME NEW i \in Run, FailoverFreezes(i) PROVE TreeInv' /\ WorkInv'
  <2>0. CalmStrays
    BY <1>7 DEF FailoverFreezes, Exits, CalmStrays, AtWork, WorkInv, Strays, TypeOK, TaskRow
  <2>1. Calm
    BY <1>7, <2>0, EndCalm DEF FailoverFreezes, Exits, Ended, Resumable
  <2> QED BY <2>1, CalmTrees
<1>8. ASSUME NEW i \in Run, EndCompleted(i) PROVE TreeInv' /\ WorkInv'
  <2>0. CalmStrays
    BY <1>8 DEF EndCompleted, Exits, CalmStrays, AtWork, WorkInv, Strays
  <2>1. Calm
    BY <1>8, <2>0, EndCalm DEF EndCompleted, Exits, Ended, Resumable
  <2> QED BY <2>1, CalmTrees
<1>9. ASSUME NEW i \in Run, Routed(i) PROVE TreeInv' /\ WorkInv'
  <2>0. CalmStrays
    BY <1>9 DEF Routed, CalmStrays, AtWork, WorkInv, Strays
  <2>1. Calm
    BY <1>9, <2>0, EndCalm DEF Routed, Ended, Resumable
  <2> QED BY <2>1, CalmTrees
<1>10. ASSUME NEW i \in Run, StartupLeaves(i) PROVE TreeInv' /\ WorkInv'
  <2>0. CalmStrays
    BY <1>10 DEF StartupLeaves, CalmStrays, AtWork, WorkInv, Strays
  <2>1. Calm
    BY <1>10, <2>0, EndCalm DEF StartupLeaves, Ended, Resumable
  <2> QED BY <2>1, CalmTrees
<1>11. ASSUME NEW i \in Run, StartupFinalizes(i) PROVE TreeInv' /\ WorkInv'
  <2>0. CalmStrays
    BY <1>11 DEF StartupFinalizes, CalmStrays, AtWork, WorkInv, Strays
  <2>1. Calm
    BY <1>11, <2>0, EndCalm DEF StartupFinalizes, Ended, Resumable
  <2> QED BY <2>1, CalmTrees
<1>12. ASSUME NEW i \in Run, NEW op \in Suspended, Call(i, op) PROVE TreeInv' /\ WorkInv'
  <2>0. CalmStrays
    BY <1>12 DEF Call, CalmStrays, AtWork, WorkInv, Strays
  <2>1. Calm
    BY <1>12, <2>0, EndCalm DEF Call, Ended, Resumable
  <2> QED BY <2>1, CalmTrees
<1>13. ASSUME NEW i \in Run, CallThrows(i) PROVE TreeInv' /\ WorkInv'
  <2>0. CalmStrays
    BY <1>13 DEF CallThrows, Killed, killRun, Forgotten, CalmStrays, AtWork, WorkInv, Strays
  <2>1. Calm
    BY <1>13, <2>0, EndCalm DEF CallThrows, Killed, killRun, Forgotten, Ended, Resumable
  <2> QED BY <2>1, CalmTrees
<1>14. ASSUME NEW i \in Run, pauseRun(i) PROVE TreeInv' /\ WorkInv'
  <2>0. CalmStrays
    BY <1>14 DEF pauseRun, Killed, killRun, Forgotten, CalmStrays, AtWork, WorkInv, Strays
  <2>1. Calm
    BY <1>14, <2>0, EndCalm DEF pauseRun, Killed, killRun, Forgotten, Ended, Resumable
  <2> QED BY <2>1, CalmTrees
<1>15. ASSUME NEW i \in Run, redirectRun(i) PROVE TreeInv' /\ WorkInv'
  <2>0. CalmStrays
    BY <1>15 DEF redirectRun, Killed, killRun, Forgotten, Grant, CalmStrays, AtWork, WorkInv, Strays
  <2>1. Calm
    BY <1>15, <2>0, EndCalm DEF redirectRun, Killed, killRun, Forgotten, Ended, Resumable
  <2> QED BY <2>1, CalmTrees
<1>16. ASSUME NEW i \in Run, cancelRun(i) PROVE TreeInv' /\ WorkInv'
  <2>0. CalmStrays
    BY <1>16 DEF cancelRun, Killed, killRun, Forgotten, CalmStrays, AtWork, WorkInv, Strays
  <2>1. Calm
    BY <1>16, <2>0, EndCalm DEF cancelRun, Killed, killRun, Forgotten, Ended, Resumable
  <2> QED BY <2>1, CalmTrees
<1>17. ASSUME NEW i \in Run, enforceCostBudget(i) PROVE TreeInv' /\ WorkInv'
  <2>0. CalmStrays
    BY <1>17 DEF enforceCostBudget, Killed, killRun, Forgotten, CalmStrays, AtWork, WorkInv, Strays
  <2>1. Calm
    BY <1>17, <2>0, EndCalm DEF enforceCostBudget, Killed, killRun, Forgotten, Ended, Resumable
  <2> QED BY <2>1, CalmTrees
<1>18. ASSUME NEW i \in Run, retryRun(i) PROVE TreeInv' /\ WorkInv'
  <2>0. CalmStrays
    BY <1>18 DEF retryRun, Grant, CalmStrays, AtWork, WorkInv, Strays
  <2>1. Calm
    BY <1>18, <2>0, EndCalm DEF retryRun, Ended, Resumable
  <2> QED BY <2>1, CalmTrees
<1>19. ASSUME NEW i \in Run, resumePausedRun(i) PROVE TreeInv' /\ WorkInv'
  <2>0. CalmStrays
    BY <1>19 DEF resumePausedRun, Grant, CalmStrays, AtWork, WorkInv, Strays
  <2>1. Calm
    BY <1>19, <2>0, EndCalm DEF resumePausedRun, Ended, Resumable
  <2> QED BY <2>1, CalmTrees
<1>20. ASSUME NEW i \in Run, extend(i) PROVE TreeInv' /\ WorkInv'
  <2>0. CalmStrays
    BY <1>20 DEF extend, Grant, CalmStrays, AtWork, WorkInv, Strays
  <2>1. Calm
    BY <1>20, <2>0, EndCalm DEF extend, Ended, Resumable
  <2> QED BY <2>1, CalmTrees
<1>21. ASSUME NEW i \in Run, deny(i) PROVE TreeInv' /\ WorkInv'
  <2>1. Kept(run') /\ \A j \in Run : run'[j].st = run[j].st
    BY <1>21, EditedKeeps, EditedRow DEF deny
  <2>2. Calm
    BY <1>21, <2>1 DEF deny, Calm, CalmStrays, AtWork, WorkInv, Strays
  <2> QED BY <2>2, CalmTrees
<1>22. CASE TaskDone
  <2>1. Calm
    BY <1>22 DEF TaskDone, Calm, CalmStrays, AtWork, WorkInv, Strays, Kept
  <2> QED BY <2>1, CalmTrees
<1>23. CASE Crash
  <2>1. Calm
    BY <1>23 DEF Crash, NoSpawn, Calm, CalmStrays, AtWork, Kept
  <2> QED BY <2>1, CalmTrees
<1>24. CASE UNCHANGED vars
  <2>1. Calm
    BY <1>24 DEF vars, Calm, CalmStrays, AtWork, WorkInv, Strays, Kept
  <2> QED BY <2>1, CalmTrees
<1>25. ASSUME NEW i \in Run, StartupStalls(i) PROVE TreeInv' /\ WorkInv'
  <2>1. /\ Kept(run')
        /\ \A j \in Run : run'[j].st = IF j = i /\ Live(i) THEN "stalled" ELSE run[j].st
    BY <1>25, RecoveredKeeps, RecoveredRow DEF StartupStalls
  <2>2. session = {} /\ \A j \in Run : ~Pending(j)
    BY <1>25, <1>b DEF StartupStalls
  <2>3. Calm
    BY <1>25, <2>1, <2>2
      DEF StartupStalls, Calm, CalmStrays, AtWork, WorkInv, Strays, Live, Pending
  <2> QED BY <2>3, CalmTrees
<1>26. ASSUME NEW i \in Run, SpawnDone(i) \/ StageEntered(i) PROVE TreeInv' /\ WorkInv'
  BY <1>26, SpawnTrees, StageTrees
<1>27. ASSUME NEW i \in Run, StartupResumes(i) PROVE TreeInv' /\ WorkInv'
  <2> DEFINE R == Recovered(i)
  <2>1. /\ R \in [Run -> Row] /\ Kept(R) /\ "startup" \in Waiters /\ "startup" # "failover"
        /\ i \in Run \cup {0} /\ 0 \in Run \cup {0}
        /\ \A j \in Run : R[j].st = IF j = i /\ Live(i) THEN "stalled" ELSE run[j].st
    BY RecoveredRow, RecoveredKeeps DEF Waiters
  <2>2. session = {} /\ lost = {} /\ \A j \in Run : ~Pending(j)
    BY <1>27, <1>b DEF StartupResumes
  <2>3. /\ UNCHANGED <<ckpt, session, stalling>> /\ ckpt[i] # "none" /\ i <= n
        /\ lost' = lost /\ orphan' = orphan /\ AtWork' = orphan /\ boot' = {}
    BY <1>27, <2>2, BoundsAssumption
      DEF Quiet, BootAlone, StartupResumes, TreeInv, Fresh, AtWork, TypeOK, Run
  <2>4. CASE Dispatch(R, "startup", i, 0) /\ task' = [task EXCEPT !.st = "active"]
             /\ waived' = IF i \in orphan THEN n ELSE waived
    <3>1. waived' \in Nat /\ task'.st = "active" /\ n \in Nat
      BY <2>4 DEF TypeOK, TaskRow
    <3>2. ASSUME NEW j \in Run, j \in orphan PROVE j <= waived'
      <4>1. i = n /\ j <= n /\ (j > waived => j = n)
        BY <1>27, <3>2, WorkersExist
          DEF StartupResumes, AtWork, WorkInv, LiveLast, Strays, AgentsLast
      <4> QED BY <2>4, <3>2, <4>1, WorkersExist
    <3>3. Free(R, "startup", i)
      <4> HIDE DEF R
      <4> QED BY <1>s, <2>1, <2>2, <2>3, <3>2 DEF Free
    <3> HIDE DEF R
    <3> QED BY <2>1, <2>3, <2>4, <3>1, <3>3, DispatchTrees
  <2>5. CASE run' = R /\ UNCHANGED <<n, spawn, task, waived>>
    <3>1. CalmStrays
      BY <2>3, <2>5 DEF CalmStrays, AtWork, WorkInv, Strays
    <3>2. Calm
      <4> HIDE DEF R
      <4> QED BY <2>1, <2>2, <2>3, <2>5, <3>1 DEF Calm, Live, Pending
    <3> QED BY <3>2, CalmTrees
  <2> QED BY <1>27, <2>4, <2>5 DEF StartupResumes
<1>28. ASSUME NEW i \in Run, Failover(i) PROVE TreeInv' /\ WorkInv'
  <2> DEFINE R == To(i, "frozen", "none")
             from == ResumeOf(i)
  <2>1. /\ R \in [Run -> Row] /\ Kept(R) /\ "failover" \in Waiters /\ i \in Run \cup {0}
        /\ \A j \in Run : R[j].st = IF j = i THEN "frozen" ELSE run[j].st
    BY ToRow, ToKeeps DEF Ended, Resumable, Waiters
  <2>2. from \in Run \cup {0} /\ (from # 0 => from = i /\ ckpt[i] # "none")
    BY DEF ResumeOf
  <2>3. /\ i \in session \cup lost /\ Live(i) /\ session' = session \ {i} /\ lost' = lost \ {i}
        /\ UNCHANGED <<ckpt, stalling, orphan, waived>> /\ waived \in Nat /\ n \in Nat
        /\ task'.st = "active" /\ boot' = {} /\ Dispatch(R, "failover", from, i)
    BY <1>28 DEF Failover, Exits, TypeOK, Quiet, BootAlone
  <2>4. i \in 1 .. n /\ i <= n /\ i = n /\ ~Pending(i)
    BY <1>0, <2>3, BoundsAssumption DEF WorkInv, Strays, LiveLast, Run
  <2>5. \A j \in 1 .. n : run[j].tree = run[i].tree => j \notin session' /\ ~Pending(j)
    BY <2>3, <2>4 DEF TreeInv, SessionAlone, StrayAlone, Shares
  <2>6. ASSUME NEW j \in Run, j \in AtWork' \/ Pending(j) PROVE j <= waived
    <3>1. j # i /\ (j \in AtWork \/ Pending(j))
      BY <2>3, <2>4, <2>6 DEF AtWork, WorkInv, Strays
    <3> QED BY <2>3, <2>4, <3>1 DEF WorkInv, AgentsLast, Run
  <2>7. Free(R, "failover", from)
    <3> HIDE DEF R, from
    <3> QED BY <2>1, <2>2, <2>3, <2>4, <2>5, <2>6 DEF Free
  <2> HIDE DEF R, from
  <2> QED BY <2>1, <2>2, <2>3, <2>7, DispatchTrees
<1>29. CASE CycleDispatches
  <2>1. /\ UNCHANGED <<ckpt, session, lost, orphan, stalling, waived>> /\ stalling = {}
        /\ task.st = "ready" /\ task'.st = "active" /\ waived \in Nat /\ boot' = {}
        /\ \A j \in Run : spawn[j].by # "cycle" /\ spawn[j].by # "startup"
    BY <1>29 DEF CycleDispatches, Polls, Spawning, TypeOK, TaskRow
  <2>2. PICK from \in Resume : Dispatch(run, "cycle", from, 0)
    BY <1>29 DEF CycleDispatches
  <2>3. /\ run \in [Run -> Row] /\ Kept(run) /\ "cycle" \in Waiters /\ "cycle" # "failover"
        /\ from \in Run \cup {0} /\ 0 \in Run \cup {0}
        /\ from # 0 => run[from].st = "stalled" /\ ckpt[from] # "none"
    BY DEF Resume, TypeOK, Waiters, Kept
  <2>4. \A j \in Run : Pending(j) => spawn[j].by = "failover"
    BY <2>1 DEF Pending, TypeOK, SpawnRow, Waiters
  <2>5. ASSUME from # 0
        PROVE  /\ from <= n
               /\ \A j \in 1 .. n : run[j].tree = run[from].tree => j \notin session /\ ~Pending(j)
    <3>1. from \in 1 .. n /\ from <= n
      BY <2>3, <2>5, BoundsAssumption DEF TreeInv, Fresh, TypeOK, Run
    <3>2. from \notin session /\ ~Pending(from)
      BY <2>1, <2>3, <2>5, <3>1 DEF TreeInv, StalledIdle, SpawnAlone
    <3>3. ASSUME NEW j \in 1 .. n, Shares(j, from) PROVE j \notin session
      BY <2>3, <2>5, <3>1, <3>3 DEF TreeInv, SessionAlone
    <3>4. ASSUME NEW j \in 1 .. n, Shares(j, from), Pending(j) PROVE FALSE
      <4> DEFINE f == spawn[j].from
      <4>1. j \in Run /\ f \in Run \cup {0} /\ spawn[j].by = "failover"
        BY <1>s, <2>4, <3>4 DEF TypeOK, SpawnRow
      <4>2. Shares(from, j)
        BY <3>4 DEF Shares
      <4>3. f # 0 /\ Continues(j, f)
        BY <3>1, <3>4, <4>1, <4>2 DEF TreeInv, SpawnFrom
      <4>4. f \in 1 .. n /\ f # from /\ Shares(f, from) /\ ckpt[f] # "none"
        BY <2>3, <2>5, <4>1, <4>2, <4>3, BoundsAssumption DEF Continues, Shares, Run
      <4> QED BY <2>3, <2>5, <3>1, <4>4 DEF TreeInv, OneCheckpoint
    <3> QED BY <3>1, <3>2, <3>3, <3>4 DEF Shares
  <2>6. Free(run, "cycle", from)
    <3>1. \A j \in Run : j \in AtWork' \/ Pending(j) => j <= waived
      BY <2>1 DEF AtWork, WorkInv, AgentsLast, Run
    <3> QED BY <2>1, <2>3, <2>5, <3>1 DEF Free
  <2> QED BY <2>1, <2>2, <2>3, <2>6, DispatchTrees
<1>30. ASSUME NEW i \in Run, OrphanEnds(i) PROVE TreeInv' /\ WorkInv'
  <2>1. CalmStrays
    BY <1>30 DEF OrphanEnds, CalmStrays, AtWork, WorkInv, Strays
  <2>2. Calm
    BY <1>30, <2>1, EndCalm DEF OrphanEnds, Ended, Resumable
  <2> QED BY <2>2, CalmTrees
<1> QED BY <1>1, <1>2, <1>3, <1>4, <1>5, <1>6, <1>7, <1>8, <1>9, <1>10, <1>11, <1>12, <1>13,
    <1>14, <1>15, <1>16, <1>17, <1>18, <1>19, <1>20, <1>21, <1>22, <1>23, <1>24, <1>25, <1>26,
    <1>27, <1>28, <1>29, <1>30 DEF Next, AttemptNext, OperatorNext

\* What the steps keep of the worktrees, with the facts it rests on.
THEOREM TreesKept == Spec => [](TypeOK /\ Quiet /\ TreeInv /\ WorkInv)
<1>1. Init => TreeInv /\ WorkInv
  BY DEF Init, TreeInv, Fresh, OneCheckpoint, SessionAlone, SpawnAlone, SpawnFrom, StrayAlone,
    StalledIdle, LatestWork, WorkInv, Strays, LiveLast, AgentsLast, Live, NoRun, AtWork,
    Pending, NoSpawn, Run
<1>2. Init => Quiet
  BY DEF Init, Quiet, OneLive, BootAlone, HeldStill, Live, NoRun, NoSpawn, Run
<1> QED BY <1>1, <1>2, QuietStep, TreeStep, TypeCorrect, PTL DEF Spec

\* No two agents ever work in one worktree, but for those whose session was forgotten
\* while they worked and that an operator or a start-up has gone past.
THEOREM WorktreesAreExclusive == Spec => []WorktreeExclusive
<1>1. ASSUME TypeOK, TreeInv, WorkInv PROVE WorktreeExclusive
  <2> SUFFICES ASSUME NEW i \in AtWork \ Abandoned, NEW j \in AtWork \ Abandoned, Shares(i, j)
               PROVE  FALSE
    BY DEF WorktreeExclusive, Shares
  <2>1. /\ i \in 1 .. n /\ i \in Run /\ j \in 1 .. n /\ j \in Run /\ Shares(j, i)
        /\ n \in Nat /\ waived \in Nat
    BY <1>1, WorkersExist DEF Shares
  <2>2. /\ i \in session \/ (i \in lost \cup orphan /\ i > waived)
        /\ j \in session \/ (j \in lost \cup orphan /\ j > waived)
    BY <2>1 DEF AtWork, Abandoned
  <2>3. i \notin session /\ j \notin session
    BY <1>1, <2>1, <2>2 DEF TreeInv, SessionAlone, StrayAlone
  <2>4. i = n /\ j = n
    BY <1>1, <2>1, <2>2, <2>3 DEF AtWork, WorkInv, AgentsLast
  <2> QED BY <2>4 DEF Shares
<1> QED BY <1>1, TreesKept, PTL

\* No attempt resumes a worktree that another agent has worked in since the
\* checkpoint.
THEOREM LatestWorkIsResumed == Spec => ResumesLatestWork
<1> DEFINE Latest ==
      n' = n + 1 /\ spawn'[n'].from # 0 =>
        LET f == spawn'[n'].from
        IN  \A j \in Run : j > f /\ j <= n /\ run[j].tree = run[f].tree => ~run[j].ran
<1>1. TypeOK /\ Quiet /\ TreeInv /\ Next => Latest
  <2> SUFFICES ASSUME TypeOK, Quiet, TreeInv, Next PROVE Latest
    OBVIOUS
  <2>1. ASSUME NEW R \in [Run -> Row], NEW by \in Waiters, NEW from \in Run \cup {0},
               NEW over \in Run \cup {0}, Dispatch(R, by, from, over),
               from # 0 => ckpt[from] # "none"
        PROVE  Latest
    <3>1. n' = n + 1 /\ spawn'[n + 1].from = from /\ n \in Nat
      <4>1. n' = n + 1
        BY <2>1, DispatchRow
      <4>2. spawn'[n + 1].from = from
        BY <2>1, DispatchKeeps
      <4> QED BY <4>1, <4>2 DEF TypeOK
    <3>2. ASSUME from # 0, NEW j \in Run, j > from, j <= n, run[j].tree = run[from].tree
          PROVE  ~run[j].ran
      <4>1. j \in 1 .. n /\ from \in 1 .. n /\ Shares(from, j)
        BY <3>1, <3>2, BoundsAssumption DEF Shares, Run
      <4> QED BY <2>1, <3>2, <4>1 DEF TreeInv, LatestWork
    <3> QED BY <3>1, <3>2
  <2>2. CASE CycleDispatches
    <3>1. PICK from \in Resume : Dispatch(run, "cycle", from, 0)
      BY <2>2 DEF CycleDispatches
    <3>2. /\ run \in [Run -> Row] /\ "cycle" \in Waiters /\ 0 \in Run \cup {0}
          /\ from \in Run \cup {0} /\ (from # 0 => ckpt[from] # "none")
      BY DEF Resume, TypeOK, Waiters
    <3> HIDE DEF Latest
    <3> QED BY <2>1, <3>1, <3>2
  <2>3. ASSUME NEW i \in Run, Failover(i) PROVE Latest
    <3> DEFINE R == To(i, "frozen", "none")
    <3>1. /\ R \in [Run -> Row] /\ "failover" \in Waiters /\ i \in Run \cup {0}
          /\ ResumeOf(i) \in Run \cup {0} /\ (ResumeOf(i) # 0 => ckpt[ResumeOf(i)] # "none")
      BY ToRow DEF Ended, Resumable, Waiters, ResumeOf
    <3>2. Dispatch(R, "failover", ResumeOf(i), i)
      BY <2>3 DEF Failover
    <3> HIDE DEF R, Latest
    <3> QED BY <2>1, <3>1, <3>2
  <2>4. ASSUME NEW i \in Run, StartupResumes(i) PROVE Latest
    <3> DEFINE R == Recovered(i)
    <3>1. /\ R \in [Run -> Row] /\ "startup" \in Waiters /\ i \in Run \cup {0}
          /\ 0 \in Run \cup {0} /\ ckpt[i] # "none"
      BY <2>4, RecoveredRow DEF Waiters, StartupResumes
    <3>2. Dispatch(R, "startup", i, 0) \/ n' = n
      BY <2>4 DEF StartupResumes
    <3>3. n' = n => Latest
      BY DEF TypeOK
    <3> HIDE DEF R, Latest
    <3> QED BY <2>1, <3>1, <3>2, <3>3
  <2>5. CASE n' = n
    BY <2>5 DEF TypeOK
  <2> HIDE DEF Latest
  <2>6. TaskDone \/ Crash => n' = n
    BY DEF TaskDone, Crash
  <2>7. ASSUME NEW i \in Run, AttemptNext(i), ~Failover(i), ~StartupResumes(i)
        PROVE  n' = n
    <3>1. CASE SpawnDone(i) \/ SpawnFails(i) \/ StageEntered(i)
      BY <3>1 DEF SpawnDone, SpawnFails, StageEntered
    <3>2. CASE HeartbeatStall(i) \/ HeartbeatKill(i) \/ HeartbeatFails(i)
      BY <3>2 DEF HeartbeatStall, HeartbeatKill, HeartbeatFails
    <3>3. CASE EndCrashed(i) \/ EndCapped(i) \/ FailoverFreezes(i) \/ EndCompleted(i) \/ Routed(i)
              \/ OrphanEnds(i)
      BY <3>3 DEF EndCrashed, EndCapped, FailoverFreezes, EndCompleted, Routed, OrphanEnds
    <3>4. CASE StartupStalls(i) \/ StartupLeaves(i) \/ StartupFinalizes(i)
      BY <3>4 DEF StartupStalls, StartupLeaves, StartupFinalizes
    <3> QED BY <2>7, <3>1, <3>2, <3>3, <3>4 DEF AttemptNext
  <2>8. ASSUME NEW i \in Run, OperatorNext(i)
        PROVE  n' = n
    <3>1. ASSUME NEW op \in Suspended, Call(i, op)
          PROVE  n' = n
      BY <3>1 DEF Call
    <3>2. CASE \/ CallThrows(i) \/ pauseRun(i) \/ redirectRun(i) \/ cancelRun(i)
              \/ enforceCostBudget(i)
      BY <3>2 DEF CallThrows, pauseRun, redirectRun, cancelRun, enforceCostBudget, Killed, killRun
    <3>3. CASE retryRun(i) \/ resumePausedRun(i) \/ extend(i) \/ deny(i)
      BY <3>3 DEF retryRun, resumePausedRun, extend, deny
    <3> QED BY <2>8, <3>1, <3>2, <3>3 DEF OperatorNext
  <2> QED BY <2>2, <2>3, <2>4, <2>5, <2>6, <2>7, <2>8 DEF Next
<1>2. TypeOK /\ Quiet /\ TreeInv /\ [Next]_vars => [Latest]_vars
  BY <1>1
<1> QED BY <1>2, TreesKept, PTL DEF Spec, ResumesLatestWork
================================================================================
