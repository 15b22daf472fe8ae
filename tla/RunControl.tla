------------------------------ MODULE RunControl ------------------------------
(***************************************************************************)
(* One implementation task and its attempts: limits, pause, redirect, retry, *)
(* failover to another provider, and the resume of an attempt in the        *)
(* worktree of an earlier one.                                              *)
(*                                                                          *)
(* An action is what runs between two awaits.  Rows, checkpoints and the    *)
(* task survive a crash; sessions and suspended calls do not.  A worker may  *)
(* outlive its session: when its kill fails, when its process ends, when a  *)
(* cleanup skips it.  A spawn that is cut off leaves none.  A worktree stays *)
(* on disk, the dispatch queue has time for every backoff, and the slots and *)
(* agents that Dispatcher counts are free.                                  *)
(***************************************************************************)
EXTENDS Naturals, FiniteSets

CONSTANTS MaxTaskRetries,
          Operator,     \* operator calls in play
          MaxRuns,      \* bound on the runs ever created
          MaxGrants,    \* bound on the operator calls that ready the task
          MaxCrashes,   \* bound on crashes of the process
          MaxCalls      \* bound on the operator calls suspended at once

ASSUME RetriesAssumption == MaxTaskRetries \in Nat
ASSUME BoundsAssumption ==
  MaxRuns \in Nat \ {0} /\ MaxGrants \in Nat /\ MaxCrashes \in Nat /\ MaxCalls \in Nat
ASSUME OperatorAssumption ==
  Operator \subseteq {"pause", "redirect", "cancel", "cap", "retry", "extend", "deny"}

Run == 1 .. MaxRuns        \* in the order of their creation

VARIABLES n,          \* runs created so far: the latest one
          run,        \* their rows
          ckpt,       \* run_checkpoints: the stage to resume at
          task,
          session,    \* activeSessions: runs with an agent that is known to work
          lost,       \* agents at work whose session was forgotten: the kill failed
          orphan,     \* agents at work whose end nobody will report
          spawn,      \* suspended dispatch(), by who waits for it
          routing,    \* completions suspended before their routing
          stalling,   \* runs whose session is killed for a stall
          calls,      \* operator calls suspended in a kill or an inspection
          boot,       \* runs the start-up reconcile has still to act on
          crashes,
          allowance,  \* attempts the operator and the recoveries have paid for
          grants, held,
          waived      \* the runs up to this one are past: an operator has readied the
                      \* task since, or a start-up resumed it after a failed cleanup

bill == <<allowance, grants, held, waived>>
workers == <<session, lost, orphan>>
vars == <<n, run, ckpt, task, workers, spawn, routing, stalling, calls, boot, crashes, bill>>

Suspended == {"pause", "redirect", "cancel", "cap", "retry"}
Waiters == {"cycle", "startup", "failover"}
Resumable == {"stalled", "paused", "frozen"}
Ended == Resumable \cup {"failed", "cancelled", "quarantined", "done"}
NoRun == [st |-> "absent", tree |-> 0, why |-> "none", ran |-> FALSE]
NoSpawn == [by |-> "none", from |-> 0, over |-> 0]

Row ==
  [st : {"absent", "live"} \cup Ended,
   tree : Run \cup {0},              \* the run whose worktree it has
   why : {"none", "cap", "reached"},  \* failReason, as far as a call reads it
   ran : BOOLEAN]                     \* a session was recorded
SpawnRow ==
  [by : Waiters \cup {"none"},
   from : Run \cup {0},              \* reuseWorktreeFromRunId
   over : Run \cup {0}]              \* the run that fails over
TaskRow == [st : {"ready", "active", "failed", "done"}, retries : 0 .. MaxTaskRetries + 1]

TypeOK ==
  /\ n \in 0 .. MaxRuns
  /\ run \in [Run -> Row]
  /\ ckpt \in [Run -> {"none", "early", "late"}]
  /\ task \in TaskRow
  /\ session \subseteq Run /\ lost \subseteq Run /\ orphan \subseteq Run
  /\ routing \subseteq Run /\ stalling \subseteq Run /\ boot \subseteq Run
  /\ spawn \in [Run -> SpawnRow]
  /\ calls \subseteq [run : Run, op : Suspended, had : BOOLEAN]   \* had a session to kill
  /\ crashes \in 0 .. MaxCrashes /\ grants \in 0 .. MaxGrants /\ allowance \in Nat
  /\ held \in BOOLEAN /\ waived \in 0 .. MaxRuns

Init ==
  /\ n = 0 /\ run = [i \in Run |-> NoRun] /\ ckpt = [i \in Run |-> "none"]
  /\ task = [st |-> "ready", retries |-> 0]
  /\ session = {} /\ lost = {} /\ orphan = {}
  /\ routing = {} /\ stalling = {} /\ boot = {} /\ calls = {}
  /\ spawn = [i \in Run |-> NoSpawn]
  /\ crashes = 0 /\ grants = 0 /\ held = FALSE /\ waived = 0
  /\ allowance = MaxTaskRetries + 1

Live(i) == run[i].st = "live"
AtWork == session \cup lost \cup orphan
Spawning(by) == \E i \in Run : spawn[i].by = by
To(i, st, why) == [run EXCEPT ![i].st = st, ![i].why = why]
Ready(retries) == [st |-> "ready", retries |-> retries]

--------------------------------------------------------------------------------
(* A dispatch and its spawn.                                                  *)

\* resolveResumeOptions: the latest stalled run that has a checkpoint, if that
\* checkpoint is at a resumable stage; nothing older is looked at.
Resume ==
  LET S == {i \in Run : run[i].st = "stalled" /\ ckpt[i] # "none"}
      latest == {i \in S : ckpt[i] = "early" /\ \A j \in S : j <= i}
  IN  IF latest = {} THEN {0} ELSE latest

\* buildOperatorResumeOptions: the run's own checkpoint.
ResumeOf(i) == IF ckpt[i] = "early" THEN i ELSE 0

\* dispatch, up to its first await; R are the rows its caller leaves.  RunRepo.create
\* refuses a second live run.
Dispatch(R, by, from, over) ==
  /\ n < MaxRuns
  /\ \A i \in Run : R[i].st # "live"
  /\ n' = n + 1
  /\ run' = [R EXCEPT ![n + 1] = [st |-> "live", why |-> "none", ran |-> FALSE,
                                  tree |-> IF from = 0 THEN n + 1 ELSE R[from].tree]]
  /\ spawn' = [spawn EXCEPT ![n + 1] = [by |-> by, from |-> from, over |-> over]]

\* Mutant: the cycle does not wait for its spawns.
PollsAtOnce == boot = {} /\ stalling = {} /\ ~Spawning("startup")

\* The cycle starts after the reconcile, and waits for every spawn and kill of its
\* own.
Polls == boot = {} /\ stalling = {} /\ ~Spawning("cycle") /\ ~Spawning("startup")

CycleDispatches ==
  /\ Polls
  /\ task.st = "ready"
  /\ \E from \in Resume : Dispatch(run, "cycle", from, 0)
  /\ task' = [task EXCEPT !.st = "active"]
  /\ UNCHANGED <<ckpt, workers, routing, stalling, calls, boot, crashes, bill>>

\* Mutant: the checkpoint of the reused run stays.
CheckpointKept(i) ==
  IF spawn[i].from = 0 THEN ckpt ELSE [ckpt EXCEPT ![i] = "early"]

\* recordSpawnedSession: the checkpoint moves to the run that has the worktree now.
CheckpointMoved(i) ==
  IF spawn[i].from = 0 THEN ckpt ELSE [ckpt EXCEPT ![i] = "early", ![spawn[i].from] = "none"]

\* adapter.spawn is back: whatever the row says by now, the session is recorded.
\* A failover then ends the run it continues.
SpawnDone(i) ==
  LET R == [run EXCEPT ![i].ran = TRUE]
      over == spawn[i].over
  IN
  /\ spawn[i].by # "none"
  /\ session' = session \cup {i}
  /\ ckpt' = CheckpointMoved(i)
  /\ run' = IF over = 0 THEN R ELSE [R EXCEPT ![over].st = "failed", ![over].why = "none"]
  /\ spawn' = [spawn EXCEPT ![i] = NoSpawn]
  /\ UNCHANGED <<n, task, lost, orphan, routing, stalling, calls, boot, crashes, bill>>

\* The unwinding marks the run stalled, whatever it says by now; the task stays
\* active, and a run that was to fail over stays frozen.  An agent that was started
\* is killed, and that may fail.
SpawnFails(i) ==
  /\ spawn[i].by # "none"
  /\ run' = To(i, "stalled", "none")
  /\ spawn' = [spawn EXCEPT ![i] = NoSpawn]
  /\ orphan' \in {orphan, orphan \cup {i}}
  /\ UNCHANGED <<n, ckpt, task, session, lost, routing, stalling, calls, boot, crashes, bill>>

\* A stage is entered, forwards or by a reset, and the checkpoint follows: late is
\* a stage beyond RESUMABLE_STAGES.  No session is asked for.
StageEntered(i) ==
  /\ i \in AtWork /\ Live(i)
  /\ \E stage \in {"early", "late"} : ckpt' = [ckpt EXCEPT ![i] = stage]
  /\ UNCHANGED <<n, run, task, workers, spawn, routing, stalling, calls, boot, crashes, bill>>

--------------------------------------------------------------------------------
(* The end of a session: handleSessionEnd().                                  *)

\* It asks for no session: the end of an agent whose session was forgotten counts.
Exits(i) ==
  /\ i \in session \cup lost
  /\ session' = session \ {i} /\ lost' = lost \ {i}
  /\ UNCHANGED <<orphan, stalling, calls, boot, crashes, bill>>

\* The end that nobody reports: of itself, or by a cleanup that finds the process.
OrphanEnds(i) ==
  /\ i \in orphan
  /\ orphan' = orphan \ {i}
  /\ UNCHANGED <<n, run, ckpt, task, session, lost, spawn, routing, stalling, calls, boot, crashes>>
  /\ UNCHANGED bill

\* The count of retries, as far as it matters.
Charged == IF task.retries > MaxTaskRetries THEN task.retries ELSE task.retries + 1

\* retryOrFailStalledTask: the budget decides between ready and an end; a
\* recurring failure that is not the provider's ends in a quarantine.
retryOrFail(i) ==
  \/ /\ Charged <= MaxTaskRetries
     /\ task' = Ready(Charged)
     /\ run' = To(i, "stalled", "none")
  \/ /\ Charged > MaxTaskRetries
     /\ task' = [st |-> "failed", retries |-> Charged]
     /\ run' = To(i, "stalled", "none")
  \/ /\ Charged > MaxTaskRetries
     /\ task' = [task EXCEPT !.retries = Charged]
     /\ run' = To(i, "quarantined", "none")

\* Mutant: the branches do not look at the terminal state.
EndCrashedBlind(i) ==
  /\ Exits(i)
  /\ retryOrFail(i)
  /\ UNCHANGED <<n, ckpt, spawn, routing>>

\* A crash, or a wait for an outage or a near reset: the next cycle resumes.
EndCrashed(i) ==
  /\ Exits(i)
  /\ IF Live(i) THEN retryOrFail(i) ELSE UNCHANGED <<run, task>>
  /\ UNCHANGED <<n, ckpt, spawn, routing>>

\* A turn or cost cap of the harness freezes the run; another failure ends it.
EndCapped(i) ==
  /\ Exits(i)
  /\ Live(i)
  /\ run' \in {To(i, "frozen", "cap"), To(i, "failed", "reached"), To(i, "failed", "none")}
  /\ UNCHANGED <<n, ckpt, task, spawn, routing>>

\* Mutant: a failover costs no retry.
FailoverUncharged(i) ==
  /\ Exits(i)
  /\ Live(i)
  /\ task.retries < MaxTaskRetries
  /\ task' = [task EXCEPT !.st = "active"]
  /\ Dispatch(To(i, "frozen", "none"), "failover", ResumeOf(i), i)
  /\ UNCHANGED <<ckpt, routing>>

\* The provider refuses: a retry is charged, the run frozen, and another agent
\* dispatched, which handleSessionEnd awaits.
Failover(i) ==
  /\ Exits(i)
  /\ Live(i)
  /\ task.retries < MaxTaskRetries
  /\ task' = [st |-> "active", retries |-> Charged]
  /\ Dispatch(To(i, "frozen", "none"), "failover", ResumeOf(i), i)
  /\ UNCHANGED <<ckpt, routing>>

\* ... or it stays frozen: no agent of another provider, no retry left, or none
\* that can be dispatched.
FailoverFreezes(i) ==
  /\ Exits(i)
  /\ Live(i)
  /\ task' \in {task, [task EXCEPT !.retries = Charged]}
  /\ run' = To(i, "frozen", "none")
  /\ UNCHANGED <<n, ckpt, spawn, routing>>

\* A completion, also one that an agent without a session reports, is routed after
\* its release, by the row read before it.  Nobody waits for the agent's kill.
EndCompleted(i) ==
  /\ i \in AtWork
  /\ session' = session \ {i} /\ lost' = lost \ {i}
  /\ orphan' \in {orphan \ {i}, orphan \cup {i}}
  /\ routing' = IF Live(i) THEN routing \cup {i} ELSE routing
  /\ UNCHANGED <<n, run, ckpt, task, spawn, stalling, calls, boot, crashes, bill>>

Routed(i) ==
  /\ i \in routing
  /\ routing' = routing \ {i}
  /\ run' \in {To(i, "done", "none"), To(i, "failed", "none"), run}
  /\ UNCHANGED <<n, ckpt, task, workers, spawn, stalling, calls, boot, crashes, bill>>

\* The lineage of a done run has passed.
TaskDone ==
  /\ n # 0 /\ run[n].st = "done"
  /\ task' = [task EXCEPT !.st = "done"]
  /\ UNCHANGED <<n, run, ckpt, workers, spawn, routing, stalling, calls, boot, crashes, bill>>

\* gcStaleSlots: a run out of time without a session, whatever its cleanup found.
HeartbeatStall(i) ==
  /\ Polls
  /\ Live(i) /\ spawn[i].by = "none" /\ i \notin routing /\ i \notin session
  /\ run' = To(i, "stalled", "none")
  /\ task' = [task EXCEPT !.st = "failed"]
  /\ UNCHANGED <<n, ckpt, workers, spawn, routing, stalling, calls, boot, crashes, bill>>

\* checkStalled: a run with a session is marked, the session killed, ...
HeartbeatKill(i) ==
  /\ Polls
  /\ Live(i) /\ i \in session
  /\ run' = To(i, "stalled", "none")
  /\ stalling' = stalling \cup {i}
  /\ UNCHANGED <<n, ckpt, task, workers, spawn, routing, calls, boot, crashes, bill>>

\* The session is forgotten; its agent goes on working when the kill failed.
Forgotten(i) ==
  /\ session' = session \ {i}
  /\ lost' \in {lost, lost \cup (session \cap {i})}
  /\ UNCHANGED orphan

\* Mutant: a stall for a missing heartbeat retries the task.
HeartbeatRetries(i) ==
  /\ i \in stalling
  /\ stalling' = stalling \ {i}
  /\ Forgotten(i)
  /\ task' = IF Charged <= MaxTaskRetries THEN Ready(Charged) ELSE [task EXCEPT !.st = "failed"]
  /\ UNCHANGED <<n, run, ckpt, spawn, routing, calls, boot, crashes, bill>>

\* ... and the task failed, whatever became of run, task and agent meanwhile.
HeartbeatFails(i) ==
  /\ i \in stalling
  /\ stalling' = stalling \ {i}
  /\ Forgotten(i)
  /\ task' = [task EXCEPT !.st = "failed"]
  /\ UNCHANGED <<n, run, ckpt, spawn, routing, calls, boot, crashes, bill>>

--------------------------------------------------------------------------------
(* A crash, and the reconcile of the next start, which does its work whatever  *)
(* came of the cleanup of the agent.                                          *)

Crash ==
  /\ crashes < MaxCrashes
  /\ crashes' = crashes + 1
  /\ session' = {} /\ lost' = {} /\ orphan' = AtWork
  /\ routing' = {} /\ stalling' = {} /\ calls' = {}
  /\ spawn' = [i \in Run |-> NoSpawn]
  /\ boot' = {i \in Run : Live(i)}
  /\ UNCHANGED <<n, run, ckpt, task, bill>>

\* stallForStartupRecovery asks the row again, for its state only.
Recovered(i) == IF Live(i) THEN To(i, "stalled", "none") ELSE [run EXCEPT ![i].why = "none"]

\* Nothing to resume: the task is left for the operator.
StartupStalls(i) ==
  /\ i \in boot
  /\ boot' = boot \ {i}
  /\ ckpt[i] # "early"
  /\ run' = Recovered(i)
  /\ UNCHANGED <<n, ckpt, task, workers, spawn, routing, stalling, calls, crashes, bill>>

\* A live lease, or a workflow that owns the run: nothing is done.
StartupLeaves(i) ==
  /\ i \in boot
  /\ boot' = boot \ {i}
  /\ UNCHANGED <<n, run, ckpt, task, workers, spawn, routing, stalling, calls, crashes, bill>>

\* A stored completion is routed.
StartupFinalizes(i) ==
  /\ i \in boot
  /\ boot' = boot \ {i}
  /\ routing' = IF Live(i) THEN routing \cup {i} ELSE routing
  /\ UNCHANGED <<n, run, ckpt, task, workers, spawn, stalling, calls, crashes, bill>>

\* A checkpoint: stalled, and resumed at once on a new run, without a charge.
StartupResumes(i) ==
  /\ i \in boot
  /\ boot' = boot \ {i}
  /\ ckpt[i] = "early"
  /\ \/ /\ Recovered(i)[i].st \in Resumable /\ task.st # "done"
        /\ Dispatch(Recovered(i), "startup", i, 0)
        /\ task' = [task EXCEPT !.st = "active"]
        /\ allowance' = allowance + 1
        /\ waived' = IF i \in orphan THEN n ELSE waived
     \/ /\ run' = Recovered(i)
        /\ UNCHANGED <<n, task, spawn, allowance, waived>>
  /\ UNCHANGED <<ckpt, workers, routing, stalling, calls, crashes, grants, held>>

--------------------------------------------------------------------------------
(* Operator calls.                                                            *)

\* An operator's call readies the task with a fresh budget.
Grant ==
  /\ grants < MaxGrants
  /\ grants' = grants + 1
  /\ task' = Ready(0)
  /\ allowance' = allowance + MaxTaskRetries + 1
  /\ held' = FALSE
  /\ waived' = n

\* The check at the start of a call that kills or inspects, and awaits it.
MayCall(i, op) ==
  CASE op = "pause"    -> i = n /\ Live(i)
    [] op = "redirect" -> i = n /\ Live(i) /\ task.st = "active"
    [] op = "cancel"   -> Live(i)
    [] op = "cap"      -> Live(i) /\ i \in AtWork
    [] op = "retry"    -> i = n /\ run[i].st \in Ended \ {"done"}

Call(i, op) ==
  /\ op \in Operator
  /\ Cardinality(calls) < MaxCalls
  /\ MayCall(i, op)
  /\ calls' = calls \cup {[run |-> i, op |-> op, had |-> i \in session]}
  /\ UNCHANGED <<n, run, ckpt, task, workers, spawn, routing, stalling, boot, crashes, bill>>

\* killRun returns, or throws: it has forgotten the session that the run had when it
\* was asked, whether or not the kill ended the agent.
killRun(c) ==
  /\ calls' = calls \ {c}
  /\ IF c.had THEN Forgotten(c.run) ELSE UNCHANGED workers
  /\ UNCHANGED <<n, ckpt, spawn, routing, stalling, boot, crashes>>

\* The call goes on: the cost cap and the cancellation after a kill that failed, too.
Killed(i, op) ==
  \E c \in calls :
    /\ c.run = i /\ c.op = op
    /\ killRun(c)
    /\ op \in {"pause", "redirect"} => lost' = lost

\* The run ended meanwhile, and the marker throws; or the kill did, which neither
\* a pause nor a redirect catches.
CallThrows(i) ==
  /\ \E c \in calls :
       /\ c.run = i /\ c.op # "retry"
       /\ killRun(c)
       /\ \/ ~Live(i)
          \/ c.had /\ c.op \in {"pause", "redirect"} /\ (i \in session => lost' # lost)
  /\ UNCHANGED <<run, task, bill>>

\* pauseRun asks nothing of the task: only an active one is held by it.
pauseRun(i) ==
  /\ Killed(i, "pause")
  /\ Live(i)
  /\ run' = To(i, "paused", "none")
  /\ held' = (held \/ (task.st = "active" /\ i \notin boot))
  /\ UNCHANGED <<task, allowance, grants, waived>>

\* Cancelled and ready in one transaction.
redirectRun(i) ==
  /\ Killed(i, "redirect")
  /\ Live(i)
  /\ run' = To(i, "cancelled", "none")
  /\ Grant

\* Mutant: the task of a cancelled run is cancelled too, a status tasks do not have.
cancelRunAndTask(i) ==
  /\ Killed(i, "cancel")
  /\ Live(i)
  /\ run' = To(i, "cancelled", "none")
  /\ task' = [task EXCEPT !.st = "cancelled"]
  /\ UNCHANGED bill

cancelRun(i) ==
  /\ Killed(i, "cancel")
  /\ Live(i)
  /\ run' = To(i, "cancelled", "none")
  /\ task' = [task EXCEPT !.st = "failed"]
  /\ UNCHANGED bill

\* enforceCostBudget: the agent's report of its costs is beyond the cap.
enforceCostBudget(i) ==
  /\ Killed(i, "cap")
  /\ Live(i)
  /\ run' = To(i, "frozen", "cap")
  /\ UNCHANGED <<task, bill>>

\* The inspection is back, with or without an objection; the row is not read again.
retryRun(i) ==
  /\ \E c \in calls : c.run = i /\ c.op = "retry" /\ calls' = calls \ {c}
  /\ \/ run' = To(i, "failed", "none") /\ Grant
     \/ UNCHANGED <<run, task, bill>>
  /\ UNCHANGED <<n, ckpt, workers, spawn, routing, stalling, boot, crashes>>

\* The row stays paused; the next dispatch is the cycle's.
resumePausedRun(i) ==
  /\ "pause" \in Operator
  /\ i = n /\ run[i].st = "paused" /\ task.st = "active"
  /\ Grant
  /\ UNCHANGED <<n, run, ckpt, workers, spawn, routing, stalling, calls, boot, crashes>>

\* extendBudget and extendTurns ask for the reason of any run, and nothing else.
extend(i) ==
  /\ "extend" \in Operator
  /\ run[i].why \in {"cap", "reached"}
  /\ Grant
  /\ UNCHANGED <<n, run, ckpt, workers, spawn, routing, stalling, calls, boot, crashes>>

deny(i) ==
  /\ "deny" \in Operator
  /\ run[i].why = "cap"
  /\ run' = [run EXCEPT ![i].why = "none"]
  /\ UNCHANGED <<n, ckpt, task, workers, spawn, routing, stalling, calls, boot, crashes, bill>>

--------------------------------------------------------------------------------
AttemptNext(i) ==
  \/ SpawnDone(i) \/ SpawnFails(i) \/ StageEntered(i)
  \/ HeartbeatStall(i) \/ HeartbeatKill(i) \/ HeartbeatFails(i)
  \/ EndCrashed(i) \/ EndCapped(i) \/ Failover(i) \/ FailoverFreezes(i)
  \/ EndCompleted(i) \/ OrphanEnds(i) \/ Routed(i)
  \/ StartupStalls(i) \/ StartupLeaves(i) \/ StartupFinalizes(i) \/ StartupResumes(i)

OperatorNext(i) ==
  \/ \E op \in Suspended : Call(i, op)
  \/ CallThrows(i) \/ pauseRun(i) \/ redirectRun(i) \/ cancelRun(i) \/ enforceCostBudget(i)
  \/ retryRun(i) \/ resumePausedRun(i) \/ extend(i) \/ deny(i)

Next ==
  \/ CycleDispatches \/ TaskDone \/ Crash
  \/ \E i \in Run : AttemptNext(i) \/ OperatorNext(i)

Spec == Init /\ [][Next]_vars

--------------------------------------------------------------------------------
(* Properties.                                                                *)

\* Agents that outlived their session, and that an operator who readied the task,
\* or a start-up whose cleanup failed, has gone on without.
Abandoned == {i \in lost \cup orphan : i <= waived}

\* No two agents work in one worktree, but for one that was abandoned there: a spawn
\* goes on when its run was cancelled and the task dispatched again, but the cycle
\* waits for its spawns; a failover and a start-up resume from checkpoints that no
\* cycle reads; and whatever forgets the session of an agent that goes on working
\* leaves the task to the operator: nothing retries it while that agent works.
WorktreeExclusive ==
  \A i, j \in AtWork \ Abandoned : run[i].tree = run[j].tree => i = j

\* An attempt resumes a worktree as the last agent that worked in it left it:
\* the checkpoint is that of the latest run that had the worktree.
ResumesLatestWork ==
  [][n' = n + 1 /\ spawn'[n'].from # 0 =>
       LET f == spawn'[n'].from
       IN  \A j \in Run : j > f /\ j <= n /\ run[j].tree = run[f].tree => ~run[j].ran]_vars

\* After a pause nothing is dispatched until a call of the operator readies the
\* task: neither a session that ends late, nor a stall, a failover or a restart.
PauseHolds == [][held => n' = n]_vars

\* Every attempt is paid for: by a retry of the budget, by an operator's call
\* with a budget of its own, or as a start-up resume.
AttemptsPaid == n <= allowance
================================================================================
