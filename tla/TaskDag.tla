------------------------------- MODULE TaskDag -------------------------------
(***************************************************************************)
(* The tasks of one spec and their dependencies: how DAGEvaluator moves     *)
(* tasks and the spec, and the handlers that disturb them.                  *)
(*                                                                          *)
(* The evaluation is a loop that sweeps over the tasks until a sweep        *)
(* changes nothing.  It is synchronous: a loop that does not end takes the  *)
(* process with it, and no other action follows (returned = FALSE).         *)
(*                                                                          *)
(* A run is here what it does to its task.  Not here: DELETE of a task,     *)
(* spec dependencies, PUT of a spec's status other than the approval, and   *)
(* what happens between a handler's first read and the body it awaits.      *)
(***************************************************************************)
EXTENDS Naturals, FiniteSets, SequencesExt

CONSTANTS Task,
          Import,         \* what a spec can be imported with: tasks in order, their
                          \* dependencies, the blind reviews of a bakeoff among them
          MaxRuns,        \* bound on the runs of a task
          MaxEdits,       \* bound on the operator's calls
          MaxSweeps       \* bound on the sweeps of one evaluation

ASSUME TaskAssumption == IsFiniteSet(Task)
ASSUME ImportAssumption == 
  \A i \in Import : /\ i.list \in Seq(Task) /\ IsInjective(i.list) /\ i.blind \subseteq Task
                     /\ i.deps \in [Task -> SUBSET Task]
ASSUME BoundsAssumption == MaxRuns \in Nat /\ MaxEdits \in Nat /\ MaxSweeps \in Nat \ {0}

VARIABLES order,     \* the tasks by creation, as TaskRepo.list returns them
          task,      \* rows of tasks, with their dependencies and runs
          spec,      \* specs.status
          returned,  \* the last evaluation left its loop
          edits      \* operator calls so far

vars == <<order, task, spec, returned, edits>>

Statuses == {"pending", "blocked", "ready", "active", "done", "failed"}
Outcomes == {"live", "done", "ended", "quarantined"}
Listed(list) == {list[i] : i \in DOMAIN list}
Known == Listed(order)

TypeOK ==
  /\ order \in Seq(Task) /\ IsInjective(order)
  /\ \A t \in Task :
       /\ task[t].st \in Statuses \cup {"absent"}
       /\ (task[t].st = "absent") = (t \notin Known)
       /\ task[t].deps \subseteq Known
       /\ Len(task[t].runs) <= MaxRuns /\ ToSet(task[t].runs) \subseteq Outcomes
       /\ {task[t].blind, task[t].skip} \subseteq BOOLEAN
  /\ spec \in {"draft", "approved", "implementing", "done", "failed"}
  /\ returned \in BOOLEAN
  /\ edits \in 0 .. MaxEdits

HasRuns(row) == row.runs # <<>>
HasLive(row) == "live" \in ToSet(row.runs)

\* The row of a new task; blind: waits for its candidates to be done or failed;
\* skip: its prerequisite-blocked row in task_dispatch_skips.
Row(st, ds, b) == [st |-> st, deps |-> ds, blind |-> b, runs |-> <<>>, skip |-> FALSE]

--------------------------------------------------------------------------------
(* evaluateTaskDAG.  rows are the tasks as the loop updates them.             *)

\* A task that failed without a run comes back once no dependency is failed.
canResolveTaskStatus(rows, t) ==
  \/ rows[t].st \in {"pending", "blocked"}
  \/ /\ rows[t].st = "failed" /\ ~HasRuns(rows[t])
     /\ rows[t].deps # {} /\ \A d \in rows[t].deps : rows[d].st # "failed"

resolveTaskStatus(rows, t) ==
  LET before == {rows[d].st : d \in rows[t].deps} IN
  CASE rows[t].st = "blocked" /\ before = {} -> "blocked"
    [] rows[t].blind /\ before # {} -> IF before \subseteq {"done", "failed"} THEN "ready" ELSE "blocked"
    [] OTHER -> IF "failed" \in before THEN "failed"
                ELSE IF before \subseteq {"done"} THEN "ready" ELSE "blocked"

Visit(rows, t) ==
  IF canResolveTaskStatus(rows, t)
  THEN [rows EXCEPT ![t].st = resolveTaskStatus(rows, t)] ELSE rows

Sweep(rows, list) ==
  LET at[i \in 0 .. Len(list)] == IF i = 0 THEN rows ELSE Visit(at[i - 1], list[i])
  IN at[Len(list)]

\* Mutant: the tasks are looked at once.
SettleInOneSweep(rows, list) == Sweep(rows, list)

Settle(rows, list) ==
  LET after[n \in 0 .. MaxSweeps] == IF n = 0 THEN rows ELSE Sweep(after[n - 1], list)
  IN after[MaxSweeps]

\* Mutant: a failed or draft spec is not opened again.
reconcileSpecForward(rows, list, now) ==
  LET st == {rows[t].st : t \in Listed(list)} IN
  CASE list = <<>> -> now
    [] list # <<>> /\ st = {"done"} -> "done"
    [] "failed" \in st /\ st \subseteq {"done", "failed"} -> "failed"
    [] OTHER -> IF now = "approved" /\ st \cap {"active", "done", "failed"} # {}
                THEN "implementing" ELSE now

\* The spec follows its tasks; a done spec is not opened again.
reconcileSpecStatus(rows, list, now) ==
  LET st == {rows[t].st : t \in Listed(list)}
      history == \E t \in Listed(list) : HasRuns(rows[t])
  IN CASE list = <<>> -> now
       [] list # <<>> /\ st = {"done"} -> "done"
       [] "failed" \in st /\ st \subseteq {"done", "failed"} -> "failed"
       [] OTHER -> IF \/ now = "approved" /\ st \cap {"active", "done", "failed"} # {}
                      \/ now \in {"failed", "draft"} /\ st \cap {"ready", "active"} # {} /\ history
                   THEN "implementing" ELSE now

\* A handler left these rows: evaluate, and reconcile if the loop ends.
evaluateTaskDAG(rows, list) ==
  LET after == Settle(rows, list) IN
  /\ task' = after
  /\ returned' = (Sweep(after, list) = after)
  /\ spec' = IF returned' THEN reconcileSpecStatus(after, list, spec) ELSE spec

\* onRunComplete: the latest run of the task decides, once it has ended.
onRunComplete(rows, t) ==
  LET last == Last(rows[t].runs) IN
  IF last = "live" THEN rows ELSE [rows EXCEPT ![t].st = IF last = "done" THEN "done" ELSE "failed"]

\* Mutant: only two tasks that wait for each other are found.
validatePairs(rows, list) ==
  ~ \E t, d \in Listed(list) : d \in rows[t].deps /\ t \in rows[d].deps

\* validateDAG: tasks are taken off once all they depend on are off.
validateDAG(rows, list) ==
  LET off[n \in 0 .. Cardinality(Task)] ==
        IF n = 0 THEN {} ELSE {t \in Listed(list) : rows[t].deps \subseteq off[n - 1]}
  IN off[Cardinality(Task)] = Listed(list)

--------------------------------------------------------------------------------

\* POST specs/import: tasks in the order given, dependencies as they are.
Init ==
  \E i \in Import, now \in {"draft", "approved"} :
    LET known == Listed(i.list)
        rows == [t \in Task |-> IF t \in known
                                THEN Row("pending", i.deps[t] \cap known, t \in i.blind)
                                ELSE Row("absent", {}, FALSE)]
        after == Settle(rows, i.list)
    IN /\ order = i.list
       /\ task = after
       /\ returned = (Sweep(after, i.list) = after)
       /\ spec = reconcileSpecStatus(after, i.list, now)
       /\ edits = 0

Edit == returned /\ edits < MaxEdits /\ edits' = edits + 1
Disturb(rows) == evaluateTaskDAG(rows, order) /\ UNCHANGED order
Quietly(rows) == task' = rows /\ UNCHANGED <<order, spec, returned>>

\* Mutant: the end of a run is another row.
EndsAppended(t, outcome) == [task EXCEPT ![t].runs = Append(@, outcome)]

Ends(t, outcome) ==
  [task EXCEPT ![t].runs = SubSeq(@, 1, Len(@) - 1) \o <<outcome>>]

(* The dispatcher.                                                            *)

\* getReady: the task, its dependencies, the spec, and no live run.
Takeable(t) ==
  LET row == task[t] IN
  /\ spec \in {"approved", "implementing"}
  /\ \/ row.st = "ready"
     \/ row.st = "blocked" /\ row.blind /\ row.deps # {} /\ ~row.skip
  /\ \A d \in row.deps : task[d].st \in IF row.blind THEN {"done", "failed"} ELSE {"done"}
  /\ ~HasLive(row)

\* The prerequisite check, the runtime of the agent, then the run.
dispatch(t) ==
  \/ Quietly([task EXCEPT ![t].st = "blocked", ![t].skip = TRUE])
  \/ Quietly([task EXCEPT ![t].st = "failed", ![t].skip = FALSE])
  \/ /\ Len(task[t].runs) < MaxRuns
     /\ Quietly([task EXCEPT ![t].st = "active", ![t].skip = FALSE, ![t].runs = Append(@, "live")])

CycleDispatches(t) == returned /\ t \in Known /\ Takeable(t) /\ dispatch(t) /\ UNCHANGED edits

manualDispatch(t) == Edit /\ t \in Known /\ ~HasLive(task[t]) /\ dispatch(t)

\* A merge, a completion or a cancel: onRunComplete.
RunCompletes(t) ==
  /\ returned /\ t \in Known /\ HasLive(task[t])
  /\ \E outcome \in {"done", "ended"} : Disturb(onRunComplete(Ends(t, outcome), t))
  /\ UNCHANGED edits

\* markFailed: the task stays active until somebody reconciles it.
RunFails(t) ==
  /\ returned /\ t \in Known /\ HasLive(task[t])
  /\ Quietly(Ends(t, "ended"))
  /\ UNCHANGED edits

\* A crash or a lost heartbeat: retried, out of budget, or quarantined.  The
\* evaluation comes before the run has ended, but in the same turn.
retryOrFailStalledTask(t) ==
  /\ returned /\ t \in Known /\ HasLive(task[t])
  /\ \/ \E st \in {"ready", "failed"} : Disturb([Ends(t, "ended") EXCEPT ![t].st = st])
     \/ Disturb(Ends(t, "quarantined"))
  /\ UNCHANGED edits

(* The API.                                                                   *)

createTask(t, st) ==
  /\ Edit /\ t \notin Known
  /\ order' = Append(order, t)
  /\ evaluateTaskDAG([task EXCEPT ![t] = Row(st, {}, FALSE)], order')

\* A ready task waits for its new dependency; otherwise everything is looked at.
addDependency(t, d) ==
  LET added == [task EXCEPT ![t].deps = @ \cup {d}] IN
  /\ Edit /\ {t, d} \subseteq Known /\ t # d
  /\ IF ~validateDAG(added, order) THEN Quietly([task EXCEPT ![t].deps = @ \ {d}])
     ELSE IF task[t].st = "ready" /\ task[d].st # "done"
          THEN Quietly([added EXCEPT ![t].st = "blocked"])
          ELSE Disturb(added)

\* Mutant: the handler forgets the evaluation.
removeDependencyQuietly(t, d) ==
  /\ Edit /\ t \in Known
  /\ Quietly([task EXCEPT ![t].deps = @ \ {d}])

removeDependency(t, d) ==
  /\ Edit /\ t \in Known
  /\ Disturb([task EXCEPT ![t].deps = @ \ {d}])

\* Back to idle only if every run there was is done; done only with a run.
putStatus(t, st) ==
  /\ Edit /\ t \in Known
  /\ st \in {"ready", "pending"} => ToSet(task[t].runs) \subseteq {"done"}
  /\ st = "done" => HasRuns(task[t])
  /\ Disturb([task EXCEPT ![t].st = st])

completeTask(t) ==
  /\ Edit /\ t \in Known
  /\ task[t].st # "done" /\ ~HasLive(task[t])
  /\ Disturb([task EXCEPT ![t].st = "done"])

\* POST runs/:id/retry, for the latest run.
retry(t) ==
  /\ Edit /\ t \in Known
  /\ HasRuns(task[t]) /\ Last(task[t].runs) \in {"ended", "quarantined"}
  /\ Disturb([Ends(t, "ended") EXCEPT ![t].st = "ready"])

\* The reconciler: active, with a history, and nothing live, done or quarantined.
repairActiveTaskFailure(t) ==
  /\ returned /\ task[t].st = "active"
  /\ HasRuns(task[t]) /\ ToSet(task[t].runs) = {"ended"}
  /\ Disturb([task EXCEPT ![t].st = "failed"])
  /\ UNCHANGED edits

evaluate == returned /\ Disturb(task) /\ UNCHANGED edits

approve == returned /\ spec = "draft" /\ spec' = "approved" /\ UNCHANGED <<order, task, returned, edits>>

Next ==
  \/ evaluate \/ approve
  \/ \E t \in Task :
       \/ CycleDispatches(t) \/ manualDispatch(t) \/ RunCompletes(t) \/ RunFails(t)
       \/ retryOrFailStalledTask(t) \/ completeTask(t) \/ retry(t) \/ repairActiveTaskFailure(t)
       \/ \E st \in Statuses : createTask(t, st) \/ putStatus(t, st)
       \/ \E d \in Task : addDependency(t, d) \/ removeDependency(t, d)

Spec == Init /\ [][Next]_vars

--------------------------------------------------------------------------------
(* Properties.                                                                *)

\* The evaluation of a spec comes to an end: no order of edits, failures and
\* retries makes two tasks flip each other for ever.
EvaluationReturns == returned

\* What an evaluation finds does not depend on the order in which the tasks were
\* created, unless a failed task is about to come back: a task with a history, or
\* a blind review, that is looked at before it takes the failure for final.
Revivable == \E t \in Known : task[t].st = "failed" /\ canResolveTaskStatus(task, t)
OrderIrrelevant ==
  returned /\ ~Revivable =>
    \A list \in SetToSeqs(Known) : Settle(task, list) = Settle(task, order)

\* A retry is never stranded: no task with a history is ready in a spec that
\* nothing is dispatched from because it failed or is a draft (issue #243).
QueuedRetryReopens ==
  returned /\ spec \in {"draft", "failed"} =>
    ~ \E t \in Known : task[t].st = "ready" /\ HasRuns(task[t])

\* Nobody is forgotten: a task whose dependencies are all done does not wait,
\* unless the dispatcher found a prerequisite missing.
NobodyForgotten ==
  \A t \in Known : /\ task[t].st \in {"pending", "blocked"} /\ task[t].deps # {}
                   /\ \A d \in task[t].deps : task[d].st = "done"
                   => task[t].skip
================================================================================
