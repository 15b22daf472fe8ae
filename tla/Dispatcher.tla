------------------------------ MODULE Dispatcher ------------------------------
(***************************************************************************)
(* The dispatcher: the poll cycle, the spawn of an attempt, the end of its  *)
(* session, the recovery at startup and the operator's calls, as the turns  *)
(* of one event loop.                                                       *)
(*                                                                          *)
(* Every action is what runs between two awaits.  Rows of runs, tasks and   *)
(* leases survive a crash, the dispatcher's Maps and Sets (mem) and its     *)
(* suspended calls (cyc, dpc, epc, kpc) do not, a worker process may.  The  *)
(* fence of a lease is used here as AttemptLease promises it: a call that   *)
(* holds a session's token throws unless the lease is active.               *)
(*                                                                          *)
(* Not here: limits, pause, failover and checkpoint resume, the inside of   *)
(* the post-completion pipeline, and what an owned run goes through.        *)
(***************************************************************************)
EXTENDS Naturals, FiniteSets

CONSTANTS Task, Agent,
          Lineage,            \* fix and review tasks: dispatched with a parent run
          Operator,           \* operator calls in play
          MaxConcurrentRuns, MaxTaskRetries,
          MaxRuns,            \* bound on the runs ever created
          MaxCrashes,         \* bound on crashes of the process
          MaxAge              \* bound on the age of a heartbeat: 0 and 1 leave out staleness

ASSUME LineageAssumption == Lineage \subseteq Task
ASSUME OperatorAssumption == Operator \subseteq {"dispatch", "cancel", "nudge"}
ASSUME LimitsAssumption == MaxConcurrentRuns \in Nat \ {0} /\ MaxTaskRetries \in Nat
ASSUME BoundsAssumption == MaxRuns \in Nat \ {0} /\ MaxCrashes \in Nat /\ MaxAge \in 0 .. 2

Run == 1 .. MaxRuns

VARIABLES run,      \* rows of runs
          beat,     \* age of a run's heartbeat in timeouts, 2 = stale slot
          lease,    \* status of the run's attempt lease
          task,     \* rows of tasks
          mem,      \* activeSessions, startingRuns, finishingRuns, ...
          cyc,      \* the process: startup reconcile, then the poll cycle
          dpc,      \* suspended dispatch() per run
          epc,      \* suspended handleSessionEnd() or routeStoredCompletion()
          kpc,      \* suspended cancelRun()
          worker,   \* worker process, or the exit its callback will report
          crashes

vars == <<run, beat, lease, task, mem, cyc, dpc, epc, kpc, worker, crashes>>
durable == <<run, beat, lease, task>>

Exits == {"completed", "crashed", "failed"}
Ended == {"stalled", "failed", "cancelled", "done", "quarantined"}
Absent == [st |-> "absent"]
Rows == [st : {"live"} \cup Ended, task : Task, agent : Agent,
         complete : BOOLEAN,   \* agent.complete evidence is on record
         owned : BOOLEAN]      \* isWorkflowOwnedRun: waits for a fix or an approval
NoCall == [pc |-> "none"]
EndCalls == [pc : {"limits", "evidence", "release", "route"},
             why : Exits \cup {"killed"}, had : BOOLEAN, live : BOOLEAN]
Memory == [active : SUBSET Run, starting : SUBSET Run, finishing : SUBSET Run,
           handled : SUBSET Run, routed : SUBSET Run, fallback : SUBSET Run,
           ending : SUBSET Run,   \* teardown requests the API has scheduled
           bound : SUBSET Run]    \* sessions with a completion callback
EmptyMemory == [active |-> {}, starting |-> {}, finishing |-> {}, handled |-> {}, routed |-> {},
                fallback |-> {}, ending |-> {}, bound |-> {}]
Phases == {"down", "reconcile", "finalize", "idle", "refresh", "gc", "gcMark", "stall", "stallKill",
           "loop", "await"}

TypeOK ==
  /\ run \in [Run -> Rows \cup {Absent}]
  /\ beat \in [Run -> 0 .. 2]
  /\ lease \in [Run -> {"none", "active", "released", "expired"}]
  /\ task \in [Task -> [st : {"ready", "active", "blocked", "failed", "done"},
                        retries : Nat, backoff : BOOLEAN]]
  /\ mem \in Memory
  /\ cyc \in [pc : Phases, runs : SUBSET Run, closed : SUBSET Run, tasks : SUBSET Task,
              slots : Nat, run : Run \cup {0}]
  /\ dpc \in [Run -> {"none", "mcp", "prep", "spawn", "unwind"}]
  /\ epc \in [Run -> EndCalls \cup {NoCall}]
  /\ kpc \in [Run -> {"none", "kill", "mark"}]
  /\ worker \in [Run -> {"none", "running", "killed"} \cup Exits]
  /\ crashes \in Nat

At(pc) == [pc |-> pc, runs |-> {}, closed |-> {}, tasks |-> {}, slots |-> 0, run |-> 0]

Init ==
  /\ run = [i \in Run |-> Absent]
  /\ beat = [i \in Run |-> 0]
  /\ lease = [i \in Run |-> "none"]
  /\ task = [t \in Task |-> [st |-> "ready", retries |-> 0, backoff |-> FALSE]]
  /\ mem = EmptyMemory
  /\ cyc = At("idle")
  /\ dpc = [i \in Run |-> "none"]
  /\ epc = [i \in Run |-> NoCall]
  /\ kpc = [i \in Run |-> "none"]
  /\ worker = [i \in Run |-> "none"]
  /\ crashes = 0

Live(i) == run[i].st = "live"
\* markStalled() asks for the terminal state alone: a run that is done has none.
Stallable(i) == run[i].st \in {"live", "done"}
RunsOf(t) == {i \in Run : run[i].st # "absent" /\ run[i].task = t}
Up == cyc.pc # "down"

\* The loop over the ready tasks awaits nothing but the dispatches it starts.
Turn == cyc.pc # "loop"

\* The process kills a worker: the callback of a bound session will report it.
Killed(i, exit) == [worker EXCEPT ![i] = IF @ # "running" THEN @
                                         ELSE IF i \in mem.bound THEN exit ELSE "none"]
\* Mutant: the release writes a status that no lease has.
ReleasedUnlisted(i) == [lease EXCEPT ![i] = IF @ = "active" THEN "closed" ELSE @]

Released(i) == [lease EXCEPT ![i] = IF @ = "active" THEN "released" ELSE @]
TasksFailed(S) == [t \in Task |-> IF \E i \in S : run[i].task = t
                                  THEN [task[t] EXCEPT !.st = "failed"] ELSE task[t]]

--------------------------------------------------------------------------------
(* Spawning an attempt: dispatch().                                           *)

Fresh == Cardinality({i \in Run : run[i].st # "absent"}) + 1

\* RunRepo.create refuses a second live run of a task, unless it has a parent.
Creatable(t) == t \in Lineage \/ \A i \in RunsOf(t) : ~Live(i)

\* Up to the first await: the row of the run, the task active.
dispatch(t, a) ==
  /\ Fresh \in Run
  /\ Creatable(t)
  /\ run' = [run EXCEPT ![Fresh] = [st |-> "live", task |-> t, agent |-> a,
                                    complete |-> FALSE, owned |-> FALSE]]
  /\ beat' = [beat EXCEPT ![Fresh] = 0]
  /\ task' = [task EXCEPT ![t].st = "active"]
  /\ dpc' = [dpc EXCEPT ![Fresh] = "mcp"]

\* A prerequisite blocks the task; a runtime that does not resolve fails it.
rejectDispatch(t) ==
  /\ \E st \in {"blocked", "failed"} : task' = [task EXCEPT ![t].st = st]
  /\ UNCHANGED <<run, beat, dpc>>

\* The cycle waits for the dispatch it started; a failed one uses no slot.
Resumed(i, used) == IF cyc.pc = "await" /\ cyc.run = i
                    THEN [cyc EXCEPT !.pc = "loop", !.run = 0, !.slots = @ - used] ELSE cyc

\* createMcpServer is back; without an adapter the dispatch unwinds.
McpReady(i) ==
  /\ Turn
  /\ dpc[i] = "mcp"
  /\ \/ /\ dpc' = [dpc EXCEPT ![i] = "prep"]
        /\ mem' = [mem EXCEPT !.starting = @ \cup {i}]
     \/ /\ dpc' = [dpc EXCEPT ![i] = "unwind"]
        /\ UNCHANGED mem
  /\ UNCHANGED <<durable, cyc, epc, kpc, worker, crashes>>

\* createMcpServer throws before the try block: the run stays live, without a session.
McpFails(i) ==
  /\ Turn
  /\ dpc[i] = "mcp"
  /\ dpc' = [dpc EXCEPT ![i] = "none"]
  /\ cyc' = Resumed(i, 0)
  /\ UNCHANGED <<durable, mem, epc, kpc, worker, crashes>>

\* Worktree, sandbox, preflight and prompt are ready: acquire and spawn.
PrepDone(i) ==
  /\ Turn
  /\ dpc[i] = "prep"
  /\ \/ /\ dpc' = [dpc EXCEPT ![i] = "spawn"]
        /\ lease' = [lease EXCEPT ![i] = "active"]
        /\ UNCHANGED mem
     \/ /\ dpc' = [dpc EXCEPT ![i] = "unwind"]
        /\ mem' = [mem EXCEPT !.starting = @ \ {i}]
        /\ UNCHANGED lease
  /\ UNCHANGED <<run, beat, task, cyc, epc, kpc, worker, crashes>>

\* adapter.spawn is back: attachSession, then recordSpawnedSession.  Neither
\* reads the run again.
SpawnDone(i) ==
  /\ Turn
  /\ dpc[i] = "spawn"
  /\ lease[i] = "active"
  /\ dpc' = [dpc EXCEPT ![i] = "none"]
  /\ mem' = [mem EXCEPT !.starting = @ \ {i}, !.active = @ \cup {i}, !.bound = @ \cup {i}]
  /\ worker' = [worker EXCEPT ![i] = "running"]
  /\ cyc' = Resumed(i, 1)
  /\ UNCHANGED <<durable, epc, kpc, crashes>>

\* The spawn fails, or the lease is not active when the session is attached.
SpawnFailed(i) ==
  /\ Turn
  /\ dpc[i] = "spawn"
  /\ dpc' = [dpc EXCEPT ![i] = "unwind"]
  /\ mem' = [mem EXCEPT !.starting = @ \ {i}]
  /\ UNCHANGED <<durable, cyc, epc, kpc, worker, crashes>>

\* The catch block, to markDispatchStalled: whatever the row says by now.
Unwind(i) ==
  /\ Turn
  /\ dpc[i] = "unwind"
  /\ dpc' = [dpc EXCEPT ![i] = "none"]
  /\ lease' = Released(i)
  /\ run' = [run EXCEPT ![i].st = "stalled"]
  /\ cyc' = Resumed(i, 0)
  /\ UNCHANGED <<beat, task, mem, epc, kpc, worker, crashes>>

--------------------------------------------------------------------------------
(* The end of a session: handleSessionEnd().                                  *)

\* Mutant: a session end that throws keeps its slot.
EndReturnsWhenOk(i, m, had, ok) ==
  /\ mem' = [m EXCEPT !.finishing = @ \ {i},
                      !.handled = IF ok THEN @ \cup {i} ELSE @,
                      !.active = IF had /\ ok THEN @ \ {i} ELSE @]
  /\ lease' = IF had /\ ok THEN Released(i) ELSE lease
  /\ epc' = [epc EXCEPT ![i] = NoCall]

\* The finally block: m is the memory the try block leaves, ok whether it ran
\* to its end, had whether the session was still in activeSessions.
EndReturns(i, m, had, ok) ==
  /\ mem' = [m EXCEPT !.finishing = @ \ {i},
                      !.handled = IF ok THEN @ \cup {i} ELSE @,
                      !.active = IF had THEN @ \ {i} ELSE @]
  /\ lease' = IF had THEN Released(i) ELSE lease
  /\ epc' = [epc EXCEPT ![i] = NoCall]

\* A write with the token of the session: without a session there is no fence.
Fenced(i, had) == had => lease[i] = "active"

\* Mutant: a retry that leaves its run live.
retryOrFailKeepingRun(i) ==
  LET t == run[i].task
      n == task[t].retries + 1
  IN /\ task' = [task EXCEPT ![t] = IF n <= MaxTaskRetries
                                    THEN [st |-> "ready", retries |-> n, backoff |-> TRUE]
                                    ELSE [st |-> "failed", retries |-> n, backoff |-> FALSE]]
     /\ UNCHANGED run

\* retryOrFailStalledTask(crash): the run is stalled in the same turn.
retryOrFail(i) ==
  LET t == run[i].task
      n == task[t].retries + 1
  IN IF n <= MaxTaskRetries
     THEN /\ task' = [task EXCEPT ![t] = [st |-> "ready", retries |-> n, backoff |-> TRUE]]
          /\ run' = [run EXCEPT ![i].st = "stalled"]
     ELSE \/ /\ task' = [task EXCEPT ![t].retries = n, ![t].backoff = FALSE]
             /\ run' = [run EXCEPT ![i].st = "quarantined"]
          \/ /\ task' = [task EXCEPT ![t] = [st |-> "failed", retries |-> n, backoff |-> FALSE]]
             /\ run' = [run EXCEPT ![i].st = "stalled"]

\* Up to its first await, with m the memory its caller leaves.
handleSessionEnd(i, exit, m) ==
  LET why == IF i \in m.fallback THEN "completed" ELSE exit
      had == i \in m.active
      entered == [m EXCEPT !.fallback = @ \ {i}, !.finishing = @ \cup {i}]
      Awaits(pc, live) ==
        /\ mem' = entered
        /\ epc' = [epc EXCEPT ![i] = [pc |-> pc, why |-> why, had |-> had, live |-> live]]
        /\ UNCHANGED lease
  IN \/ /\ why = "crashed" /\ Live(i) /\ Fenced(i, had)
        /\ retryOrFail(i)
        /\ Awaits("evidence", FALSE)
     \/ /\ why = "crashed" /\ Live(i) /\ ~Fenced(i, had)
        /\ EndReturns(i, entered, had, FALSE)
        /\ UNCHANGED <<run, task>>
     \/ /\ why = "failed" /\ Live(i)
        /\ Awaits("limits", TRUE)
        /\ UNCHANGED <<run, task>>
     \/ /\ why \notin {"crashed", "failed"} \/ ~Live(i)
        /\ Awaits("evidence", Live(i))
        /\ UNCHANGED <<run, task>>

\* ... which returns at once when the end was handled or is being handled.
sessionEnd(i, exit, m) ==
  IF i \in m.handled \cup m.finishing
  THEN mem' = m /\ UNCHANGED <<run, task, lease, epc>>
  ELSE handleSessionEnd(i, exit, m)

\* No limit applies: markFailed, fenced, and blind to what the row says by now.
Limits(i) ==
  /\ Turn
  /\ epc[i].pc = "limits"
  /\ IF Fenced(i, epc[i].had)
     THEN /\ run' = [run EXCEPT ![i].st = "failed"]
          /\ epc' = [epc EXCEPT ![i].pc = "evidence", ![i].live = FALSE]
          /\ UNCHANGED <<mem, lease>>
     ELSE EndReturns(i, mem, epc[i].had, FALSE) /\ UNCHANGED run
  /\ UNCHANGED <<beat, task, cyc, dpc, kpc, worker, crashes>>

Routed(i) == [mem EXCEPT !.routed = @ \cup {i}]

\* The dirty-worktree probe is back: costs and evidence, then the routing.
Evidence(i) ==
  LET e == epc[i] IN
  /\ Turn
  /\ e.pc = "evidence"
  /\ \/ /\ ~Fenced(i, e.had)
        /\ EndReturns(i, mem, e.had, FALSE)
     \/ /\ Fenced(i, e.had) /\ e.why # "completed"
        /\ EndReturns(i, mem, e.had, TRUE)
     \/ /\ Fenced(i, e.had) /\ e.why = "completed" /\ (e.had \/ e.live)
        /\ epc' = [epc EXCEPT ![i].pc = IF e.had THEN "release" ELSE "route"]
        /\ UNCHANGED <<mem, lease>>
     \/ /\ e.why = "completed" /\ ~e.had /\ ~e.live
        /\ EndReturns(i, Routed(i), FALSE, TRUE)
  /\ UNCHANGED <<run, beat, task, cyc, dpc, kpc, worker, crashes>>

\* releaseBeforeCompletionRouting: the slot and the lease go before the pipeline.
Release(i) ==
  /\ Turn
  /\ epc[i].pc = "release"
  /\ epc[i].live
  /\ mem' = [mem EXCEPT !.active = @ \ {i}]
  /\ lease' = Released(i)
  /\ epc' = [epc EXCEPT ![i].pc = "route", ![i].had = FALSE]
  /\ UNCHANGED <<run, beat, task, cyc, dpc, kpc, worker, crashes>>

\* routeCompletedRun leaves a run that had already ended alone.
ReleaseEnded(i) ==
  /\ Turn
  /\ epc[i].pc = "release"
  /\ ~epc[i].live
  /\ EndReturns(i, Routed(i), TRUE, TRUE)
  /\ UNCHANGED <<run, beat, task, cyc, dpc, kpc, worker, crashes>>

\* The release fails or times out: a live run fails, and nothing is routed.
ReleaseFailed(i) ==
  /\ Turn
  /\ epc[i].pc = "release"
  /\ run' = IF Live(i) /\ lease[i] = "active" THEN [run EXCEPT ![i].st = "failed"] ELSE run
  /\ EndReturns(i, mem, TRUE, lease[i] = "active")
  /\ UNCHANGED <<beat, task, cyc, dpc, kpc, worker, crashes>>

\* The end of the pipeline, which decides on the row it read before it began:
\* a review is dispatched and the run is done, a fix or an approval keeps it,
\* markFailed ends it, or there is nothing to do.
Route(i) ==
  /\ Turn
  /\ epc[i].pc = "route"
  /\ \E row \in {[run[i] EXCEPT !.st = "done"], [run[i] EXCEPT !.st = "failed"],
                 [run[i] EXCEPT !.owned = TRUE], run[i]} :
       run' = [run EXCEPT ![i] = row]
  /\ EndReturns(i, Routed(i), FALSE, TRUE)
  /\ UNCHANGED <<beat, task, cyc, dpc, kpc, worker, crashes>>

\* The pipeline throws: the end of the session is not handled.
RouteThrows(i) ==
  /\ Turn
  /\ epc[i].pc = "route"
  /\ EndReturns(i, mem, FALSE, FALSE)
  /\ UNCHANGED <<run, beat, task, cyc, dpc, kpc, worker, crashes>>

--------------------------------------------------------------------------------
(* Completion: the agent's call, the teardown it schedules, the fallback.      *)

\* waitForCompletion settles.
SessionExit(i) ==
  /\ Turn
  /\ worker[i] \in Exits \cup {"killed"}
  /\ worker' = [worker EXCEPT ![i] = "none"]
  /\ sessionEnd(i, worker[i], [mem EXCEPT !.bound = @ \ {i}])
  /\ UNCHANGED <<beat, cyc, dpc, kpc, crashes>>

\* POST complete: durable evidence now, teardown on the next turn.
completeRun(i) ==
  /\ Turn
  /\ Live(i)
  /\ i \in mem.active
  /\ ~run[i].complete
  /\ run' = [run EXCEPT ![i].complete = TRUE]
  /\ mem' = [mem EXCEPT !.ending = @ \cup {i}]
  /\ UNCHANGED <<beat, lease, task, cyc, dpc, epc, kpc, worker, crashes>>

\* endSession: arm the fallback, kill the session, and end it as completed.
endSession(i, m) ==
  LET armed == IF i \in m.routed THEN m ELSE [m EXCEPT !.fallback = @ \cup {i}] IN
  /\ worker' = IF i \in m.active THEN Killed(i, "completed") ELSE worker
  /\ IF i \in m.routed
     THEN mem' = armed /\ UNCHANGED <<run, task, lease, epc>>
     ELSE sessionEnd(i, "completed", [armed EXCEPT !.handled = @ \ {i}])
  /\ UNCHANGED <<beat, cyc, dpc, kpc, crashes>>

ScheduledEnd(i) ==
  /\ Turn
  /\ i \in mem.ending
  /\ endSession(i, [mem EXCEPT !.ending = @ \ {i}])

\* Mutant: the timer does not ask whether the completion was routed.
CompletionFallbackBlind(i) ==
  /\ Turn
  /\ i \in mem.fallback
  /\ sessionEnd(i, "completed", [mem EXCEPT !.fallback = @ \ {i}, !.handled = @ \ {i}])
  /\ UNCHANGED <<beat, cyc, dpc, kpc, worker, crashes>>

\* The fallback timer, END_SESSION_FALLBACK_DELAY_MS after endSession.
CompletionFallback(i) ==
  LET fired == [mem EXCEPT !.fallback = @ \ {i}] IN
  /\ Turn
  /\ i \in mem.fallback
  /\ IF i \in mem.routed \/ ~Live(i)
     THEN mem' = fired /\ UNCHANGED <<run, task, lease, epc>>
     ELSE sessionEnd(i, "completed", [fired EXCEPT !.handled = @ \ {i}])
  /\ UNCHANGED <<beat, cyc, dpc, kpc, worker, crashes>>

\* routeStoredCompletion, to the pipeline's first await.
routeStoredCompletion(i) ==
  /\ i \notin mem.routed \cup mem.finishing
  /\ Live(i)
  /\ mem' = [mem EXCEPT !.finishing = @ \cup {i}]
  /\ epc' = [epc EXCEPT ![i] = [pc |-> "route", why |-> "completed", had |-> FALSE, live |-> TRUE]]

--------------------------------------------------------------------------------
(* The poll cycle: checkStalled(), then the ready tasks one by one.           *)

\* inFlightCycle lets one cycle run; timer and kicks start the next.
CycleBegins ==
  /\ cyc.pc = "idle"
  /\ cyc' = [At("refresh") EXCEPT !.runs = mem.active]
  /\ UNCHANGED <<durable, mem, dpc, epc, kpc, worker, crashes>>

\* A live worker renews lease and heartbeat; a lost lease drops the session.
refreshHeartbeat(i) ==
  /\ cyc.pc = "refresh"
  /\ i \in cyc.runs
  /\ cyc' = [cyc EXCEPT !.runs = @ \ {i}]
  /\ \/ /\ i \notin mem.active \/ i \in mem.finishing \/ worker[i] # "running"
        /\ UNCHANGED <<beat, mem, worker>>
     \/ /\ i \in mem.active \ mem.finishing /\ worker[i] = "running" /\ lease[i] = "active"
        /\ beat' = [beat EXCEPT ![i] = 0]
        /\ UNCHANGED <<mem, worker>>
     \/ /\ i \in mem.active \ mem.finishing /\ worker[i] = "running" /\ lease[i] # "active"
        /\ mem' = [mem EXCEPT !.active = @ \ {i}]
        /\ worker' = Killed(i, "killed")
        /\ UNCHANGED beat
  /\ UNCHANGED <<run, lease, task, dpc, epc, kpc, crashes>>

\* Mutant: a run whose session end was handled is no longer looked at.
StaleSlotsUnhandled ==
  {i \in Run : /\ Live(i) /\ ~run[i].owned /\ beat[i] = 2
               /\ i \notin mem.active \cup mem.starting \cup mem.finishing \cup mem.handled}

\* closeStaleSlots reads the rows and the memory once, before its awaits.
StaleSlots ==
  {i \in Run : /\ Live(i) /\ ~run[i].owned /\ beat[i] = 2
               /\ i \notin mem.active \cup mem.starting \cup mem.finishing}

GcBegins ==
  /\ cyc.pc = "refresh"
  /\ cyc.runs = {}
  /\ cyc' = [At("gc") EXCEPT !.runs = StaleSlots]
  /\ UNCHANGED <<durable, mem, dpc, epc, kpc, worker, crashes>>

\* The reaper cleans the worker up, or skips it, or fails.
GcReaps(i) ==
  /\ cyc.pc = "gc"
  /\ i \in cyc.runs
  /\ worker' \in {worker, Killed(i, "killed")}
  /\ cyc' = [cyc EXCEPT !.pc = "gcMark", !.run = i]
  /\ UNCHANGED <<durable, mem, dpc, epc, kpc, crashes>>

\* markStalled throws when the run has a terminal state by now, and the cycle with it.
GcMarks ==
  LET i == cyc.run IN
  /\ cyc.pc = "gcMark"
  /\ IF Stallable(i)
     THEN /\ run' = [run EXCEPT ![i].st = "stalled"]
          /\ cyc' = [cyc EXCEPT !.pc = "gc", !.run = 0, !.runs = @ \ {i}, !.closed = @ \cup {i}]
     ELSE /\ cyc' = At("idle")
          /\ UNCHANGED run
  /\ UNCHANGED <<beat, lease, task, mem, dpc, epc, kpc, worker, crashes>>

\* Runs with a session whose heartbeat is out of time.
HeartbeatStalled ==
  {i \in mem.active \ mem.finishing : Live(i) /\ beat[i] > 0}

\* The closed slots fail their tasks and lose their leases; checkStalledRuns
\* then marks every stalled session at once.
GcEnds ==
  /\ cyc.pc = "gc"
  /\ cyc.runs = {}
  /\ task' = TasksFailed(cyc.closed)
  /\ lease' = [i \in Run |-> IF i \in cyc.closed /\ lease[i] = "active" THEN "expired" ELSE lease[i]]
  /\ run' = [i \in Run |-> IF i \in HeartbeatStalled THEN [run[i] EXCEPT !.st = "stalled"] ELSE run[i]]
  /\ cyc' = [At("stall") EXCEPT !.runs = HeartbeatStalled]
  /\ UNCHANGED <<beat, mem, dpc, epc, kpc, worker, crashes>>

\* A stalled session is killed, if the adapter can ...
StallKills(i) ==
  /\ cyc.pc = "stall"
  /\ i \in cyc.runs \cap mem.active
  /\ cyc' = [cyc EXCEPT !.pc = "stallKill", !.run = i]
  /\ worker' \in {worker, Killed(i, "killed")}
  /\ UNCHANGED <<durable, mem, dpc, epc, kpc, crashes>>

\* ... and its slot, lease and task go: no retry after a heartbeat.
StallCloses(i) ==
  /\ i \in cyc.runs
  /\ \/ cyc.pc = "stallKill" /\ cyc.run = i
        /\ mem' = [mem EXCEPT !.active = @ \ {i}]
        /\ lease' = Released(i)
     \/ cyc.pc = "stall" /\ i \notin mem.active
        /\ UNCHANGED <<mem, lease>>
  /\ cyc' = [cyc EXCEPT !.pc = "stall", !.run = 0, !.runs = @ \ {i}]
  /\ task' = TasksFailed({i})
  /\ UNCHANGED <<run, beat, dpc, epc, kpc, worker, crashes>>

\* Mutant: asks for sessions instead of live runs and ready tasks.
TakeableBySession(t) ==
  task[t].st \in {"ready", "active"} /\ ~task[t].backoff /\ RunsOf(t) \cap mem.active = {}

\* getReady, and the backoff of a retry.
Takeable(t) ==
  task[t].st = "ready" /\ ~task[t].backoff /\ \A i \in RunsOf(t) : ~Live(i)

\* Mutant: the sessions already running are not subtracted from the slots.
CyclePlansAllSlots ==
  /\ cyc.pc = "stall"
  /\ cyc.runs = {}
  /\ cyc' = [At("loop") EXCEPT !.slots = MaxConcurrentRuns,
                               !.tasks = {t \in Task : Takeable(t)}]
  /\ UNCHANGED <<durable, mem, dpc, epc, kpc, worker, crashes>>

\* The free slots and the ready tasks, read once for the whole loop.
CyclePlans ==
  /\ cyc.pc = "stall"
  /\ cyc.runs = {}
  /\ cyc' = IF Cardinality(mem.active) >= MaxConcurrentRuns THEN At("idle")
            ELSE [At("loop") EXCEPT !.slots = MaxConcurrentRuns - Cardinality(mem.active),
                                    !.tasks = {t \in Task : Takeable(t)}]
  /\ UNCHANGED <<durable, mem, dpc, epc, kpc, worker, crashes>>

\* Mutant: an agent is busy only while its session is being started.
isAgentStarting(a) == \E i \in mem.starting : run[i].agent = a

isAgentBusy(a) == \E i \in mem.active : run[i].agent = a

\* A fix or review waits for a session of its own lineage.
isWorktreeContested(t) == t \in Lineage /\ \E i \in mem.active : run[i].task = t

CanTake(t) == cyc.pc = "loop" /\ cyc.slots > 0 /\ t \in cyc.tasks

CycleDispatches(t, a) ==
  /\ CanTake(t)
  /\ ~isAgentBusy(a)
  /\ ~isWorktreeContested(t)
  /\ dispatch(t, a)
  /\ cyc' = [cyc EXCEPT !.pc = "await", !.run = Fresh, !.tasks = @ \ {t}]
  /\ UNCHANGED <<lease, mem, epc, kpc, worker, crashes>>

CycleRejects(t) ==
  /\ CanTake(t)
  /\ \E a \in Agent : ~isAgentBusy(a)
  /\ ~isWorktreeContested(t)
  /\ rejectDispatch(t)
  /\ cyc' = [cyc EXCEPT !.tasks = @ \ {t}]
  /\ UNCHANGED <<lease, mem, epc, kpc, worker, crashes>>

\* No agent, a contested worktree, or a create that throws: the next task.
CycleSkips(t) ==
  /\ CanTake(t)
  /\ \/ \A a \in Agent : isAgentBusy(a)
     \/ isWorktreeContested(t) \/ ~Creatable(t) \/ Fresh \notin Run
  /\ cyc' = [cyc EXCEPT !.tasks = @ \ {t}]
  /\ UNCHANGED <<durable, mem, dpc, epc, kpc, worker, crashes>>

CycleEnds ==
  /\ cyc.pc = "loop"
  /\ cyc.slots = 0 \/ cyc.tasks = {}
  /\ cyc' = At("idle")
  /\ UNCHANGED <<durable, mem, dpc, epc, kpc, worker, crashes>>

--------------------------------------------------------------------------------
(* Startup, time, workers and crashes.                                        *)

\* The API serves before the reconcile, which reads the live runs once.
Start ==
  /\ cyc.pc = "down"
  /\ cyc' = [At("reconcile") EXCEPT !.runs = {i \in Run : Live(i)}]
  /\ UNCHANGED <<durable, mem, dpc, epc, kpc, worker, crashes>>

\* classifyStartupRun, in its order: session, workflow-owned, completed ...
ReconcileFinalizes(i) ==
  /\ cyc.pc = "reconcile"
  /\ i \in cyc.runs
  /\ i \notin mem.active
  /\ ~run[i].owned /\ run[i].complete
  /\ worker' \in {worker, Killed(i, "killed")}
  /\ \/ /\ routeStoredCompletion(i)
        /\ cyc' = [cyc EXCEPT !.pc = "finalize", !.run = i, !.runs = @ \ {i}]
     \/ /\ ~Live(i) \/ i \in mem.routed \cup mem.finishing
        /\ cyc' = [cyc EXCEPT !.runs = @ \ {i}]
        /\ UNCHANGED <<mem, epc>>
  /\ UNCHANGED <<durable, dpc, kpc, crashes>>

ReconcileFinalized ==
  /\ cyc.pc = "finalize"
  /\ epc[cyc.run].pc = "none"
  /\ cyc' = [cyc EXCEPT !.pc = "reconcile", !.run = 0]
  /\ UNCHANGED <<durable, mem, dpc, epc, kpc, worker, crashes>>

\* ... an active lease, a tool call in flight under a fresh heartbeat ...
ReconcileSpares(i) ==
  /\ cyc.pc = "reconcile"
  /\ i \in cyc.runs
  /\ \/ i \in mem.active \/ run[i].owned
     \/ ~run[i].complete /\ (lease[i] = "active" \/ beat[i] = 0)
  /\ cyc' = [cyc EXCEPT !.runs = @ \ {i}]
  /\ UNCHANGED <<durable, mem, dpc, epc, kpc, worker, crashes>>

\* ... and what is left is stalled; its task stays active for the operator.
ReconcileStalls(i) ==
  /\ cyc.pc = "reconcile"
  /\ i \in cyc.runs
  /\ i \notin mem.active
  /\ ~run[i].owned /\ ~run[i].complete /\ lease[i] # "active"
  /\ worker' \in {worker, Killed(i, "killed")}
  /\ run' = IF Stallable(i) THEN [run EXCEPT ![i].st = "stalled"] ELSE run
  /\ cyc' = [cyc EXCEPT !.runs = @ \ {i}]
  /\ UNCHANGED <<beat, lease, task, mem, dpc, epc, kpc, crashes>>

ReconcileEnds ==
  /\ cyc.pc = "reconcile"
  /\ cyc.runs = {}
  /\ cyc' = At("idle")
  /\ UNCHANGED <<durable, mem, dpc, epc, kpc, worker, crashes>>

\* A worker, one that is being spawned included, may outlive the process.
Crash ==
  /\ Up
  /\ crashes < MaxCrashes
  /\ crashes' = crashes + 1
  /\ cyc' = At("down")
  /\ mem' = EmptyMemory
  /\ dpc' = [i \in Run |-> "none"]
  /\ epc' = [i \in Run |-> NoCall]
  /\ kpc' = [i \in Run |-> "none"]
  /\ \E S \in SUBSET {i \in Run : worker[i] = "running" \/ dpc[i] = "spawn"} :
       worker' = [i \in Run |-> IF i \in S THEN "running" ELSE "none"]
  /\ UNCHANGED durable

WorkerExits(i) ==
  /\ worker[i] = "running"
  /\ IF i \in mem.bound THEN \E why \in Exits : worker' = [worker EXCEPT ![i] = why]
                        ELSE worker' = [worker EXCEPT ![i] = "none"]
  /\ UNCHANGED <<durable, mem, cyc, dpc, epc, kpc, crashes>>

\* Another heartbeat timeout passes without a heartbeat.
HeartbeatAges(i) ==
  /\ Live(i)
  /\ beat[i] < MaxAge
  /\ beat' = [beat EXCEPT ![i] = @ + 1]
  /\ UNCHANGED <<run, lease, task, mem, cyc, dpc, epc, kpc, worker, crashes>>

\* The ttl of a lease is two heartbeat timeouts.
LeaseExpires(i) ==
  /\ lease[i] = "active"
  /\ beat[i] = 2
  /\ lease' = [lease EXCEPT ![i] = "expired"]
  /\ UNCHANGED <<run, beat, task, mem, cyc, dpc, epc, kpc, worker, crashes>>

BackoffEnds(t) ==
  /\ task[t].backoff
  /\ task' = [task EXCEPT ![t].backoff = FALSE]
  /\ UNCHANGED <<run, beat, lease, mem, cyc, dpc, epc, kpc, worker, crashes>>

--------------------------------------------------------------------------------
(* Operator calls, concurrent with everything else.                           *)

\* Guarded by the live runs of the task; busy agents are not asked about.
manualDispatch(t, a) ==
  /\ "dispatch" \in Operator /\ Up /\ Turn
  /\ \A i \in RunsOf(t) : ~Live(i)
  /\ dispatch(t, a) \/ rejectDispatch(t)
  /\ UNCHANGED <<lease, mem, cyc, epc, kpc, worker, crashes>>

\* killRun, or without a session the orphan reaper; either may fail, and the row
\* is not yet touched.
cancelRun(i) ==
  /\ "cancel" \in Operator /\ Up /\ Turn
  /\ Live(i) /\ kpc[i] = "none"
  /\ kpc' = [kpc EXCEPT ![i] = IF i \in mem.active THEN "kill" ELSE "mark"]
  /\ worker' \in {worker, Killed(i, "killed")}
  /\ UNCHANGED <<durable, mem, cyc, dpc, epc, crashes>>

\* adapter.kill is back: the slot and the lease go.
killRun(i) ==
  /\ Turn
  /\ kpc[i] = "kill"
  /\ kpc' = [kpc EXCEPT ![i] = "mark"]
  /\ mem' = [mem EXCEPT !.active = @ \ {i}]
  /\ lease' = Released(i)
  /\ UNCHANGED <<run, beat, task, cyc, dpc, epc, worker, crashes>>

\* dag.onRunComplete: the latest run of a task decides, once it has ended.
onRunComplete(t, rows) ==
  LET mine == {i \in Run : rows[i].st # "absent" /\ rows[i].task = t}
      latest == CHOOSE i \in mine : \A j \in mine : j <= i
  IN IF rows[latest].st \notin Ended THEN task
     ELSE [task EXCEPT ![t].st = IF rows[latest].st = "done" THEN "done" ELSE "failed"]

\* markCancelled throws when the run ended meanwhile: the transaction is undone.
CancelMarks(i) ==
  LET rows == [run EXCEPT ![i].st = "cancelled"] IN
  /\ Turn
  /\ kpc[i] = "mark"
  /\ kpc' = [kpc EXCEPT ![i] = "none"]
  /\ IF Live(i) THEN run' = rows /\ task' = onRunComplete(run[i].task, rows)
                ELSE UNCHANGED <<run, task>>
  /\ UNCHANGED <<beat, lease, mem, cyc, dpc, epc, worker, crashes>>

\* POST end-session, by an operator or by the MCP client after a completion.
nudge(i) ==
  /\ "nudge" \in Operator /\ Up /\ Turn
  /\ run[i].st # "absent"
  /\ IF i \in mem.active
     THEN endSession(i, mem)
     ELSE /\ routeStoredCompletion(i)
          /\ UNCHANGED <<durable, cyc, dpc, kpc, worker, crashes>>

--------------------------------------------------------------------------------

CycleNext ==
  \/ CycleBegins \/ GcBegins \/ GcMarks \/ GcEnds \/ CyclePlans \/ CycleEnds
  \/ \E i \in Run : refreshHeartbeat(i) \/ GcReaps(i) \/ StallKills(i) \/ StallCloses(i)
  \/ \E t \in Task : \/ CycleRejects(t) \/ CycleSkips(t)
                     \/ \E a \in Agent : CycleDispatches(t, a)

StartupNext ==
  \/ Start \/ ReconcileFinalized \/ ReconcileEnds
  \/ \E i \in Run : ReconcileFinalizes(i) \/ ReconcileSpares(i) \/ ReconcileStalls(i)

DispatchNext(i) ==
  McpReady(i) \/ McpFails(i) \/ PrepDone(i) \/ SpawnDone(i) \/ SpawnFailed(i) \/ Unwind(i)

EndNext(i) ==
  \/ SessionExit(i) \/ ScheduledEnd(i) \/ CompletionFallback(i)
  \/ Limits(i) \/ Evidence(i) \/ Release(i) \/ ReleaseEnded(i) \/ ReleaseFailed(i)
  \/ Route(i) \/ RouteThrows(i)

OperatorNext ==
  \/ \E t \in Task, a \in Agent : manualDispatch(t, a)
  \/ \E i \in Run : cancelRun(i) \/ killRun(i) \/ CancelMarks(i) \/ nudge(i)

Next ==
  \/ CycleNext \/ StartupNext \/ OperatorNext \/ Crash
  \/ \E i \in Run : DispatchNext(i) \/ EndNext(i) \/ completeRun(i) \/ WorkerExits(i)
                    \/ HeartbeatAges(i) \/ LeaseExpires(i)
  \/ \E t \in Task : BackoffEnds(t)

Spec == Init /\ [][Next]_vars

\* Timers fire, awaited calls return, and the process is started again.  A
\* handler that is due only ever waits for the loop's turn to end, and the event
\* loop starves none: strong fairness.
Fairness ==
  /\ WF_vars(CycleNext) /\ WF_vars(StartupNext)
  /\ \A i \in Run : SF_vars(DispatchNext(i)) /\ SF_vars(EndNext(i)) /\ WF_vars(HeartbeatAges(i))

FairSpec == Spec /\ Fairness

--------------------------------------------------------------------------------
(* Properties.                                                                *)

\* Two ticks never grab the same task: no task has two live runs.
OneLiveRunPerTask ==
  \A t \in Task : \A i, j \in RunsOf(t) : Live(i) /\ Live(j) => i = j

\* The slots: sessions and spawns together stay within maxConcurrentRuns,
\* although only sessions are counted when a cycle plans.
SlotsRespected ==
  Cardinality(mem.active \cup {i \in Run : dpc[i] # "none"}) <= MaxConcurrentRuns

\* The cycle never gives one agent two sessions or spawns at once.
AgentExclusive ==
  \A i, j \in mem.active \cup {k \in Run : dpc[k] # "none"} : run[i].agent = run[j].agent => i = j

\* A retry is paid by the end of an attempt, and no attempt pays twice: late
\* callbacks, teardown requests and timers of one session count once.
RetriesPaidByRuns ==
  \A t \in Task : task[t].retries <= Cardinality({i \in RunsOf(t) : ~Live(i)})

\* A completion is routed once in the life of a process: the session's callback,
\* the teardown request, the fallback timer and an operator's nudge are one.
NoSecondPipeline ==
  [][\A i \in Run : i \in mem.routed /\ epc[i].pc # "route" => epc'[i].pc # "route"]_vars

\* A run the operator cancelled gets no session: cancel stops the attempt.
CancelledHasNoSession ==
  \A i \in Run : run[i].st = "cancelled" => i \notin mem.active

\* A live run that nobody works on is noticed: without a spawn, a session with a
\* worker or a workflow that owns it, it ends or is handed to the workflow.
Abandoned(i) ==
  Live(i) /\ ~run[i].owned /\ dpc[i] = "none" /\ ~(i \in mem.active /\ worker[i] = "running")
AbandonedRunsEnd ==
  \A i \in Run : Abandoned(i) ~> (~Live(i) \/ run[i].owned)

\* The slot of a session whose worker is gone is given back, whichever of the
\* callbacks, requests and timers that end a session come, and in which order.
SlotsComeBack ==
  \A i \in Run : (i \in mem.active /\ worker[i] # "running") ~> i \notin mem.active
================================================================================
