# Ductum: a TLA+ model of its control plane

Ductum runs coding agents on the tasks of a specification: it imports a spec with
a graph of tasks, dispatches the ready ones to agents in worktrees and sandboxes,
watches their sessions, routes what they complete through reviews, fixes and an
approval, merges what was approved, and lets an operator step in at any time.  One
Node process (the API server with its dispatcher) works on one SQLite file; the
agents are processes of their own.  What can go wrong is in the order of things:
callbacks, timers, operator calls and crashes that meet between two `await`s.

This directory models the parts of `src/packages/core` and `src/packages/api` that carry
this control, checks them with TLC, and proves with TLAPS, for every value of the
constants, what most of the checked invariants say.

## Inventory

| component | state it keeps | operations | what is hard, what makes it correct |
|---|---|---|---|
| **Attempt lease** `core/src/repos/attempt-lease.ts`, `dispatcher-lease.ts` | `attempt_leases`, `attempt_fence_sequence` | acquire, attachSession, renew, release, expireRun, assertCanWrite, getActive | expiry and takeover against late writes; check and write are two statements. One holder per run, no early takeover, a superseded token writes nothing |
| **Dispatcher** `core/src/dispatcher-*.ts` | `runs`, `tasks`; the Maps and Sets `activeSessions`, `startingRuns`, `finishingRuns`, `handledSessionEnds`, `routedPostCompletion`, `completionFallbacks` | cycle, dispatch, handleSessionEnd, endSession, killRun, checkStalled, closeStaleSlots, routeStoredCompletion, reconcileOrphanedSessions, manualDispatch | suspended calls that go on with what they read; four sources that end one session; a crash anywhere. One live run per task, slots and agents exact, retries counted once, a completion routed once, abandoned runs noticed |
| **Task DAG** `core/src/dag.ts`, `api/src/routes/tasks.ts`, `specs.ts` | `tasks`, `task_dependencies`, `specs.status` | evaluateTaskDAG, validateDAG, onRunComplete, reconcileSpecStatus and the task handlers | a fixpoint loop over statuses anybody may set. It ends, its result does not depend on the order of tasks, no task or retry is stranded |
| **Post-completion router** `core/src/post-completion-router-*.ts` | the review and fix tasks of a lineage, the approval of its root | routes of an implementation, a review, a fix; dispatchReview, dispatchVerificationFix, escalation | rounds of review and fix, routed by rows read before awaits on git. Only reviewed commits are merged, one follow-up at a time, within `maxFixIterations`, no completion forgotten |
| **Approval and merge** `api/src/lib/run-ops/` (`approval*`, `merge*`) | approvals, recorded commits, branches, worktrees and the base branch | approveRun, approveRunWithRebase, unattended approval, rejectRun, mergeViaLocalBranch, finalizeSuccessfulMerge | a dozen git commands, each an await, over one checkout. No work deleted, rows and repository agree, landed work is closed |
| **Limits, pause, failover, resume** `dispatcher-limits.ts`, `dispatcher-recovery.ts`, `dispatcher-resume.ts`, `run-ops/*-control.ts` | checkpoints, retries, `fail_reason` | applyLimitsPolicy, failover, resolveResumeOptions, pause, redirect, retry, extend, deny | an operator's call against a late session end. One agent per worktree, attempts paid for, a pause that holds |
| **Reconcile and repair** `api/src/lib/reconcile*.ts` | none of its own | passes over runs and tasks | repairs of what is still moving |
| **Run state machine** `core/src/state-machine.ts` | `runs.stage`, `runs.terminal_state` | markFailed, markStalled, markPaused, markFrozen, markCancelled, markQuarantined, markDone | terminal states are final, but some writers do not ask |
| **Agent health, quarantine** `dispatcher-agent-health.ts`, `quarantine-classifier.ts` | failures per agent | record, cooldown, classify | boundaries of counts and windows |
| **Watchers and pull requests** `core/src/watcher-manager.ts`, `watchers/`, `api/src/lib/github-lifecycle.ts` | watchers per run, their child rows, `ci_status`, `review_status`, evidence | onReadyToShip, linkRun, spawnWatchers, poll, stop, cancel, syncRunState, resetToStage, the guard and the merge of an approval | polls that return after the stop, pushes by others between what is read and what is merged. What is merged had the review and the checks that were asked for, an approval leaves no watcher, watchers come to an end |
| **Enforcement** `core/src/enforce.ts` | workflow state | tool and stage gates, syncRunState, resetToStage | an external workflow runtime |
| worktrees, sandbox, secrets, costs, bakeoff scoring, configuration, storage, harness adapters, MCP, CLI, dashboard, landing page, GitHub, Telegram, webhooks, analytics, audit | | | I/O, validation, reports; see "Not modelled" |

The dispatcher calls the lease around every attempt and carries its token in the
writes of a session; the DAG reads and writes the `tasks` rows that the dispatcher
takes its work from; a completion is routed by the post-completion router, which adds
tasks for the dispatcher or opens an approval for the operator; the API handlers call
all of them, and run between any two turns of the dispatcher.  `PROJECT.json` lists
the hazards of this code line by line.

## Modules

| module | what it is |
|---|---|
| `FencedRegister` | the abstract promise of a lease: one holder per run, increasing epochs, writes under the holder's epoch |
| `Landing` | the abstract promise of an approval: a lineage's work comes to the base branch at once, and what is done stays there |
| `AttemptLease`, `AttemptLease_proofs` | the lease table and the fenced calls of several processes; proofs |
| `Dispatcher`, `Dispatcher_proofs` | the dispatcher as turns of one event loop, with crashes, workers and operators; proofs |
| `TaskDag`, `TaskDag_proofs` | tasks, dependencies and the status of one spec; proofs |
| `PostCompletion`, `PostCompletion_proofs` | what follows a completed run, up to the approval and the merge; proofs |
| `Approval`, `Approval_proofs` | the operator's verdict, git command by git command, and the reconcile after a crash; proofs |
| `Watchers`, `Watchers_proofs` | shipping as a pull request, the watchers, the approval and merge on GitHub; proofs |
| `RunControl`, `RunControl_proofs`, `RunControlTrees_proofs` | one task's attempts: limits, pause, redirect, retry, failover, resume; proofs |
| `MC*` | small instances for TLC |

Each module looks at one stretch of a task's life as closely as its hazards ask, and takes
a neighbour's as one step: `Dispatcher` has every await of a spawn, which is two steps in
`RunControl` and one in `PostCompletion`; the merge that is two steps in `PostCompletion`
is `Approval`, or `Watchers` when it goes through a pull request; the pipeline of a
completion, one step with its outcomes in `Dispatcher` and `RunControl`, is
`PostCompletion`.

Names are the source's: an action called `handleSessionEnd`, `cancelRun` or
`reconcileSpecStatus` is that function.  A definition with a name of its own
(`McpReady`, `AdvanceReviewed`, `CancelMarks`) is what follows an `await` of a
function.  A definition under a comment "Mutant:" is a plausible bug used to show
that a property can fail; nothing refers to it.

### AttemptLease

A run's row (`lease[r]`), the fence sequence (`seq`) and the clock are shared by
the processes (`Owner`); each remembers the token it was granted (`held`) and may
be between the check and the second statement of a fenced call (`call`).  The
dispatcher uses the run's id as the attempt's id, so a run has one row.  Calls of
one statement or one transaction are one action.  `Presents` is the fence a caller
shows: the token in memory, or what `resolveSessionFence` reads for a session.

`SingleProcess` says how the store is used.  TRUE is the deployed shape: a process
starts when no other is up, and no other turn of its event loop falls between
check and write.  FALSE lets two processes share the file, which the design allows; the
theorems that do not need `SingleProcess` cover it.

### Dispatcher

An action is what runs between two awaits.  Rows (`run`, `task`, `lease`, `beat`)
survive a crash; the process's memory (`mem`) and its suspended calls (`cyc`, `dpc`,
`epc`, `kpc`) do not; a worker may.

- `cyc`: start-up reconcile, then one cycle after the other (`inFlightCycle`):
  heartbeats, stale slots, heartbeat stalls, then the loop over the ready tasks,
  which awaits every dispatch it starts.  `Turn` says that the loop is not running,
  so that another continuation may.
- `dpc[i]`: `dispatch()` after its first await: MCP server, preparation, spawn, and
  the unwinding of a failure.
- `epc[i]`: `handleSessionEnd()`: limits, evidence, release, routing.  `why`, `had`
  and `live` are the locals it goes on with (exit reason, whether the session was in
  `activeSessions`, whether the run it read was live).
- `kpc[i]`: `cancelRun()` while it kills, and before it marks the run.
- `worker[i]`: the agent's process, then the exit its callback will report.

A fence is what `AttemptLease` promises: a call that holds a session's token throws unless
the lease is active; `releaseBeforeCompletionRouting` makes later writes unfenced, as in
the code.  The pipeline of a completion is one step with the outcomes it can leave on the
row.  A kill may fail, a release may time out, a spawn may fail at each of its awaits.
Only a failure inside the `try` of `dispatch()` is unwound: when `createMcpServer` rejects
(`dispatcher-spawn.ts:117`, `McpFails`), the run stays live and its task active, for the
stale-slot check to find.  `markStalled` asks for a terminal state and nothing else
(`Stallable`): a run that was done meanwhile becomes stalled.

Left out here: the failover and the resume of a wait, which dispatch from the end of a
session without asking for a slot or an agent (they are in `RunControl`), and the resume of
a run at start-up.  `SlotsRespected` and `AgentExclusive` are about the dispatches of the
cycle, which does ask.

### TaskDag

`order` is the list that `TaskRepo.list` returns.  `Settle` is the loop of
`evaluateTaskDAG`, as `MaxSweeps` sweeps; `returned` says that the last sweep
changed nothing.  Since the loop is synchronous, a loop that does not end is the end
of the process, and every action asks for `returned`.  A task's `runs` are the
outcomes of its runs.  `Import` is what a spec can be imported with; import does not
validate dependencies, single additions do.

### PostCompletion

The lineage of one implementation task (`Root`): the router creates its review and
fix tasks, runs of a follow-up point to the run they are about (`par`) and work in
its worktree (`tree`).  `call[i]` is the suspended routing of run `i`: where it is,
and the rows it read before (`live`, `tst`, `rstage`, `rterm`, `ost`), by which it
writes later, as the code does.  `acall` and `retrying` are suspended approvals and
retries, `boot` the runs the start-up reconcile has still to look at.

Two history variables are not in the code.  `head` names the commit of a worktree by
the run that made it; `cleared` collects the commits that a review has passed, or
that went to approval because no reviewer could be resolved.  `upsets` counts
crashes and operator interventions, in order, so that properties may exempt one.

`AdvanceReviewed` reopens the root before it awaits the workflow, as the code does
(`post-completion-router-task-completion.ts:36`): when the workflow throws, the root stays
reopened, without an approval.

Where the module takes less, or sees less, than the code:

- `Route` sees the session of its run still there; the code has dropped it before
  (`dispatcher-completion-release.ts:42`).  A release that fails or times out (`:36`, `:81`)
  ends the routing before it starts, and is in `Dispatcher`.
- `Reopened` asks for the terminal state; the code also reopens a root that has a
  `failReason` or is not recoverable.  A completed but blocked root in its ship stage
  (`workflow-owned-run.ts:15`) is left out of `Owned`.
- The routes of the candidates of a bakeoff and of its blind review
  (`post-completion-router-route-review.ts:98`) are left out.
- In this module a re-dispatch of the implementation starts a worktree of its own; in the
  code it may resume the checkpoint of a stalled run (`dispatcher-cycle.ts:150`), which is
  in `RunControl`.  The resume at start-up (`dispatcher-reconcile.ts:104`), the nudge and
  the manual dispatch of a run of the lineage are not modelled; `OneSessionPerTree` is
  about the cycle's dispatches.

`MergedCleared`, `OneFollowUp` and `QuietMerge` leave out behaviours in which an
operator retried a run: a retry readies a task of the lineage beside whatever is
under way.  What the model showed on the way, and the properties leave alone: a call
that goes on after its run was cancelled reopens it (see "Disagreements"); without a
reviewer the approval of a fix run is wiped by the `markDone` that follows it
(`post-completion-router-route-fix.ts:81`, `:198`); a live completed root whose fix is
done is routed again after a crash; a live root all of whose follow-ups failed, and a
live run behind a fix whose verification failed, are spared by every recovery and wait
for an operator (item 17): `CompletionsHandled` counts both as handled.

### Approval

A commit is the set of the commits it reaches, so that "is an ancestor of" is set
inclusion; a branch is the commit it points to.  `call[c]` is a suspended approval:
the step it waits for and what it holds (`path`, `seen`, `pre`, `kills`); `scan` is
the suspended reconcile pass with the rows it read at its start.  Each of these is a step of
its own, between which anything may happen: the check that the branch contains the base branch
(`Check`), that it is ahead of it and has the recorded commit (`Ahead`), the reading of the
head (`PreMergeHead`), the merge, the reading and recording of the merge commit (which may
fail, and is then left out: `Record`), the push, the reset after a failed push, the removal of
the worktree, that of the branch (`DropBranch`), and the write that makes the run done
(`Finish`).  The reset may fail as well (`RollbackFails`): then the merge stays, under a run
that still asks for its approval.  Like a crash, it leaves what only a reconcile repairs; the
two share a bound (`MaxCrashes`), and `VerdictsAgree` is about states before either.

Coarser than the code, or left out:

- the checkout of the base branch goes with `Check`, and `Ahead` stands for two reads of one
  branch;
- a descendant that the code ignores as a ghost (`approval-descendants.ts:36`) bars an
  approval in `Barring`, so that the model starts fewer approvals;
- a worktree that was gone is recreated under a new path by a rebase
  (`approval-rebase-worktree.ts:50`); the model keeps its name, and the runs below it see it
  as theirs;
- `Zombie` knows a run's merge by its recorded commit alone: not by the older form of a merge
  commit's subject, nor by the branch of a run without a recorded commit
  (`reconcile-pass.ts:95`); it looks for open descendants of the run, the code for those on
  the same branch (`:94`);
- `EndScan` takes as orphans the runs it finds at the ship stage; an approval without any
  difference, which fails the run (`merge.ts:48`), is a `GitFails` that leaves it.

`Overlap` says which calls may run beside one another.  In the runs, attended
approvals do (an operator's clicks), unattended approvals and reconciles run alone.
Beside another merge the reset of a failed push drops that merge, and a reconcile
judges by rows that are out of date: `ImplementsLanding` and `VerdictsAgree` are about
calls that do not overlap in these ways.

`ImplementsLanding` maps this state to `Landing`: `work` is what a lineage has committed
(`made`), `landed` what the base branch reaches of it, under whatever rebase, and
`closed` the lineages whose first run is done.  The merge is `Land`, the reset after a
failed push `Unland`, the write that makes the first run done (by the call or by a
reconcile) `Close`, a write that reports a done run as failed after all `Withdraw`; all
other git commands, row writes, scans and crashes are invisible.  So `DoneMeansLanded`
follows: a first run that is done has all its lineage's work on the base branch.

### Watchers

One run that goes out as a pull request.  A commit is the number of its making; `tree`,
`head` and `checks` are the worktree, the branch on GitHub and what its checks say.
`watch` is the sequence of generations, one for each `spawnWatchers()` that starts
watchers, and `active` the one in the manager's map.  Of a watcher, `pc` says whether
its timer is set or which answer it awaits, `row` what has become of its child row.  A
stop clears the timer and closes the row, but an answer under way still comes:
`validateParent` does not ask whether the watcher was stopped, so neither does
`Waiting`, and the row of a cancelled watcher that answers late is marked done.

`ship` is the suspended `onReadyToShip()`, `call` the suspended `approveRun()` with the
row it read and the head it judges.  The operators between `State` and `Resolved` are
the synchronous calls: each takes the row, the watchers and the evidence as it finds
them and yields what it leaves, so that an action can make several.  Awaits on the
local workflow runtime are not steps.

`checks` says of each check (`Check`) of a commit whether it has not been reported, runs, has
passed or has failed.  A CI watcher judges all that it sees.  The gate of the GitHub App
(`Gate`) judges by the policy of the moment, whichever it is (`Policies`): the checks that the
configuration or the branch protection names, and no others; a protected branch without
required checks, or a gate that is disabled, asks for nothing
(`approval-required-check-classifier.ts:74`, `approval-required-checks.ts:203`); without any of
these, all that there are, or some and all.  `merged.policy` remembers what was asked for, and
`MergedIsVetted` says that the merged head had it, others being red or missing, as
`approval-required-checks.classifier.test.ts:136` has it.  A merge that has landed may lose its
answer (`Merge`): the call ends as if it had failed, and the run still awaits its approval.

Taken for granted: a shipping and an approval do not overlap, because the review that
leads to a shipping is an open descendant, without which no approval starts, and lasts
longer than an approval awaits GitHub; the repository has a GitHub remote; a linked
commit is the head of the branch; a check that has ended is not run again.
Reviewers may say anything at any time.

Left out: the unattended approval, which records the worktree's commit after the guard
(`approval.ts:56`; the merge asks GitHub for that commit as the head all the same); the
clamp of `enforce.ts:514`, by which a run whose workflow reports `done` awaits its
approval instead (the workflow's stages are open here).  A worktree that is dirty, a
branch that does not contain its base and an empty head (`merge.ts:73`) are failures like
any other, `MergeFails`; `RefsRead` may let a head that has moved through, as the code
compares nothing when it cannot read the head; the merge is of the judged head all the
same.

### RunControl

One task and its attempts, in the order of their creation (`n` is the latest).  A run
has the worktree of the run it continues (`tree`), and `ckpt` is its row of
`run_checkpoints`.  `spawn[i]` is a suspended `dispatch()` with the run it reuses
(`from`), the run that fails over (`over`) and who awaits it (`by`): the cycle, the
start-up reconcile or the end of another session.  `routing`, `stalling` and `calls`
are completions, stalls and operator calls suspended in a kill or an inspection; a
call that goes on kills the session that was there when it asked.

A session is forgotten whether or not the kill of its agent worked, and most callers
swallow a kill that failed (`dispatcher-session.ts:34`, `:197`, `cost-budget.ts:57`,
`:109`).  So an agent may outlive its record: `session` are those the process knows of,
`lost` those it has forgotten and whose end will still be reported, `orphan` those of
whose end nobody hears, after a crash whose cleanup has skipped them.  Each of them may go
on for ever.

`waived` is a history variable: an operator's call that readies the task, or a start-up that
resumes it after a failed cleanup, goes on without the agents of the runs so far
(`Abandoned`).  Beside such an agent the code does start another in one worktree: a run is
capped and extended; the next one continues it, and is stalled by a heartbeat whose kill
fails; the operator extends the first run again, and the cycle resumes the worktree that the
second agent still works in.  Nothing in the code looks for that agent.  `WorktreeExclusive`
is what the code does keep: two agents share a worktree only if one of them is abandoned in this
sense, since nothing automatic (a stall, a failover, a retry of the budget, a cycle) readies or
resumes the task while an agent works, known or forgotten.

`allowance` and `held` are history variables: the attempts that the retry budget,
operators and start-up resumes have paid for, and whether a pause is in force.
`Polls` is the order the code gives to the cycle: it starts after the reconcile, and
awaits every spawn and kill of its own.  The rest may interleave.

Taken for granted: a worktree stays on disk, a backoff has elapsed when a cycle comes,
slots and agents are free, a spawn that a crash cuts off leaves no agent.  Left out: the
manual dispatch of a task (see "Disagreements" for what it can do), and the session that a
heartbeat gives up because its fence is stale (`dispatcher-session.ts:224`).
`held` is set by a pause of a run whose task is active and which the start-up
reconcile is through with: the server answers requests while the reconcile is still
under way, which resumes a run that was paused meanwhile.

## Runs

All runs say `CHECK_DEADLOCK FALSE`: every counter that the code leaves open is
bounded in a guard, and a factory whose tasks are finished has nothing to do.

| run | bounds | what it shows |
|---|---|---|
| `lease` | 2 runs, 2 processes one after the other, clock 3, ttl 2, 3 tokens | type, one holder per run, sessions of the holder, takeover only after expiry, fenced writes, refinement of `FencedRegister` |
| `dispatch_cycle` | 2 tasks (one fix task), 2 agents, 2 slots, 2 runs, 1 crash | no second live run of a task, no second attempt of an agent |
| `dispatch_sessions` | 1 task, 2 agents, 1 slot, 1 retry, 3 runs, 1 crash, nudges | slots, one charge per attempt, one routing per completion |
| `dispatch_liveness` | 1 task, 1 run, 2 crashes, heartbeats to age 2, manual dispatch and cancel | abandoned runs end, slots come back |
| `dispatch_cancel` | 1 task, cancel | *violation*: a run cancelled during its spawn gets a session |
| `task_dag` | 3 tasks, 2 runs per task, 2 operator calls, 3 sweeps | evaluations end and agree; no retry and no waiting task is stranded |
| `lineage` | 5 tasks, 5 runs, 2 rounds of fixes, 1 retry, 1 upset | only reviewed commits are merged, one follow-up at a time, rounds bounded, nobody works under a merge, no completion forgotten |
| `approval` | 3 runs in 2 lineages, 2 calls, 1 commit each, 2 merges, 1 rebase, 1 crash or failed reset | no committed work is deleted, rows and git agree |
| `approval_live` | as above, 2 commits each, 1 call or reconcile at a time, with pushes | type, refinement of `Landing`; landed work is closed in the end |
| `approval_stale` | as `approval`, no crash, no failed reset | *violation*: two approvals merge a branch that is behind the base |
| `pull_request` | 2 commits with 2 checks, 2 generations of watchers, 1 reset, 1 push by others or 1 crash; `Followed` | what is merged has its review and the checks that its gate required; an approval leaves no watcher; watchers come to an end |
| `run_control` | 3 runs, 1 retry, 2 operator grants, 1 crash, 1 call at a time; `Open` | one agent per worktree, abandoned ones aside, resumed as it was left; attempts paid for; pauses hold |

Why these bounds are enough for what they ask.  A takeover needs two processes, a clock
that outlives one lease and a third token for a grant after it.  A late callback needs one
session and everything that can end it; a retry charged twice needs a second run, a budget
overrun a third.  `MaxAge = 2` is a heartbeat old enough for both the stall (one timeout)
and the stale slot (two); runs about something else keep heartbeats fresh.  The chain of
three tasks, created backwards, needs three sweeps, the last of which finds nothing to
change, so `MaxSweeps = 3` also says that no evaluation of three tasks takes more.
`MaxEdits = 2` allows an addition and a removal, or an edit on top of a failure and its
retry.  Five tasks and five runs of a lineage are an implementation, its review, a fix,
its review and a second fix; with `MaxFix = 2` a third fix is one too many, and a fix
whose verification failed leaves its own task open behind another fix, which one round
never does.  Approvals race in pairs: of one lineage, and of two; one rebase and one crash
between any two git commands is what each repair is for.  That a lineage lands whole, and
that nothing is committed to it afterwards, needs two pieces of work in each;
`approval_live` checks it of one call at a time, beside sessions, rejections and a crash,
and the theorem `LandsAtOnce` is about any number of calls side by side.  Two commits are
one that is watched and one that replaces it, by a reset and another shipping or by
somebody else's push; two generations are the watchers of the first, still in a poll, and
those of the second.  Two checks are one that a gate names and one that it does not; in
the run they take one course, in which the build runs or has passed before the linter
fails, so that all the policies answer differently on the way.  The constraint `Followed`
also gives up a run that was merged and sent back to be merged again, and one that failed
after a second shipping, a push or a crash.  A behaviour that leaves the constraint is not
looked at any further, also for `WatchersReturn`.  Three attempts are the least for what
is wrong with worktrees: one that leaves a checkpoint, one that continues it, and one that
would take it again; the failed kill above needs three attempts and two grants.  With the
last run started, agents and the worktrees they hold only become fewer, the attempts are
all counted and no dispatch is left that a pause could fail to stop: there the constraint
`Open` ends the run.

### Fairness

- `Dispatcher!FairSpec` (`dispatch_liveness`).  The cycle and the start-up reconcile
  are weakly fair: the poll timer fires, awaited calls return, and a supervisor starts
  the process again.  Continuations of a dispatch and of a session's end are strongly
  fair: they are disabled only during a turn of the cycle's loop, and an event loop
  runs every callback that is due.  Heartbeats age, because clocks run.
- `PostCompletion!FairSpec` (`lineage`).  The continuations of a routing, the start-up
  reconcile and the stale-slot check are weakly fair, for the same reasons.
- `Approval!FairSpec` (`approval_live`).  The steps of a suspended call and of a pass
  are weakly fair; the start of a pass is strongly fair, because it waits for a moment
  without calls: an operator reconciles now and then.  That landed work is closed after
  a crash needs this, as the code starts no pass by itself.

- `Watchers!FairSpec` (`pull_request`).  The steps of the watchers are weakly fair: timers
  fire, and queries return or fail.  The second half is an assumption about `gh`, not
  something the code sees to: it is run without a timeout (`watcher.ts:69`), and
  `timeoutMs` is looked at by the next poll only (`base.ts:130`), so that a query that
  hangs keeps its watcher for ever.  The timeouts are strongly fair: a watcher that
  polls again and again passes its deadline, as clocks run.  Shippings, approvals and
  GitHub's checks may stop at any time.

Nothing is assumed of other operator calls, of workers (they may hang for ever), of
dispatches or of leases.  A worker that hangs keeps its session; the properties are
about runs without a working worker.

### Disagreements between code and text

Two are kept as violation runs; `PROJECT.json` quotes their text.

1. `dispatch_cancel`: a spawn under way does not look at the run again; the
   cancelled run gets a session.
2. `approval_stale`: that the branch contains the base branch is checked several git
   commands before the merge; of two approvals side by side the second merges a
   branch that does not contain the first one's merge.

The others were met while modelling; they are in the models, but no run is about them.

3. `updateTerminalStateFenced` (`repos/run.ts:328`) checks, then writes: across two
   processes a superseded token writes.  `FencedWrites` and the refinement are
   therefore about a single process.
4. The cycle dispatches the tasks it read as ready, and a manual dispatch may come
   between: for a fix or a review task the second one succeeds too, since
   `RunRepo.create` (`repos/run.ts:235`) guards only runs without a parent
   (`inventory/REFERENCE-ARCHITECTURE.md:80`: "single-claim semantics so two dispatchers
   can't grab the same task").  With `"dispatch"` in `Operator` and a task in `Lineage`,
   TLC finds `OneLiveRunPerTask` violated with two tasks and one agent.
5. The unwinding of a failed dispatch (`dispatcher-session.ts:282`) writes `stalled`
   over `cancelled`, and a routing that was suspended when its run was cancelled
   (`dispatchReview`, `AdvanceReviewed`, `ShipReviewed`) sends it or its root to
   approval, against `decisions/145-operator-cancel-control.md:46`.
6. A nudge routes a live run without a session as completed, whether or not a
   completion is stored, against `api/src/routes/runs.ts:290`.
7. An import (`api/src/routes/specs.ts:99`) may bring a cycle of dependencies, on
   which the evaluation loops for ever (`inventory/domains/06-workflow-model.md:61`).
8. `sqlite-transaction.ts:7-26` holds a transaction open across an await; what other
   handlers write meanwhile is inside it
   (`design/decisions-atomic-evidence-commit.md:29`).
9. Two retries of one run may both pass the check and both be written
   (`api/src/routes/runs.ts:496`, `operator-run-guards.ts:20`).
10. A resume of a paused run and the extension of a frozen one ready the task, but the
    next dispatch starts afresh: `resolveResumeOptions` looks at stalled runs only,
    against `decisions/118-runtime-cap-as-gate-uniform-mapping.md` (Invariant 1) and
    the comment at `state-machine.ts:94-98`.
11. `extendBudget` on an older run readies a task that is done: unlike a retry it does
    not ask for the latest run (`budget-control.ts:70`).
12. A manual dispatch can be sent to the worktree that a spawn still goes for
    (`specs/current/agent-first-factory-readiness/P20-WORKTREE-CONCURRENCY-LOCKS.md:18`).
    The same holds of an agent whose kill failed, when an operator readies the task, and of
    one whose cleanup failed, which is only logged before the start-up reconcile resumes in
    its worktree; these two are in `RunControl`, as agents that are `Abandoned`.
13. A re-shipped run that already has a pull request gets watchers for a commit that is
    not pushed yet: the stage change spawns them (`watcher-manager.ts:164`) before
    `onReadyToShip` pushes.  The CI watcher then reads the old head, moves the run back
    to it and latches the verdict of the old checks (`ci-watcher.ts:79`); the review
    watcher finds its commit stale and ends, and since the run has the commit of the
    active watchers again after the push, none are started and the review stays
    `pending` (`specs/impl-001/spec.md`: "Old watchers cannot resolve new latches
    (commit SHA mismatch)").
14. A watcher's late answer marks its cancelled child row done (`watchers/base.ts:84`),
    and a row that was settled by a verdict carries no shutdown reason: both count as
    newer runs of the task for a retry or a redirect of the parent
    (`operator-run-guards.ts:22`), against the comment at `watcher-manager.ts:246`
    ("Real watcher children that actually polled still match this shape").
15. A crash ends the watchers, and nothing starts them again: the run waits for
    verdicts that nobody fetches until an operator links, resets or ships it anew.
16. `guardStalePrHeadApproval` has no opinion when the head cannot be read
    (`approval-pr-head-guard.ts:33`): such an approval goes on with the commit on the row;
    `MergedIsVetted` asks for a review of it only if the guard judged.
17. A fix whose verification failed leaves its task active while the next fix is
    dispatched, and an unfinished fix of the lineage counts as work to come whether it is
    older or younger than the run (`workflow-owned-run.ts:23`).  When the routing of the
    next fix or of its review throws or crashes, neither the start-up reconcile nor the
    stale-slot check closes that run, although `post-completion-router-route-impl.ts:30`
    has it that the router must "never ghost the run as a live Active Attempt".

## Proofs

All theorems hold for every value of the constants that the named assumptions of the
modules allow, whatever the bounds.

`AttemptLease_proofs`:

| theorem | states |
|---|---|
| `TypeCorrect` | the type invariant |
| `HolderUnique` | `SoleHolder`, with any number of processes at once |
| `NoEarlyTakeover` | `TakeoverAfterExpiry`, with any number of processes at once |
| `WritesFenced` | `FencedWrites`, if `SingleProcess` |
| `SessionsOwned` | `SessionOfHolder`, if `SingleProcess` |
| `Refinement` | the lease implements `FencedRegister`, if `SingleProcess` |

They rest on `NoOwnerAssumption`, `TtlAssumption` and `BoundsAssumption`.  The
inductive invariant `IInv` has four parts.  `SoleHolder` is not inductive: that a
token in memory equals the row's says nothing of its owner unless tokens are never
reused, which is `TokensFresh` (no token exceeds the sequence, no two runs share
one), and unless a grant is remembered by its owner, which is `GrantedToHolder`.
The writes need `CheckStillValid`: between check and write, the only process that is
up still has the lease it checked.  Each part has a lemma for its step (`TypeStep`,
`TokenStep`, `HolderStep`, `CheckStep`), with one case per action.  The premise
`SingleProcess` cannot be dropped: with two processes a takeover between check and
write is a counterexample, which TLC finds at once.

`RunControl_proofs` and `RunControlTrees_proofs`, from `RetriesAssumption` and
`BoundsAssumption`:

| theorem | states |
|---|---|
| `TypeCorrect` | the type invariant |
| `AttemptsArePaid` | `AttemptsPaid` |
| `PauseIsKept` | `PauseHolds` |
| `WorktreesAreExclusive` | `WorktreeExclusive` |
| `LatestWorkIsResumed` | `ResumesLatestWork` |

- `AttemptsArePaid` is not inductive by itself: a task that is ready has an attempt
  to come.  The potential `Unspent` counts it and the retries that are left, and
  `Paid` says that attempts and potential together stay within the allowance; every
  step that adds an attempt spends one, every failure spends a retry first.
- `PauseIsKept` rests on `Quiet`: one run of the task is live at a time; until the
  start-up reconcile has been through, nothing else is (`BootAlone`); and a pause in
  force leaves no ready task, no run to reconcile and no live run (`HeldStill`), so
  that there is nothing left to dispatch from.
- The worktree theorems rest on `TreeInv` beside `Quiet`.  Of the runs that share a
  worktree, one at most has a checkpoint (`OneCheckpoint`), works (`SessionAlone`) or is
  being started (`SpawnAlone`); a spawn leaves the checkpoint to the run it continues
  until its session is recorded (`SpawnFrom`), which is what keeps a cycle from taking
  that checkpoint again: a cycle reads the checkpoints of stalled runs, awaits its own
  spawns, and a failover continues a run that is frozen; a run that stalls has no session
  any more before a cycle comes (`StalledIdle`); and whoever has the checkpoint was the
  last to work in the worktree (`LatestWork`).  A kill that fails leaves an agent that none
  of this speaks of: `StrayAlone` says that it has the worktree to itself while its run is
  live or not yet `waived`.  That rests on `WorkInv`: as long as an agent that nobody has
  gone past works, its run is the latest and the task is not ready (`AgentsLast`), a live run
  is the latest (`LiveLast`), and agents without a session are of runs that exist and are
  not being started (`Strays`).  Most steps move none of this: they are
  `Calm`, and `CalmTrees` does them all at once; `DispatchTrees`, `SpawnTrees` and
  `StageTrees` are the three that do.

`Dispatcher_proofs`, from the assumptions of `Dispatcher`:

| theorem | states | if |
|---|---|---|
| `TypeCorrect` | the type invariant | |
| `RetriesArePaid` | `RetriesPaidByRuns` | |
| `CompletionsRouteOnce` | `NoSecondPipeline` | |
| `OneAttemptPerTask` | `OneLiveRunPerTask` | the cycle is the only one to dispatch, or there are no fix and review tasks |
| `SlotsAreRespected` | `SlotsRespected` | the cycle is the only one to dispatch |
| `AgentsAreExclusive` | `AgentExclusive` | the cycle is the only one to dispatch |

Every turn is one of two kinds.  Most are `Harmless`: they bring nothing to life, charge
a retry only with the run that they end, and leave the plan of the cycle as it is or
shorter.  The others create, start or plan, and are taken one by one.  The invariant
`Kept` says that runs are numbered as they come and that the sets in memory speak of
runs that exist (`Numbered`, `Known`), and that a handled end is not handled again, on
which `CompletionsRouteOnce` rests.  `Tasked` says that what the cycle read as ready
still has no live run although it has awaited since; `Slotted`, that the one spawn under
way is the one the cycle awaits, in a slot it counted.  Both need `SoleDispatcher`: with
manual dispatches the first fails (item 4 above), and a manual dispatch asks for no
slot.

`Watchers_proofs`, from the assumptions of `Watchers`, with no further hypothesis:

| theorem | states |
|---|---|
| `TypeCorrect` | the type invariant |
| `ApprovalIsQuiet` | `ApprovalHasNoWatchers` |
| `MergesAreVetted` | `MergedIsVetted` |

The synchronous calls are operators on states, so that each has a lemma of its own
(`SpawnKeeps`, `SyncKeeps`, `ResetKeeps`, `ResolvedKeeps`): what it is given in order, it
leaves in order.  The actions compose these.  `Vetting` is the heart: between the guard
and the merge, the review of the commit that will be merged is on record, or that of a
head no older than it, and a merge is of the head; between the gate and the merge, the
checks that the gate required have passed (`Meets`, by `GateMeets`), and a check that has
passed stays so.  `Called` keeps the verdicts of the run while the approval awaits GitHub,
and `Quiet` is what makes `Vetting` stable: a run that awaits its approval has no watchers
that could latch another commit.

`Approval_proofs`, from the assumptions of `Approval`:

| theorem | states | if |
|---|---|---|
| `TypeCorrect` | the type invariant | |
| `DeletedHasLanded` | `NoWorkLost` | `Chain` and `RollbackAlone` |
| `DoneHasLanded` | `DoneMeansLanded` | `Chain` and `RollbackAlone` |
| `VerdictsSettle` | `VerdictsAgree` | `Chain` and `ApprovesOverlap` |
| `LandsAtOnce` | `ImplementsLanding`: the approvals implement `Landing` | `Chain` and `RollbackAlone` |

- `Chain`: the runs of a lineage follow one another, none has two follow-ups.  The runs
  of `Approval` are the ones that commit, the implementation and its fixes, and
  `WorkIsOneLine` of `PostCompletion_proofs` says that they follow one another in this
  way; a review, which has the same parent as the fix after it, commits nothing.  With
  two follow-ups of one run, an approval of one and the other's session
  share a branch, and TLC finds both `NoWorkLost` and `DoneMeansLanded` violated.
- `RollbackAlone`: no push, or unattended approvals run alone.  An unattended approval
  that resets the base branch after a failed push takes the merges of its neighbours
  with it, which TLC finds as well.
- `ApprovesOverlap`: only attended approvals run beside one another; a reconcile next to
  a merge judges by old rows, and with all kinds overlapping TLC finds `VerdictsAgree`
  violated.

The first lemmas are about the parents: the runs above a run are the least set that has it
and the parents of its runs, so that facts about chains follow without induction over data
(a set of runs has a first and a last, by the well-foundedness of the naturals). Then,
runs only fall (`Falls`): none is opened, or put to work, again.  A call is cleared only
with its lineage at rest (`CallOK`), so it stays at rest; therefore whatever the base
branch has of a lineage is all of it (`SoundOn`), a foreign piece of work comes into a
branch only from the base branch, and a commit on a row names its own lineage (`RowOK`),
which is why a reconcile that finds it on the base branch is right.  The same is kept of
the head that a rollback may go back to (`Guarded`).  `Agreed` adds what needs the absence
of crashes and failed resets: work on the base branch has its lineage closed, or a call on
the way to close it (`OnBase`), and what was read by a pass is closed as well (`Scanned`).

`DoneMeansLanded` is part of what `Landing` promises, so no run checks it by itself; its
theorem stays, as the simulation rests on the same invariant.

`LandsAtOnce` is the step simulation under `Kept`, the invariant of `DoneHasLanded`, and
one more, `HeadRead`: the head that a call read before its merge is the base branch but
for that call's own lineage, since nobody merges beside what may roll back.  So a merge
changes what has landed of one lineage, all or nothing (`AllOrNothing`), and the
rollback takes back that lineage and no other, whose first run is not done because its
work would be gone (`SoundOn` after the step).  Each kind of step has a lemma of its own:
`WorkCommits`, `MergeLands`, `RollbackUnlands`, `RunsPromise`, `CallsPromise`,
`FinalizePromise` and `ScanPromise`; the last two show that a call or a reconcile makes at
most one first run done, and that it has landed.

`TaskDag_proofs`, from the assumptions of `TaskDag`:

| theorem | states | if |
|---|---|---|
| `TypeCorrect` | the type invariant | |
| `RetriesReopen` | `QueuedRetryReopens` | |
| `EvaluationEnds` | `EvaluationReturns` | `AcyclicImports` and as many sweeps as tasks |
| `NobodyIsForgotten` | `NobodyForgotten` | the same |
| `ResultIsUnique` | `OrderIrrelevant` | the same |

- `AcyclicImports`: what a spec is imported with has no cycle of dependencies.  An import
  does not look (item 7 above), and on a cycle the evaluation loops for ever; additions
  look, and `ValidIsAcyclic` and `AcyclicIsValid` say that `validateDAG` finds the cycles
  and nothing else, so that no legal call makes one later (`Leaves`).
- As many sweeps as tasks: the code's loop has no bound; `MaxSweeps` stands for it, and
  `LoopSettles` says that it needs no more.  The tasks that nothing changes any more, with
  all they depend on (`Steady`), grow by one with every sweep: there is always a task left
  whose dependencies are all among them, a sweep visits it, and a second visit finds nothing
  to change (`VisitAgain`).
- `NobodyIsForgotten`: every handler ends in an evaluation, which leaves nobody behind
  (`EvaluationSettles`), or writes without one and forgets nobody (`Quiets`).  A refused
  dependency is taken off the task again, with a dependency of that name that was there
  before; that this takes none away needs `AcyclicIsValid`.
- `ResultIsUnique`: only an idle task moves, it is left where its dependencies put it, and
  those have come to rest (`Told`); this needs that no failed task is about to come back, the
  premise of `OrderIrrelevant`.  Two results that differ would differ at a task whose
  dependencies agree, which puts it in the same place in both (`OneResult`).

The sweeps and the loop are recursive functions.  What holds along them is proved by the
least number of steps after which it does not, as the naturals are well-founded
(`SweepAlong`, `LoopAlong`): the library's induction theorems cannot be instantiated here.

`PostCompletion_proofs`, from `LineageBoundsAssumption`:

| theorem | states | until an operator retries a run |
|---|---|---|
| `TypeCorrect` | the type invariant | |
| `WorktreesExclusive` | `OneSessionPerTree` | |
| `RoundsAreBounded` | `RoundsBounded` | |
| `WorkIsOneLine` | no two of the implementation and its fixes have one parent | |
| `StepsFollowOneAnother` | `OneFollowUp` | x |
| `MergesAreQuiet` | `QuietMerge` | x |
| `MergesAreCleared` | `MergedCleared` | x |

The exemption is part of the three properties: TLC finds each of them violated when a
retry readies a task beside what is under way.  Crashes, cancels, rejections, approvals,
throws (also of the workflow, with the root reopened) and late calls are all included.

- `Inv` is `TypeOK`, `Rows` (runs and tasks are numbered as they come, and linked to the
  run they are about), `Memory` (sessions and calls are of runs that exist), `Heads` and
  `OneSessionPerTree`.  All steps but a dispatch and a completion leave the rows'
  identities alone, which `Kept` says; `Step`, `Turn` and `OperatorTurn` do them at once.
  The rounds are counted along the parent chain, whose facts are proved by the least
  place where they fail, without induction over data.
- `Orderly` is what holds until a retry, and is inductive together with `Inv`.
  `OneToken`: one run of the lineage is active (at work or being routed), or one task is
  ready, or the start-up reconcile decides, never two of these.  `Lives` and `Shape`: what
  is live is the last run of its task, and the parents, in the order of the runs, are the
  ones that the chain of `completeSuccessfulFixChain` needs to close.  `OneReview`: while a
  review is live nothing else is active.  `Calls`: what a suspended call has read is still
  so, or no longer matters.  `Still`: while an approval is open or its merge is under way,
  nobody works, nothing is ready and no suspended call is of a kind that could change it.
  `BootDead` and `MergeBoot` say the same of the runs that the start-up reconcile has still
  to look at.  `Commits`: a review is about the commit that its worktree is at, and what is
  offered for approval is a commit that has been cleared.
- Most steps are of a few kinds, each with a lemma about `Orderly`: a step that makes
  nobody active and nothing ready (`Moves`), one that ends a run (`Subsides`), one after
  which a task is ready and nobody active (`Readies`), one that hands the lineage from a
  run to a new task (`HandsOver`), and one that offers a run for approval (`Offers`).
  The lemmas about the actions show which kind each of their outcomes is; `Joins` and
  `DispatchOrderly` do a dispatch, `CompleteOrderly` a completion.  `RetriesTold` and
  `RetriesAreTold` carry the exemption: a retry that is under way has been asked for.

Only model-checked: liveness under fairness (`CompletionsHandled` and the liveness
properties of the other modules) and `ENABLED`, which are out of the prover's reach; and
`StaleNeverMerges`, which fails.

## Not modelled, and why

- Left out of the modelled parts: the manual dispatch of a task beside resumes
  (`RunControl`); resource limits of the host (`Dispatcher`); deletion of tasks,
  dependencies between specs, other changes of a spec's status (`TaskDag`); the adoption
  of a pull request by an operator and comments on issues (`Watchers`); the recovery of a
  stalled approval, the fix tasks of a failed approve-with-rebase, pushes that time out
  after they landed (`Approval`); `repair.ts` and the dispatch of repair work; stages of a
  run, which the workflow runtime drives.
- Agent health and quarantine: a table of failures in memory and pure functions; the
  models leave their verdict open.
- Enforcement, but for the synchronisation and the reset of a run: tool policy over an
  external workflow runtime.
- Coalescing of cycles in `dispatch-queue.ts`: `Dispatcher` has one cycle in flight and
  a next one at any time, which covers every order of kicks.
- Worktrees, sandboxes, harness adapters, GitHub, Telegram, webhooks: I/O whose
  answers the models leave open.
- Secrets, redaction, costs, scoring, configuration, analytics, audit, dashboard,
  CLI, MCP, landing page: data and presentation; no protocol between components.  They
  are most of the repository's lines, which is why the share of lines that the models
  stand for is small.
- Storage: SQLite calls are synchronous, so that a statement or a transaction is
  part of the action that issues it.

## Plan

Done: the lease, the dispatcher, the control of attempts, approvals and merges, watchers
and pull requests, the task DAG and the post-completion router, each checked and, for
every safety property of the runs that hold, proved.  Next, in order:

1. The manual dispatch in `RunControl`, with the worktree reservation that would make
   `WorktreeExclusive` hold beside it, and the search for a surviving agent that would make
   it hold without `Abandoned`.
2. The recovery of stalled approvals in `Approval`, adopted pull requests in `Watchers`.
3. Deletion and spec dependencies in `TaskDag`, and its liveness.
4. The enforcement gates with their transactions.
5. Theorems: the properties of the attempts in `RunControl` without the assumption that
   there is no manual dispatch, once it is modelled.
