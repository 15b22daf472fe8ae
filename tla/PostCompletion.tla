---------------------------- MODULE PostCompletion ----------------------------
(***************************************************************************)
(* What follows a completed run: one implementation task and its lineage of *)
(* reviews and fixes, up to the operator's approval and the merge.           *)
(*                                                                          *)
(* An action is what runs between two awaits.  A suspended router call keeps *)
(* the rows it read before (call), as the code does, and writes by them.     *)
(* Rows of runs and tasks survive a crash; sessions and calls do not.        *)
(*                                                                          *)
(* A dispatch, with its spawn, is one step here (Dispatcher has its awaits), *)
(* the commands run in the worktree are outcomes, and a commit is named by   *)
(* the run that made it.                                                     *)
(***************************************************************************)
EXTENDS Naturals, Sequences, FiniteSets

CONSTANTS MaxFix,          \* maxFixIterations
          MaxTaskRetries,
          Reviewer,        \* whether a reviewer agent can be resolved: the answers that may come
          Operator,        \* operator calls in play
          MaxTasks, MaxRuns,   \* bounds on the tasks and the runs ever created
          MaxUpsets            \* bound on crashes, cancels, rejections and retries

ASSUME LineageBoundsAssumption ==
  /\ MaxFix \in Nat \ {0} /\ MaxTaskRetries \in Nat /\ Reviewer \subseteq BOOLEAN
  /\ MaxTasks \in Nat \ {0} /\ MaxRuns \in Nat \ {0} /\ MaxUpsets \in Nat
ASSUME CallsAssumption == Operator \subseteq {"cancel", "retry", "approve", "reject"}

Run == 1 .. MaxRuns
Task == 1 .. MaxTasks
Root == 1                  \* the implementation task; the others are created by the router

VARIABLES run,       \* rows of runs
          task,      \* rows of tasks
          session,   \* activeSessions
          call,      \* suspended handleSessionEnd() or routeStoredCompletion(), from its release on
          acall,     \* suspended approveRun()
          retrying,  \* suspended retries
          boot,      \* runs the start-up reconcile has still to look at
          head,      \* the commit a worktree is at
          cleared,   \* commits that a review has passed, or that nobody was there to review
          merged,    \* commits on the base branch
          upsets     \* crashes and operator interventions so far, in order

vars == <<run, task, session, call, acall, retrying, boot, head, cleared, merged, upsets>>

Ended == {"failed", "stalled", "cancelled", "quarantined"}
Verdicts == {"pass", "block", "malformed"}
NoRun == [stage |-> "absent", term |-> "none", task |-> Root, par |-> 0, tree |-> 0,
          approval |-> FALSE, complete |-> FALSE, says |-> "none", again |-> FALSE]
NoTask == [kind |-> "none", round |-> 0, st |-> "none", retries |-> 0, ver |-> 0]
Idle == [pc |-> "none", live |-> FALSE, tst |-> "none",
         par |-> 0, root |-> 0, rstage |-> "none", rterm |-> "none", ost |-> "none"]

TypeOK ==
  /\ run \in [Run -> [stage : {"absent", "work", "ship", "done"}, term : Ended \cup {"none"},
                      task : Task,
                      par : Run \cup {0},      \* parentRunId
                      tree : Run \cup {0},     \* the run whose worktree it works in
                      approval : BOOLEAN,      \* pendingApproval
                      complete : BOOLEAN,      \* a durable completion signal
                      says : Verdicts \cup {"none"},
                      again : BOOLEAN]]        \* verifyRetries is not 0
  /\ task \in [Task -> [kind : {"none", "impl", "review", "fix"}, round : Nat,
                        st : {"none", "ready", "active", "failed", "done"},
                        retries : Nat,
                        ver : Run \cup {0}]]   \* the commit a review is asked about
  /\ session \subseteq Run /\ boot \subseteq Run /\ retrying \subseteq Run
  /\ call \in [Run -> [pc : {"none", "release", "verify", "again", "review", "sync", "ship",
                             "unreviewed", "unreviewedShip"},
                       live : BOOLEAN,         \* the run's row, as read: not done
                       tst : {"none", "ready", "active", "failed", "done"},   \* its task's row
                       par : Run \cup {0}, root : Run \cup {0},
                       rstage : {"none", "work", "ship", "done"},
                       rterm : Ended \cup {"none"},
                       ost : {"none", "ready", "active", "failed", "done"}]]
  /\ acall \in [Run -> {"none", "merge", "finalize"}]
  /\ head \in [Run -> Run \cup {0}]
  /\ cleared \subseteq Run /\ merged \subseteq Run
  /\ upsets \in Seq({"crash", "cancel", "reject", "retry"})

Init ==
  /\ run = [i \in Run |-> NoRun]
  /\ task = [t \in Task |-> IF t = Root THEN [NoTask EXCEPT !.kind = "impl", !.st = "ready"] ELSE NoTask]
  /\ session = {} /\ retrying = {} /\ boot = {} /\ cleared = {} /\ merged = {}
  /\ call = [i \in Run |-> Idle]
  /\ acall = [i \in Run |-> "none"]
  /\ head = [i \in Run |-> 0]
  /\ upsets = <<>>

--------------------------------------------------------------------------------
(* Rows.                                                                      *)

Created == {i \in Run : run[i].stage # "absent"}
Open(row) == row.stage \in {"work", "ship"} /\ row.term = "none"
Live(i) == Open(run[i])
RunsOf(t) == {i \in Created : run[i].task = t}
Latest(S) == CHOOSE i \in S : \A j \in S : j <= i
Kind(i) == task[run[i].task].kind
Free == call = [i \in Run |-> Idle]

Failed(row) == [row EXCEPT !.term = "failed", !.approval = FALSE]
Stalled(row) == [row EXCEPT !.term = "stalled"]
Cancelled(row) == [row EXCEPT !.term = "cancelled", !.approval = FALSE]
\* markDone asks for nothing: it clears a terminal state.
Done(row) == [row EXCEPT !.stage = "done", !.term = "none", !.approval = FALSE]
TaskTo(t, st) == [task EXCEPT ![t].st = st]

\* The parent chain of a run, the run included; parents are older.
Chain(i) == LET up[n \in 0 .. MaxRuns] ==
                  IF n = 0 THEN {i} ELSE up[n - 1] \cup ({run[j].par : j \in up[n - 1]} \ {0})
            IN  up[MaxRuns]
RootOf(i) == CHOOSE j \in Chain(i) : \A k \in Chain(i) : j <= k
FixRuns(i) == Cardinality({j \in Chain(i) : Kind(j) = "fix"})
Descendants(i) == {j \in Created : i \in Chain(j)} \ {i}

\* The run a review or a fix is about: the newest of the implementation and its fixes.
MostRecent == LET S == {i \in Created : Kind(i) \in {"impl", "fix"}} IN IF S = {} THEN 0 ELSE Latest(S)

Shipped(i) == LET r == RootOf(i) IN run[r].term = "none" /\ run[r].stage = "done" /\ task[run[r].task].st = "done"

\* A live run that waits for its lineage or for an approval is left alone by every recovery.
Owned(i) ==
  \/ run[i].stage = "ship" /\ run[i].approval
  \/ \E t \in Task \ {run[i].task} : task[t].kind \in {"review", "fix"} /\ task[t].st # "done"

\* DAG.onRunComplete: the task follows the latest of its runs, if that one has ended.
Settled(R, S) ==
  [t \in Task |->
     LET latest == Latest(RunsOf(t))
     IN IF \A i \in S : run[i].task # t \/ Open(R[latest]) THEN task[t]
        ELSE [task[t] EXCEPT !.st = IF R[latest].stage = "done" /\ R[latest].term = "none"
                                    THEN "done" ELSE "failed"]]

FreshRun == Cardinality(Created) + 1
FreshTask == Cardinality({t \in Task : task[t].kind # "none"}) + 1
Room == FreshTask \in Task
Added(T, kind, round, ver) ==
  [T EXCEPT ![FreshTask] = [kind |-> kind, round |-> round, st |-> "ready", retries |-> 0, ver |-> ver]]
Return(i) == call' = [call EXCEPT ![i] = Idle]
Wait(i, pc) == call' = [call EXCEPT ![i].pc = pc]
git == <<head, cleared, merged>>
calls == <<acall, retrying>>

\* completeLineageTask, by the rows the call has read.
Completed(R, i) == IF call[i].live THEN [R EXCEPT ![i] = Done(@)] ELSE R
CompletedTask(T, i) == IF call[i].tst = "done" THEN T ELSE [T EXCEPT ![run[i].task].st = "done"]

--------------------------------------------------------------------------------
(* Attempts.                                                                  *)

\* Mutant: a review or a fix joins a worktree at work.
DispatchContested(t) ==
  /\ boot = {} /\ FreshRun \in Run
  /\ task[t].st = "ready" /\ \A i \in RunsOf(t) : ~Live(i)
  /\ LET par == IF task[t].kind = "impl" THEN 0 ELSE MostRecent
     IN run' = [run EXCEPT ![FreshRun] =
                  [NoRun EXCEPT !.stage = "work", !.task = t, !.par = par,
                                !.tree = IF par = 0 THEN FreshRun ELSE run[par].tree]]
  /\ task' = TaskTo(t, "active")
  /\ session' = session \cup {FreshRun}
  /\ UNCHANGED <<call, calls, boot, git, upsets>>

\* A review or a fix continues in the worktree of its lineage, when no session works there.
Dispatch(t) ==
  /\ boot = {} /\ FreshRun \in Run
  /\ task[t].st = "ready"
  /\ IF task[t].kind = "impl" THEN \A i \in RunsOf(t) : ~Live(i) ELSE session = {}
  /\ LET par == IF task[t].kind = "impl" THEN 0 ELSE MostRecent
     IN run' = [run EXCEPT ![FreshRun] =
                  [NoRun EXCEPT !.stage = "work", !.task = t, !.par = par,
                                !.tree = IF par = 0 THEN FreshRun ELSE run[par].tree]]
  /\ task' = TaskTo(t, "active")
  /\ session' = session \cup {FreshRun}
  /\ UNCHANGED <<call, calls, boot, git, upsets>>

\* The agent completes; its session ends and the row is read.
Complete(i) ==
  /\ i \in session /\ call[i].pc = "none"
  /\ \E v \in IF Kind(i) = "review" THEN Verdicts ELSE {"none"} :
       run' = [run EXCEPT ![i].complete = TRUE, ![i].says = v]
  /\ head' = IF Kind(i) = "review" THEN head ELSE [head EXCEPT ![run[i].tree] = i]
  /\ call' = [call EXCEPT ![i] = IF run[i].term = "none"
                                 THEN [Idle EXCEPT !.pc = "release", !.live = run[i].stage # "done"] ELSE Idle]
  /\ session' = IF run[i].term = "none" THEN session ELSE session \ {i}
  /\ UNCHANGED <<task, calls, boot, cleared, merged, upsets>>

\* retryOrFailStalledTask after a crash: ready again, or the budget is spent.
RetryOrFail(i) ==
  LET t == run[i].task
  IN IF task[t].retries < MaxTaskRetries
     THEN /\ task' = [task EXCEPT ![t].retries = @ + 1, ![t].st = "ready"]
          /\ run' = [run EXCEPT ![i] = Stalled(@)]
     ELSE \/ /\ task' = [task EXCEPT ![t].retries = @ + 1, ![t].st = "failed"]
             /\ run' = [run EXCEPT ![i] = Stalled(@)]
          \/ /\ task' = [task EXCEPT ![t].retries = @ + 1]
             /\ run' = [run EXCEPT ![i].term = "quarantined"]

\* The session ends without a completion: crashed, or failed by its harness.
Die(i) ==
  /\ i \in session /\ call[i].pc = "none"
  /\ session' = session \ {i}
  /\ IF Live(i) THEN RetryOrFail(i) \/ (run' = [run EXCEPT ![i] = Failed(@)] /\ UNCHANGED task)
     ELSE UNCHANGED <<run, task>>
  /\ UNCHANGED <<call, calls, boot, git, upsets>>

\* Mutant: only runs that have not completed are looked at.
StaleSlotUncompleted(i) ==
  /\ Live(i) /\ ~Owned(i) /\ boot = {} /\ ~run[i].complete
  /\ i \notin session /\ call[i].pc = "none"
  /\ run' = [run EXCEPT ![i] = Stalled(@)]
  /\ task' = TaskTo(run[i].task, "failed")
  /\ UNCHANGED <<session, call, calls, boot, git, upsets>>

\* closeStaleSlots: a live run without a session whose heartbeat is old.
StaleSlot(i) ==
  /\ Live(i) /\ ~Owned(i) /\ boot = {}
  /\ i \notin session /\ call[i].pc = "none"
  /\ run' = [run EXCEPT ![i] = Stalled(@)]
  /\ task' = TaskTo(run[i].task, "failed")
  /\ UNCHANGED <<session, call, calls, boot, git, upsets>>

Upset(what) == Len(upsets) < MaxUpsets /\ upsets' = Append(upsets, what)

Crash ==
  /\ Upset("crash")
  /\ session' = {} /\ retrying' = {}
  /\ call' = [i \in Run |-> Idle]
  /\ acall' = [i \in Run |-> "none"]
  /\ boot' = {i \in Run : Live(i)}
  /\ UNCHANGED <<run, task, git>>

\* Start-up: runs in the order of their creation; a stored completion is routed again.
Reconcile(i) ==
  /\ i \in boot /\ \A j \in boot : i <= j
  /\ Free
  /\ boot' = boot \ {i}
  /\ \/ /\ Owned(i) \/ ~Live(i)
        /\ UNCHANGED <<run, call>>
     \/ /\ Live(i) /\ ~Owned(i) /\ run[i].complete
        /\ call' = [call EXCEPT ![i] = [Idle EXCEPT !.pc = "release", !.live = TRUE]]
        /\ UNCHANGED run
     \/ /\ Live(i) /\ ~Owned(i) /\ ~run[i].complete
        \* stalled, unless its lease has not expired yet
        /\ \/ run' = [run EXCEPT ![i] = Stalled(@)]
           \/ UNCHANGED run
        /\ UNCHANGED call
  /\ UNCHANGED <<task, session, calls, git, upsets>>

--------------------------------------------------------------------------------
(* The router.                                                                *)

\* Escalation: what is live in the lineage fails, unless a session works on it.
LineageClosed(R, i, row) ==
  [j \in Run |-> IF ~Open(R[j]) THEN R[j]
                 ELSE IF j = i THEN row
                 ELSE IF j \in session THEN R[j] ELSE Failed(R[j])]
TasksClosed(R) ==
  [t \in Task |->
     IF task[t].kind = "none" \/ RunsOf(t) \cap session # {} THEN task[t]
     ELSE IF RunsOf(t) = {} THEN [task[t] EXCEPT !.st = IF @ = "done" THEN "done" ELSE "failed"]
     ELSE IF \E j \in RunsOf(t) : R[j].stage = "done" THEN [task[t] EXCEPT !.st = "done"]
     ELSE IF \A j \in RunsOf(t) : R[j].term = "failed" THEN [task[t] EXCEPT !.st = "failed"]
     ELSE task[t]]
EscalateLineage(R, i, row) ==
  LET closed == LineageClosed(R, i, row)
  IN  run' = closed /\ task' = TasksClosed(closed)

\* Mutant: one fix too many.
dispatchVerificationFixOnceMore(i) ==
  IF FixRuns(i) > MaxFix
  THEN EscalateLineage(run, i, Failed(run[i]))
  ELSE /\ Room
       /\ task' = Added(task, "fix", FixRuns(i) + 1, 0)
       /\ UNCHANGED run

dispatchVerificationFix(i) ==
  IF FixRuns(i) >= MaxFix
  THEN EscalateLineage([run EXCEPT ![RootOf(i)] = IF @.term = "none" THEN Failed(@) ELSE @], i, Failed(run[i]))
  ELSE /\ Room
       /\ task' = Added(task, "fix", FixRuns(i) + 1, 0)
       /\ UNCHANGED run

failReviewTask(i) ==
  /\ run' = [run EXCEPT ![i] = Failed(@)]
  /\ task' = TaskTo(run[i].task, "failed")
retryMalformedReviewTask(i) ==
  /\ run' = [run EXCEPT ![i] = Failed(@)]
  /\ task' = [task EXCEPT ![run[i].task].st = "ready", ![run[i].task].retries = @ + 1]

\* A stale review or fix of a shipped lineage is closed.
CloseStale(i) ==
  IF Kind(i) = "impl" THEN UNCHANGED <<run, task>>
  ELSE /\ run' = IF call[i].live THEN [run EXCEPT ![i] = Done(@)] ELSE run
       /\ task' = TaskTo(run[i].task, "done")

\* A verdict goes to approval, to another fix, or ends the lineage; nothing is awaited before.
Verdict(i, par) ==
  LET t == run[i].task
      r == RootOf(par)
      c == [call[i] EXCEPT !.pc = "sync", !.tst = task[t].st, !.par = par, !.root = r,
                           !.rstage = run[r].stage, !.rterm = run[r].term, !.ost = task[Root].st]
      blocked == run[i].says = "block"
  IN \/ /\ run[i].says = "malformed"
        /\ IF task[t].retries = 0 THEN retryMalformedReviewTask(i) ELSE failReviewTask(i)
        /\ Return(i) /\ UNCHANGED cleared
     \/ /\ run[i].says = "pass"
        /\ cleared' = cleared \cup {task[t].ver}
        /\ call' = [call EXCEPT ![i] = c] /\ UNCHANGED <<run, task>>
     \/ /\ blocked /\ FixRuns(par) >= MaxFix
        /\ EscalateLineage(IF c.rterm = "none" THEN [run EXCEPT ![r] = Failed(@)] ELSE run, i, Done(run[i]))
        /\ Return(i) /\ UNCHANGED cleared
     \/ /\ blocked /\ FixRuns(par) < MaxFix /\ Room
        /\ task' = [Added(task, "fix", FixRuns(par) + 1, 0) EXCEPT ![t].st = "done"]
        /\ run' = Completed(run, i)
        /\ Return(i) /\ UNCHANGED cleared

\* The release of the session is back; the row read before it decides.
Route(i) ==
  /\ call[i].pc = "release"
  /\ session' = session \ {i}
  /\ \/ Shipped(i) /\ CloseStale(i) /\ Return(i) /\ UNCHANGED cleared
     \/ /\ ~Shipped(i) /\ Kind(i) # "review"
        /\ call' = [call EXCEPT ![i].pc = "verify", ![i].tst = task[run[i].task].st]
        /\ UNCHANGED <<run, task, cleared>>
     \/ ~Shipped(i) /\ Kind(i) = "review" /\ Verdict(i, run[i].par)
  /\ UNCHANGED <<calls, boot, head, merged, upsets>>

\* Who reviews is looked up when the review is due.
Verified(i) == \E found \in Reviewer : Wait(i, IF found THEN "review" ELSE "unreviewed")

LastVerify(i) == Kind(i) = "fix" /\ task[run[i].task].round >= MaxFix /\ ~run[i].again

\* Mutant: a failed verification dispatches its fix, and then the review all the same.
VerifyFallsThrough(i) ==
  /\ call[i].pc = "verify"
  /\ \/ UNCHANGED <<run, task>>
     \/ ~LastVerify(i) /\ dispatchVerificationFix(i)
  /\ Verified(i)
  /\ UNCHANGED <<session, calls, boot, git, upsets>>

\* The worktree of an implementation or a fix is cleaned, rebased and verified.
Verify(i) ==
  /\ call[i].pc = "verify"
  /\ \/ Verified(i) /\ UNCHANGED <<run, task>>
     \/ ~LastVerify(i) /\ dispatchVerificationFix(i) /\ Return(i)
     \* in its last round a fix is verified once more
     \/ /\ LastVerify(i)
        /\ run' = [run EXCEPT ![i].again = TRUE]
        /\ Wait(i, "again") /\ UNCHANGED task
     \* changes that cannot be committed, or a diff of nothing
     \/ run' = [run EXCEPT ![i] = Failed(@)] /\ Return(i) /\ UNCHANGED task
     \* dispatchRebaseFix does not look at the rounds
     \/ /\ Kind(i) = "impl" /\ Room
        /\ task' = Added(task, "fix", FixRuns(i) + 1, 0)
        /\ Return(i) /\ UNCHANGED run
  /\ UNCHANGED <<session, calls, boot, git, upsets>>

retryFinalFixVerify(i) ==
  /\ call[i].pc = "again"
  /\ \/ Verified(i) /\ UNCHANGED <<run, task>>
     \/ dispatchVerificationFix(i) /\ Return(i)
     \/ run' = [run EXCEPT ![i] = Failed(@)] /\ Return(i) /\ UNCHANGED task
  /\ UNCHANGED <<session, calls, boot, git, upsets>>

\* Mutant: the review is about the commit of the implementation.
dispatchReviewOfParent(i) ==
  /\ call[i].pc = "review" /\ Room
  /\ LET T == Added(task, "review", task[run[i].task].round + 1, run[i].tree)
     IN task' = IF Kind(i) = "fix" THEN CompletedTask(T, i) ELSE T
  /\ run' = Completed(run, i)
  /\ Return(i)
  /\ UNCHANGED <<session, calls, boot, git, upsets>>

\* Mutant: the run is offered for approval as its review is dispatched.
dispatchReviewAndShip(i) ==
  /\ call[i].pc = "review" /\ Room
  /\ LET T == Added(task, "review", task[run[i].task].round + 1, head[run[i].tree])
     IN task' = IF Kind(i) = "fix" THEN CompletedTask(T, i) ELSE T
  /\ run' = [run EXCEPT ![i].stage = "ship", ![i].approval = TRUE]
  /\ Return(i)
  /\ UNCHANGED <<session, calls, boot, git, upsets>>

\* The review is about the commit the worktree is at; the run is done by the row read before.
dispatchReview(i) ==
  /\ call[i].pc = "review" /\ Room
  /\ LET t == run[i].task
         T == Added(task, "review", task[t].round + 1, head[run[i].tree])
     IN task' = IF Kind(i) = "fix" THEN CompletedTask(T, i) ELSE T
  /\ run' = Completed(run, i)
  /\ Return(i)
  /\ UNCHANGED <<session, calls, boot, git, upsets>>

\* advanceToStage and syncRunState: a run that is not done, whatever its terminal state,
\* goes to ship and its approval.
\* Mutant: a stage that the rows do not know.
AdvancedUnlisted(row) == IF row.stage = "done" THEN row ELSE [row EXCEPT !.stage = "approve", !.approval = TRUE]
Advanced(row) == IF row.stage = "done" THEN row ELSE [row EXCEPT !.stage = "ship", !.approval = TRUE]

\* onReadyToShip after its first part: the GitHub artifacts are there, or fail the run.
Shippable(R, r) == {[R EXCEPT ![r] = Advanced(@)], [R EXCEPT ![r] = Failed(@)]}

\* Without a reviewer the run itself goes to approval.
AdvanceUnreviewed(i) ==
  /\ call[i].pc = "unreviewed"
  /\ run' = [run EXCEPT ![i] = Advanced(@)]
  /\ cleared' = cleared \cup {head[run[i].tree]}
  /\ Wait(i, "unreviewedShip")
  /\ UNCHANGED <<task, session, calls, boot, head, merged, upsets>>

\* A fix is closed afterwards as if a review had been dispatched.
ShipUnreviewed(i) ==
  /\ call[i].pc = "unreviewedShip"
  /\ \E R \in Shippable(run, i) :
       IF Kind(i) = "fix" THEN run' = Completed(R, i) /\ task' = CompletedTask(task, i)
       ELSE run' = R /\ UNCHANGED task
  /\ Return(i)
  /\ UNCHANGED <<session, calls, boot, git, upsets>>

\* reopenRootForSuccessfulReview, by the rows of the root and its task read before the await.
Reopened(row, c) ==
  [row EXCEPT !.term = IF c.rterm = "none" THEN @ ELSE "none",
              !.stage = IF c.rstage = "done" /\ c.ost # "done" THEN "ship" ELSE @]

\* A review has cleared: the root is opened again and goes to approval, unless its workflow
\* throws.
AdvanceReviewed(i) ==
  /\ call[i].pc = "sync"
  /\ LET R == [run EXCEPT ![call[i].root] = Reopened(@, call[i])]
     IN \/ run' = [R EXCEPT ![call[i].root] = Advanced(@)] /\ Wait(i, "ship")
        \/ run' = R /\ Return(i)
  /\ task' = IF call[i].ost = "failed" THEN TaskTo(Root, "active") ELSE task
  /\ UNCHANGED <<session, calls, boot, git, upsets>>

\* completeSuccessfulFixChain and completeReviewTask.
FixesOf(c) == {j \in Chain(c.par) \ {c.root} : j \notin session}
ShipReviewed(i) ==
  LET c == call[i]
  IN
  /\ c.pc = "ship"
  /\ \E R \in Shippable(run, c.root) :
       run' = Completed([j \in Run |-> IF j \in FixesOf(c) /\ Open(R[j]) THEN Done(R[j]) ELSE R[j]], i)
  /\ task' = CompletedTask([t \in Task |-> IF \E j \in FixesOf(c) : run[j].task = t
                                           THEN [task[t] EXCEPT !.st = "done"] ELSE task[t]], i)
  /\ Return(i)
  /\ UNCHANGED <<session, calls, boot, git, upsets>>

\* Git, the workflow or a repository throws: the call ends, its run stays as it is.
Throw(i) ==
  /\ call[i].pc \notin {"none", "release"}
  /\ Return(i)
  /\ UNCHANGED <<run, task, session, calls, boot, git, upsets>>

--------------------------------------------------------------------------------
(* The operator.                                                              *)

\* cancelRun after its kill: throws if the run has ended meanwhile.
cancelRun(i) ==
  /\ "cancel" \in Operator /\ Live(i) /\ Upset("cancel")
  /\ LET R == [run EXCEPT ![i] = Cancelled(@)]
     IN run' = R /\ task' = Settled(R, {i})
  /\ session' = session \ {i}
  /\ UNCHANGED <<call, calls, boot, git>>

rejectRun(i) ==
  /\ "reject" \in Operator /\ run[i].approval /\ Upset("reject")
  /\ run' = [run EXCEPT ![i] = Failed(@)]
  /\ UNCHANGED <<task, session, call, calls, boot, git>>

\* A retry is checked, waits for the inspection of the worktree, and is written.
RetryAsked(i) ==
  /\ "retry" \in Operator /\ Upset("retry")
  /\ i \in Created /\ i = Latest(RunsOf(run[i].task)) /\ run[i].term # "none"
  /\ retrying' = retrying \cup {i}
  /\ UNCHANGED <<run, task, session, call, acall, boot, git>>
RetryWritten(i) ==
  /\ i \in retrying
  /\ retrying' = retrying \ {i}
  /\ run' = [run EXCEPT ![i].term = "failed"]
  /\ task' = [task EXCEPT ![run[i].task].st = "ready", ![run[i].task].retries = 0]
  /\ UNCHANGED <<session, call, acall, boot, git, upsets>>

\* approveRun: refused while descendants are at work.
approveRun(i) ==
  /\ "approve" \in Operator /\ acall[i] = "none"
  /\ run[i].approval /\ run[i].term = "none"
  /\ \A j \in Descendants(i) : ~Live(j)
  /\ acall' = [acall EXCEPT ![i] = "merge"]
  /\ UNCHANGED <<run, task, session, call, retrying, boot, git, upsets>>

\* The branch is merged as it is now, or the merge fails and the approval stays open.
MergeApproved(i) ==
  /\ acall[i] = "merge"
  /\ \/ /\ head[run[i].tree] \notin merged \cup {0}   \* commits ahead of the base
        /\ merged' = merged \cup {head[run[i].tree]}
        /\ acall' = [acall EXCEPT ![i] = "finalize"]
     \/ acall' = [acall EXCEPT ![i] = "none"] /\ UNCHANGED merged
  /\ UNCHANGED <<run, task, session, call, retrying, boot, head, cleared, upsets>>

\* Runs that share the worktree are closed, then the run, then its live ancestors.
finalizeSuccessfulMerge(i) ==
  /\ acall[i] = "finalize"
  /\ acall' = [acall EXCEPT ![i] = "none"]
  /\ LET shared == {j \in Run : Live(j) /\ run[j].tree = run[i].tree}
         S == shared \cup {i} \cup {j \in Chain(i) : Live(j)}
         R == [j \in Run |-> IF j \in S THEN Done(run[j]) ELSE run[j]]
     IN /\ run' = R
        /\ task' = Settled(R, S)
        /\ session' = session \ shared
  /\ UNCHANGED <<call, retrying, boot, git, upsets>>

--------------------------------------------------------------------------------
Next ==
  \/ \E t \in Task : Dispatch(t)
  \/ \E i \in Run :
       \/ Complete(i) \/ Die(i) \/ StaleSlot(i) \/ Reconcile(i)
       \/ Route(i) \/ Verify(i) \/ retryFinalFixVerify(i) \/ dispatchReview(i)
       \/ AdvanceUnreviewed(i) \/ ShipUnreviewed(i) \/ AdvanceReviewed(i) \/ ShipReviewed(i)
       \/ Throw(i)
       \/ cancelRun(i) \/ rejectRun(i) \/ RetryAsked(i) \/ RetryWritten(i)
       \/ approveRun(i) \/ MergeApproved(i) \/ finalizeSuccessfulMerge(i)
  \/ Crash

Spec == Init /\ [][Next]_vars

\* The process runs what is due: calls go on, the start-up reconcile and the slots are
\* looked after.  Agents, operators and dispatches are free.
Fairness ==
  \A i \in Run :
    /\ WF_vars(Reconcile(i)) /\ WF_vars(StaleSlot(i))
    /\ WF_vars(Route(i)) /\ WF_vars(Verify(i)) /\ WF_vars(retryFinalFixVerify(i)) /\ WF_vars(dispatchReview(i))
    /\ WF_vars(AdvanceUnreviewed(i)) /\ WF_vars(ShipUnreviewed(i))
    /\ WF_vars(AdvanceReviewed(i)) /\ WF_vars(ShipReviewed(i))

FairSpec == Spec /\ Fairness

--------------------------------------------------------------------------------
(* Properties.                                                                *)

Happened(what) == \E n \in 1 .. Len(upsets) : upsets[n] = what

\* What reaches the base branch has passed a review of that very commit, or went to its
\* approval because nobody was there to review, unless an operator retried a run: fixes,
\* verdicts and late calls never get an unreviewed commit merged (runReviewCompletion,
\* mergeViaLocalBranch).
MergedCleared == Happened("retry") \/ merged \subseteq cleared

\* Two steps of one lineage never wait or work at a time (onReviewResult, dispatchReview,
\* dispatchVerificationFix), unless an operator retried a run.
FollowUp(t) == /\ task[t].kind \in {"review", "fix"}
               /\ \/ task[t].st = "ready"
                  \/ \E i \in RunsOf(t) : i \in session \/ call[i].pc # "none"
OneFollowUp == Happened("retry") \/ \A t, u \in Task : FollowUp(t) /\ FollowUp(u) => t = u

\* Two agents never work in one worktree (isWorktreeContested), whatever operators do.
OneSessionPerTree == \A i, j \in session : run[i].tree = run[j].tree => i = j

\* No lineage is fixed more often than maxFixIterations, across reviews, verifications,
\* rebases, crashes and retries.
RoundsBounded == \A t \in Task : task[t].kind = "fix" => task[t].round <= MaxFix

\* Nobody works in a worktree while its branch is merged (approveRun looks at the
\* descendants once, before its awaits), unless an operator retried a run.
QuietMerge == Happened("retry") \/ \A i \in Run : acall[i] = "merge" => \A j \in session : run[j].tree # run[i].tree

\* Completed work is not forgotten: again and again, every completed run has ended, waits
\* for its approval or has a review or a fix to come, by its call or by closeStaleSlots.
\* (Runs only complete finitely often.)  Not so behind a fix whose verification failed: its
\* task stays open and counts as work to come (hasDownstreamLineageWork).
Waiting(i) == run[i].stage = "ship" /\ run[i].approval
Followed(i) == \E t \in Task : t > run[i].task /\ task[t].kind \in {"review", "fix"} /\ task[t].st # "done"
Behind(i) == \E t \in Task : t < run[i].task /\ task[t].kind = "fix" /\ task[t].st # "done"
Handled(i) == ~run[i].complete \/ ~Live(i) \/ Waiting(i) \/ Followed(i) \/ Behind(i)
CompletionsHandled == []<>((\A i \in Run : Handled(i)) \/ Happened("retry") \/ ~Room)
================================================================================
