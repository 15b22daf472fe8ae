-------------------------------- MODULE Watchers --------------------------------
(***************************************************************************)
(* A run whose work goes out as a pull request: shipping it, the watchers    *)
(* that poll its CI and its review, the state the run derives from their     *)
(* verdicts, and the approval that merges the pull request.                   *)
(*                                                                          *)
(* An action is what runs between two awaits on GitHub or git; the awaits    *)
(* on the local workflow runtime are part of it.  A commit is the number of   *)
(* its making, the merge commit comes after all others.  A generation of      *)
(* watchers is what one spawnWatchers() starts: a CI and a review watcher,    *)
(* each with its child row.  Rows, branches and pull requests survive a       *)
(* crash; watchers, calls and the manager's map do not.                       *)
(***************************************************************************)
EXTENDS Naturals, Sequences

CONSTANTS External,      \* project.config.externalReviewRequired
          App,           \* merges go through the GitHub App, which asks for the required checks
          Check,         \* the checks that GitHub may run of a commit
          MaxResets,     \* maxResets of resetToStage()
          MaxCommits, MaxSpawns,
          MaxFaults      \* bounds: commits, generations, pushes by outsiders and crashes together

ASSUME WatchersBoundsAssumption ==
  /\ External \in BOOLEAN /\ App \in BOOLEAN 
  /\ MaxResets \in Nat /\ MaxCommits \in Nat \ {0} /\ MaxSpawns \in Nat \ {0} /\ MaxFaults \in Nat

VARIABLES run,       \* the row of the run
          watch,     \* the generations of watchers, with their child rows
          active,    \* activeWatchers: the generation of this run, 0 for none
          evidence,  \* <<type, commit>> of the evidence of a pass
          tree,      \* the head of the worktree
          head,      \* the head of the pull request's branch, 0 before the first push
          checks,    \* what each check of a commit says on GitHub
          ship,      \* the suspended onReadyToShip()
          call,      \* the suspended approveRun()
          merged,    \* the merged head, whether the guard judged, and what the gate asked for
          made, pushes, crashes    \* commits made, pushes by outsiders, crashes

vars == <<run, watch, active, evidence, tree, head, checks, ship, call, merged, made, pushes, crashes>>

Commit == 1 .. MaxCommits
MergeCommit == MaxCommits + 1
Types == {"ci", "review"}
Verdict == {"none", "pending", "pass", "fail"}

\* What the gate of the GitHub App asks for: the checks that its configuration names, or
\* else the protection of the base branch; with no names, that all there are have passed,
\* or "some" and all, or nothing: disabled, or the branch is protected without checks.
Policies == {[required |-> names, unnamed |-> "ignored"] : names \in SUBSET Check}
            \cup [required : {{}}, unnamed : {"all", "some"}]
NoPolicy == [required |-> {}, unnamed |-> "ignored"]

Idle == [pc |-> "idle", seen |-> 0, ciSeen |-> "none", head |-> 0, commit |-> 0,
         guarded |-> FALSE, policy |-> NoPolicy]
Watcher == [pc : {"off", "rest", "asked", "head", "late"},   \* rest: the timer is set; head, late: asks for the head
            ans : {"none", "pass", "fail"},                  \* what the checks said
            row : {"open", "cancelled", "done"}]             \* cancel(); stop() and finalize()

TypeOK ==
  /\ run \in [stage : {"implement", "ship", "done"}, failed : BOOLEAN, pending : BOOLEAN,
              commit : 0 .. MergeCommit, pr : BOOLEAN, ci : Verdict, review : Verdict,
              resets : 0 .. MaxResets]
  /\ watch \in Seq([commit : 1 .. MergeCommit, ci : Watcher, review : Watcher])
  /\ Len(watch) <= MaxSpawns /\ active \in 0 .. Len(watch)
  /\ evidence \subseteq Types \X Commit
  /\ tree \in 0 .. MaxCommits /\ made \in 0 .. MaxCommits /\ head \in 0 .. MaxCommits
  /\ checks \in [Commit -> [Check -> {"absent", "pending", "pass", "fail"}]]
  /\ ship \in [pc : {"idle", "prepare", "push", "pr", "sync"}, commit : 0 .. MaxCommits]
  /\ call \in [pc : {"idle", "head", "checks", "refs", "gate", "merge", "record", "finish"},
               seen : 0 .. MergeCommit, ciSeen : Verdict,   \* the row approveRun() read
               head : 0 .. MaxCommits,                      \* currentPrHeadSha
               commit : 0 .. MergeCommit,                   \* commitSha of the row mergeApprovedRun() read
               guarded : BOOLEAN, policy : Policies]
  /\ merged \in [head : 0 .. MaxCommits, guarded : BOOLEAN, policy : Policies]
  /\ pushes \in Nat /\ crashes \in Nat /\ pushes + crashes <= MaxFaults

Init ==
  /\ run = [stage |-> "implement", failed |-> FALSE, pending |-> FALSE, commit |-> 0, pr |-> FALSE,
            ci |-> "none", review |-> "none", resets |-> 0]
  /\ watch = <<>> /\ active = 0 /\ evidence = {}
  /\ tree = 0 /\ made = 0 /\ head = 0 /\ checks = [c \in Commit |-> [k \in Check |-> "absent"]]
  /\ ship = [pc |-> "idle", commit |-> 0] /\ call = Idle
  /\ merged = [head |-> 0, guarded |-> FALSE, policy |-> NoPolicy]
  /\ pushes = 0 /\ crashes = 0

--------------------------------------------------------------------------------
(* What the calls do to the row, the watchers and the evidence: S is the state *)
(* they find, the value the state they leave.                                  *)

State == [run |-> run, watch |-> watch, active |-> active, evidence |-> evidence]

Become(S) ==
  /\ Len(S.watch) <= MaxSpawns
  /\ run' = S.run /\ watch' = S.watch /\ active' = S.active /\ evidence' = S.evidence

Put(w, row) == IF w.row = "open" THEN [w EXCEPT !.row = row, !.pc = IF @ = "rest" THEN "off" ELSE @] ELSE w
PutBoth(gen, row) == [gen EXCEPT !.ci = Put(@, row), !.review = Put(@, row)]

\* stopWatchers(): clears the timers, the answers under way still come.
Stop(S) == IF S.active = 0 THEN S
           ELSE [S EXCEPT !.watch[S.active] = PutBoth(@, "done"), !.active = 0]

\* cancelWatchers() and closeEmptyWatcherChildren(): the latter takes rows that a
\* crashed process left, if they are about the commit the run has now.
Cancel(S) == [S EXCEPT !.active = 0,
                       !.watch = [g \in DOMAIN @ |-> IF g = S.active \/ @[g].commit = S.run.commit
                                                     THEN PutBoth(@[g], "cancelled") ELSE @[g]]]

Asking == [pc |-> "asked", ans |-> "none", row |-> "open"]

spawnWatchers(S) ==
  IF S.run.pending THEN Cancel(S)
  ELSE IF \/ S.run.stage # "ship" \/ S.run.failed \/ S.run.commit = 0 \/ ~S.run.pr
          \/ S.active # 0 /\ S.watch[S.active].commit = S.run.commit
       THEN S
       ELSE [Stop(S) EXCEPT !.run.ci = "pending", !.run.review = "pending",
                            !.watch = Append(@, [commit |-> S.run.commit, ci |-> Asking, review |-> Asking]),
                            !.active = Len(S.watch) + 1]

\* deriveShipState() over the approval that the workflow asks for in its last stage.
Approvable(r) ==
  /\ r.stage = "ship"
  /\ External => r.commit # 0 /\ r.pr /\ r.ci = "pass" /\ r.review = "pass"

\* Mutant: the approval is asked for with the watchers at work.
syncRunStateAlone(S) ==
  IF S.run.stage = "done" THEN S ELSE [S EXCEPT !.run.pending = Approvable(S.run)]

\* refreshRunFromWorkflow(): a run that starts to await its approval loses its watchers.
syncRunState(S) ==
  LET T == [S EXCEPT !.run.pending = Approvable(S.run)]
  IN  IF S.run.stage = "done" THEN S
      ELSE IF T.run.pending /\ ~S.run.pending THEN Cancel(T) ELSE T

Failed(S) == [S EXCEPT !.run.failed = TRUE, !.run.pending = FALSE]

\* Mutant: the limit is off by one.
resetToStageOnceMore(S) ==
  LET Back == [S EXCEPT !.run.resets = @ + 1, !.run.stage = "implement", !.run.pending = FALSE]
  IN  IF S.run.resets > MaxResets THEN Failed(S)
      ELSE IF S.run.stage = "done" THEN [S EXCEPT !.run.resets = @ + 1]
      ELSE IF S.run.stage = "ship" THEN Stop(Back) ELSE Back

\* resetToStage(): maxResets times, then the run fails.
resetToStage(S) ==
  LET Back == [S EXCEPT !.run.resets = @ + 1, !.run.stage = "implement", !.run.pending = FALSE]
  IN  IF S.run.resets >= MaxResets THEN Failed(S)
      ELSE IF S.run.stage = "done" THEN [S EXCEPT !.run.resets = @ + 1]
      ELSE IF S.run.stage = "ship" THEN Stop(Back) ELSE Back

\* finalize(): a row that was cancelled meanwhile is done as well.
Settled(w) == [w EXCEPT !.pc = "off", !.ans = "none", !.row = "done"]
Finalized(S, g, t) == [S EXCEPT !.watch[g][t] = Settled(@)]

\* validateParent(): it asks neither whether the watcher was stopped nor whether the run ended.
Waiting(S, g, t, observed) ==
  /\ S.run.commit \in {S.watch[g].commit, observed}
  /\ S.run.stage = "ship"
  /\ S.run[t] \notin {"pass", "fail"}

\* resolve() and resolveTimeout(), with onWatcherResolved().
Resolved(S, g, t, passed, observed) ==
  LET T == [Finalized(S, g, t) EXCEPT !.run[t] = IF passed THEN "pass" ELSE "fail",
                                      !.run.commit = observed,
                                      !.evidence = IF passed THEN @ \cup {<<t, observed>>} ELSE @]
  IN  IF ~Waiting(S, g, t, observed) THEN Finalized(S, g, t)
      ELSE IF passed THEN syncRunState(T) ELSE resetToStage(T)

\* A call spawns watchers once at most; the ship call may have to do it again after a link.
Room(n) == Len(watch) + n + (IF ship.pc = "idle" THEN 0 ELSE 1) <= MaxSpawns

--------------------------------------------------------------------------------
(* The worktree, and GitHub.                                                   *)

Work ==
  /\ run.stage # "done" /\ ship.pc = "idle" /\ made < MaxCommits
  /\ made' = made + 1 /\ tree' = made + 1
  /\ UNCHANGED <<run, watch, active, evidence, head, checks, ship, call, merged, pushes, crashes>>

\* A check of a pushed commit appears, under way or at its end, or ends.  Nobody asks for
\* those of an older head but the approval that has read it.
CheckMoves(c, k) ==
  /\ c \in {head, call.head, call.commit} /\ checks[c][k] \in {"absent", "pending"}
  /\ \E says \in {"pending", "pass", "fail"} : checks' = [checks EXCEPT ![c][k] = says]
  /\ UNCHANGED <<run, watch, active, evidence, tree, head, ship, call, merged, made, pushes, crashes>>

OutsiderPushes ==
  /\ pushes + crashes < MaxFaults /\ head # 0 /\ made < MaxCommits /\ merged.head = 0
  /\ made' = made + 1 /\ head' = made + 1 /\ pushes' = pushes + 1
  /\ UNCHANGED <<run, watch, active, evidence, tree, checks, ship, call, merged, crashes>>

--------------------------------------------------------------------------------
(* Shipping: onReadyToShip().                                                  *)

\* The router records the worktree's head and clears what ended the root before, then the
\* run enters its last stage; the event of the change spawns watchers for the recorded
\* commit.  The review that leads here is an open descendant, without which no approval
\* starts, and lasts longer than an approval awaits GitHub.
ReadyToShip ==
  LET S == [State EXCEPT !.run.commit = tree, !.run.failed = FALSE, !.run.stage = "ship",
                         !.run.pending = IF run.failed THEN FALSE ELSE @]
      moved == run.stage # "ship"
  IN  /\ run.stage # "done" /\ ship.pc = "idle" /\ call.pc = "idle" /\ tree # 0
      /\ Room(1)
      /\ Become(syncRunState(IF moved THEN spawnWatchers(S) ELSE S))
      /\ ship' = [pc |-> "prepare", commit |-> 0]
      /\ UNCHANGED <<tree, head, checks, call, merged, made, pushes, crashes>>

\* prepareLocalLifecycleBranch() and readRequiredHead().
PrepareBranch ==
  /\ ship.pc = "prepare"
  /\ run' = [run EXCEPT !.commit = tree]
  /\ ship' = [pc |-> "push", commit |-> tree]
  /\ UNCHANGED <<watch, active, evidence, tree, head, checks, call, merged, made, pushes, crashes>>

pushBranch ==
  /\ ship.pc = "push"
  /\ head' = tree
  /\ ship' = [ship EXCEPT !.pc = "pr"]
  /\ UNCHANGED <<run, watch, active, evidence, tree, checks, call, merged, made, pushes, crashes>>

upsertPullRequest ==
  /\ ship.pc = "pr"
  /\ run' = [run EXCEPT !.commit = ship.commit, !.pr = TRUE]
  /\ ship' = [ship EXCEPT !.pc = "sync"]
  /\ UNCHANGED <<watch, active, evidence, tree, head, checks, call, merged, made, pushes, crashes>>

Shipped ==
  /\ ship.pc = "sync"
  /\ Become(spawnWatchers(syncRunState(State)))
  /\ ship' = [pc |-> "idle", commit |-> 0]
  /\ UNCHANGED <<tree, head, checks, call, merged, made, pushes, crashes>>

failGitHubLifecycleBeforeApproval ==
  /\ ship.pc \in {"prepare", "push", "pr"}
  /\ Become(Failed(State))
  /\ ship' = [pc |-> "idle", commit |-> 0]
  /\ UNCHANGED <<tree, head, checks, call, merged, made, pushes, crashes>>

\* An agent or an operator links the pull request at the head it has.
linkRun ==
  LET S == [State EXCEPT !.run.commit = head, !.run.pr = TRUE]
  IN  /\ head # 0 /\ Room(1)
      /\ Become(IF run.stage = "ship" /\ External THEN syncRunState(spawnWatchers(S)) ELSE S)
      /\ UNCHANGED <<tree, head, checks, ship, call, merged, made, pushes, crashes>>

--------------------------------------------------------------------------------
(* The watchers.                                                               *)

Rest(w) == [w EXCEPT !.pc = IF w.row = "open" THEN "rest" ELSE "off", !.ans = "none"]

Poll(g, t) ==
  /\ watch[g][t].pc = "rest"
  /\ watch' = [watch EXCEPT ![g][t].pc = "asked"]
  /\ UNCHANGED <<run, active, evidence, tree, head, checks, ship, call, merged, made, pushes, crashes>>

\* All the checks there are, required or not; none is as good as pending.
classifyCiChecks(on) ==
  LET says == {on[k] : k \in Check} \ {"absent"}
  IN  IF "fail" \in says THEN "fail" ELSE IF says = {"pass"} THEN "pass" ELSE "pending"

\* A verdict on the pull request's checks asks for the head next.
ChecksAnswer(g) ==
  LET says == classifyCiChecks(checks[head])
  IN  /\ watch[g].ci.pc = "asked"
      /\ watch' = [watch EXCEPT ![g].ci = IF says = "pending" THEN Rest(@)
                                          ELSE [@ EXCEPT !.pc = "head", !.ans = says]]
      /\ UNCHANGED <<run, active, evidence, tree, head, checks, ship, call, merged, made, pushes, crashes>>

CiResolves(g) ==
  /\ watch[g].ci.pc = "head"
  /\ Become(Resolved(State, g, "ci", watch[g].ci.ans = "pass", head))
  /\ UNCHANGED <<tree, head, checks, ship, call, merged, made, pushes, crashes>>

\* What reviewers say, and when, is open.
ReviewAnswers(g) ==
  /\ watch[g].review.pc = "asked"
  /\ \/ watch' = [watch EXCEPT ![g].review = Rest(@)] /\ UNCHANGED <<run, active, evidence>>
     \/ \E passed \in BOOLEAN : Become(Resolved(State, g, "review", passed, watch[g].commit))
  /\ UNCHANGED <<tree, head, checks, ship, call, merged, made, pushes, crashes>>

\* Mutant: a poll that fails sets no timer.
PollFailsForGood(g, t) ==
  /\ watch[g][t].pc \in {"asked", "head"}
  /\ watch' = [watch EXCEPT ![g][t].pc = "off"]
  /\ UNCHANGED <<run, active, evidence, tree, head, checks, ship, call, merged, made, pushes, crashes>>

PollFails(g, t) ==
  /\ watch[g][t].pc \in {"asked", "head"}
  /\ watch' = [watch EXCEPT ![g][t] = Rest(@)]
  /\ UNCHANGED <<run, active, evidence, tree, head, checks, ship, call, merged, made, pushes, crashes>>

\* resolveTimeout(), instead of a poll.
ReviewTimesOut(g) ==
  /\ watch[g].review.pc = "rest"
  /\ Become(Resolved(State, g, "review", FALSE, watch[g].commit))
  /\ UNCHANGED <<tree, head, checks, ship, call, merged, made, pushes, crashes>>

CiTimesOut(g) ==
  /\ watch[g].ci.pc = "rest"
  /\ watch' = [watch EXCEPT ![g].ci.pc = "late"]
  /\ UNCHANGED <<run, active, evidence, tree, head, checks, ship, call, merged, made, pushes, crashes>>

LateResolves(g) ==
  /\ watch[g].ci.pc = "late"
  /\ Become(Resolved(State, g, "ci", FALSE, head))
  /\ UNCHANGED <<tree, head, checks, ship, call, merged, made, pushes, crashes>>

--------------------------------------------------------------------------------
(* The approval of a pull request: approveRun() with its guard, and the merge. *)

Approve ==
  /\ call.pc = "idle" /\ ship.pc = "idle" /\ run.pending /\ ~run.failed /\ run.pr /\ head # 0
  /\ call' = [Idle EXCEPT !.pc = "head", !.seen = run.commit, !.ciSeen = run.ci]
  /\ UNCHANGED <<run, watch, active, evidence, tree, head, checks, ship, merged, made, pushes, crashes>>

\* Mutant: the guard believes the latches of the row.
GuardedByLatches(S, c, commit) ==
  /\ evidence' = S.evidence /\ run' = S.run
  /\ call' = IF S.run.ci = "pass" /\ (External => S.run.review = "pass")
             THEN [c EXCEPT !.pc = "refs", !.commit = S.run.commit, !.guarded = TRUE] ELSE Idle

\* guardStalePrHeadApproval(), once it has its evidence; "commit" is that of evidenceRun.
\* mergeApprovedRun() reads the row again.
Guarded(S, c, commit) ==
  LET ciMissing == (c.ciSeen = "pass" \/ c.head # c.seen) /\ <<"ci", commit>> \notin S.evidence
      reviewMissing == External /\ <<"review", commit>> \notin S.evidence
  IN  /\ evidence' = S.evidence /\ run' = S.run
      /\ call' = IF ciMissing \/ reviewMissing THEN Idle
                 ELSE [c EXCEPT !.pc = "refs", !.commit = S.run.commit, !.guarded = TRUE]

\* resolveCurrentPrHeadSha(): the row follows the head; known evidence of its CI will do.
HeadRead ==
  LET S == [State EXCEPT !.run.commit = IF head = call.seen THEN @ ELSE head]
      c == [call EXCEPT !.head = head]
  IN  /\ call.pc = "head"
      /\ IF <<"ci", head>> \in evidence THEN Guarded(S, c, head)
         ELSE run' = S.run /\ call' = [c EXCEPT !.pc = "checks"] /\ UNCHANGED evidence
      /\ UNCHANGED <<watch, active, tree, head, checks, ship, merged, made, pushes, crashes>>

\* A head that cannot be read leaves the guard without an opinion.
HeadUnreadable ==
  /\ call.pc = "head"
  /\ call' = [call EXCEPT !.pc = "refs", !.commit = run.commit]
  /\ UNCHANGED <<run, watch, active, evidence, tree, head, checks, ship, merged, made, pushes, crashes>>

\* ensureCurrentPrHeadRemoteCiEvidence(): a snapshot that passes is evidence, and
\* evidenceRun is the row as it is then.
Snapshot ==
  /\ call.pc = "checks"
  /\ \/ /\ classifyCiChecks(checks[call.head]) = "pass"
        /\ Guarded([State EXCEPT !.evidence = @ \cup {<<"ci", call.head>>}, !.run.ci = "pass"], call, run.commit)
     \/ Guarded(State, call, call.head)
  /\ UNCHANGED <<watch, active, tree, head, checks, ship, merged, made, pushes, crashes>>

\* assertPullRequestStateMatchesRun(): a head that GitHub does not name passes.
RefsRead ==
  /\ call.pc = "refs"
  /\ \/ call.commit \in Commit /\ call' = [call EXCEPT !.pc = IF App THEN "gate" ELSE "merge"]
     \/ head # call.commit /\ call' = Idle
  /\ UNCHANGED <<run, watch, active, evidence, tree, head, checks, ship, merged, made, pushes, crashes>>

\* Mutant: a required check that is missing is no reason to refuse.
PassesWhatIsSeen(policy, on) ==
  LET seen == {k \in Check : on[k] # "absent"}
      judged == IF policy.required # {} THEN policy.required \cap seen
                ELSE IF policy.unnamed = "ignored" THEN {} ELSE seen
  IN  /\ \A k \in judged : on[k] = "pass"
      /\ policy.unnamed = "some" => judged # {}

\* classifyApprovalRequiredChecks(): named checks alone, or all that there are.
Passes(policy, on) ==
  LET seen == {k \in Check : on[k] # "absent"}
      judged == IF policy.required # {} THEN policy.required
                ELSE IF policy.unnamed = "ignored" THEN {} ELSE seen
  IN  /\ \A k \in judged : on[k] = "pass"
      /\ policy.unnamed = "some" => judged # {}

\* enforceGitHubAppApprovalRequiredChecks(), for the head that will be merged and under the
\* policy of the moment.
Gate ==
  /\ call.pc = "gate"
  /\ \E policy \in Policies :
       call' = IF Passes(policy, checks[call.commit])
               THEN [call EXCEPT !.pc = "merge", !.policy = policy] ELSE Idle
  /\ UNCHANGED <<run, watch, active, evidence, tree, head, checks, ship, merged, made, pushes, crashes>>

\* Mutant: GitHub merges whatever the head is.
MergeUnpinned ==
  /\ call.pc = "merge" /\ merged.head = 0
  /\ merged' = [head |-> head, guarded |-> call.guarded, policy |-> call.policy]
  /\ call' \in {[call EXCEPT !.pc = "record"], Idle}
  /\ UNCHANGED <<run, watch, active, evidence, tree, head, checks, ship, made, pushes, crashes>>

\* GitHub merges the head it is asked to, or nothing; its answer may be lost.
Merge ==
  /\ call.pc = "merge" /\ merged.head = 0 /\ head = call.commit
  /\ merged' = [head |-> head, guarded |-> call.guarded, policy |-> call.policy]
  /\ call' \in {[call EXCEPT !.pc = "record"], Idle}
  /\ UNCHANGED <<run, watch, active, evidence, tree, head, checks, ship, made, pushes, crashes>>

\* A call of GitHub or git fails, or the worktree, the base or the commits of the head are
\* not as they should be; the row keeps its approval.
MergeFails ==
  /\ call.pc \in {"refs", "gate", "merge"}
  /\ call' = Idle
  /\ UNCHANGED <<run, watch, active, evidence, tree, head, checks, ship, merged, made, pushes, crashes>>

\* The merge commit may remain unknown.
Recorded ==
  /\ call.pc = "record"
  /\ run' \in {run, [run EXCEPT !.commit = MergeCommit]}
  /\ call' = [call EXCEPT !.pc = "finish"]
  /\ UNCHANGED <<watch, active, evidence, tree, head, checks, ship, merged, made, pushes, crashes>>

\* finalizeSuccessfulMerge(): markDone() asks for nothing.
Finish ==
  /\ call.pc = "finish"
  /\ Become(Stop([State EXCEPT !.run.stage = "done", !.run.failed = FALSE, !.run.pending = FALSE]))
  /\ call' = Idle
  /\ UNCHANGED <<tree, head, checks, ship, merged, made, pushes, crashes>>

--------------------------------------------------------------------------------
(* Other operator calls, and crashes.                                          *)

\* rejectRun(), and cancelRun() of a run without a session: the watchers stay.
EndedByOperator ==
  /\ run.pending \/ (~run.failed /\ run.stage # "done")
  /\ Become(Failed(State))
  /\ UNCHANGED <<tree, head, checks, ship, call, merged, made, pushes, crashes>>

\* POST /api/runs/:id/reset.
OperatorResets ==
  /\ run.resets < MaxResets \/ ~run.failed
  /\ Become(resetToStage(State))
  /\ UNCHANGED <<tree, head, checks, ship, call, merged, made, pushes, crashes>>

\* The process dies, by itself or by the query of a late CI watcher that fails.  Nobody
\* spawns watchers when it comes back.
Crash ==
  /\ pushes + crashes < MaxFaults
  /\ active # 0 \/ ship.pc # "idle" \/ call.pc # "idle"     \* otherwise it changes nothing that matters
  /\ crashes' = crashes + 1
  /\ watch' = [g \in DOMAIN watch |-> [watch[g] EXCEPT !.ci.pc = "off", !.ci.ans = "none", !.review.pc = "off"]]
  /\ active' = 0 /\ ship' = [pc |-> "idle", commit |-> 0] /\ call' = Idle
  /\ UNCHANGED <<run, evidence, tree, head, checks, merged, made, pushes>>

Shipping == PrepareBranch \/ pushBranch \/ upsertPullRequest \/ Shipped \/ failGitHubLifecycleBeforeApproval
Watching(g) == \/ \E t \in Types : Poll(g, t) \/ PollFails(g, t)
               \/ ChecksAnswer(g) \/ CiResolves(g) \/ ReviewAnswers(g) \/ LateResolves(g)
               \/ ReviewTimesOut(g) \/ CiTimesOut(g)
Approving == \/ HeadRead \/ HeadUnreadable \/ Snapshot \/ RefsRead \/ Gate \/ Merge \/ MergeFails
             \/ Recorded \/ Finish

Next ==
  \/ Work \/ OutsiderPushes \/ \E c \in Commit, k \in Check : CheckMoves(c, k)
  \/ ReadyToShip \/ Shipping \/ linkRun
  \/ \E g \in DOMAIN watch : Watching(g)
  \/ Approve \/ Approving \/ EndedByOperator \/ OperatorResets \/ Crash

Spec == Init /\ [][Next]_vars

\* Timers fire, queries return or fail, and the clock brings the watchers to their timeouts.
FairSpec ==
  /\ Spec
  /\ WF_vars(\E g \in DOMAIN watch : Watching(g))
  /\ SF_vars(\E g \in DOMAIN watch : ReviewTimesOut(g) \/ CiTimesOut(g))

--------------------------------------------------------------------------------
(* Properties.                                                                *)

\* The checks that a policy names have passed, and some check if it asks for some.
Meets(policy, on) ==
  /\ \A k \in policy.required : on[k] = "pass"
  /\ policy.unnamed = "some" => \E k \in Check : on[k] = "pass"

\* What was merged under the guard had a review that passed, and what the GitHub App merged
\* had the checks that its gate required, others being red or missing: for the very head
\* that was merged, whatever was pushed, linked or polled while the approval awaited
\* GitHub, and however the checks of other commits went.
MergedIsVetted ==
  merged.head # 0 =>
    /\ External /\ merged.guarded => <<"review", merged.head>> \in evidence
    /\ App => Meets(merged.policy, checks[merged.head])

\* A run that awaits its approval has no watchers at work, and leaves none of their child
\* rows open for a later stop to mark as work that is done: whichever of a poll, a link, the
\* ship call or a reset made it await the approval.  A row about another commit may be left
\* from before a crash.
ApprovalHasNoWatchers ==
  run.pending =>
    /\ active = 0
    /\ \A g \in DOMAIN watch, t \in Types : watch[g][t].row = "open" => crashes > 0

\* The watchers of a generation come to an end, by a verdict, a timeout or a stop: late and
\* failing polls, pushes and resets notwithstanding, unless the process dies.  A query that
\* never returns is outside of it: the timeout is asked for at the next poll only.
WatchersReturn ==
  \A g \in 1 .. MaxSpawns :
    g = active ~> crashes > 0 \/ (g \in DOMAIN watch /\ \A t \in Types : watch[g][t].row # "open")
================================================================================
