-------------------------------- MODULE Approval --------------------------------
(***************************************************************************)
(* The operator's verdict on finished work: approve, approve with a rebase,  *)
(* reject, and the reconcile that repairs what a crash left, over one        *)
(* repository checkout that the merges of all runs share.                    *)
(*                                                                          *)
(* An action is what runs between two awaits, and each git command is one.   *)
(* A commit is the set of the commits it reaches, itself included: "is an    *)
(* ancestor of" is \subseteq, a branch is the commit it points to, and a      *)
(* deleted branch is {}.  A commit made in a worktree is <<t, n, g>>, the     *)
(* n-th piece of work of lineage t, rewritten by g rebases; <<0, k, 0>> is    *)
(* the k-th merge commit.  Rows, branches and worktrees survive a crash,     *)
(* calls do not.  Only merges of local branches are here, not pull requests. *)
(***************************************************************************)
EXTENDS Naturals, FiniteSets

CONSTANTS MaxRuns, Calls,    \* approvals that may be in flight together
          Parent,            \* parentRunId, 0 for none
          Push,              \* context.merge.push
          Overlap,           \* the operator calls that may run beside one another
          MaxCommits, MaxMerges, MaxRebases,    \* bounds on each lineage, and on all
          MaxCrashes         \* bound on crashes and on resets that fail, together

Run == 1 .. MaxRuns

ASSUME ApprovalBoundsAssumption ==
  /\ MaxRuns \in Nat \ {0} /\ MaxCommits \in Nat \ {0} /\ MaxMerges \in Nat
  /\ MaxRebases \in Nat /\ MaxCrashes \in Nat /\ Push \in BOOLEAN
ASSUME ParentAssumption == Parent \in [Run -> 0 .. MaxRuns] /\ \A r \in Run : Parent[r] < r

Kinds == {"approve", "unattended", "rebase", "reconcile"}
ASSUME OverlapAssumption == Overlap \subseteq Kinds

VARIABLES run,      \* rows of runs
          branch,   \* of a lineage, by its root
          tree,     \* lineages whose worktree is there
          base,     \* the base branch in the checkout
          call,     \* suspended approveRun() and approveRunWithRebase()
          scan,     \* the suspended reconcile pass
          made, merges, rebased,
          crashes   \* counters; crashes, and resets of the base branch that failed

vars == <<run, branch, tree, base, call, scan, made, merges, rebased, crashes>>

\* A run and the runs above it: what every set has that has the run, and has the
\* parents of its runs.
Ancestors == [r \in Run |-> {s \in Run : \A S \in SUBSET Run :
                               r \in S /\ (\A q \in S : Parent[q] \in S \cup {0}) => s \in S}]
Tree(r) == CHOOSE s \in Ancestors[r] : Parent[s] = 0
Roots == {r \in Run : Parent[r] = 0}
LineageOf(t) == {r \in Run : Tree(r) = t}
Descendants(r) == {s \in Run \ {r} : r \in Ancestors[s]}

Piece == {<<t, n, g>> : t \in Roots, n \in 1 .. MaxCommits, g \in 0 .. MaxRebases}
MergeCommit == {<<0, k, 0>> : k \in 0 .. MaxMerges}
Commit == SUBSET (Piece \cup MergeCommit)

Idle == [pc |-> "idle", kind |-> "approve", run |-> 1, path |-> FALSE, seen |-> {}, pre |-> {},
         kills |-> {}, ok |-> FALSE]
Resting == [next |-> 0, rows |-> [r \in Run |-> [stage |-> "done", term |-> "none", pending |-> FALSE,
                                                 commit |-> {}]],
            closed |-> {}]
Row == [stage : {"work", "ship", "done"}, term : {"none", "failed"},
        pending : BOOLEAN,       \* pendingApproval
        commit : Commit]         \* commitSha, {} for null

TypeOK ==
  /\ run \in [Run -> Row]
  /\ branch \in [Roots -> Commit]
  /\ tree \subseteq Roots
  /\ base \in Commit
  /\ call \in [Calls -> [pc : {"idle", "policy", "clean", "rebase", "relink", "context", "check",
                               "ahead", "head", "merge", "record", "push", "rollback", "kill",
                               "branch", "finish"},
                         kind : Kinds, run : Run,
                         path : BOOLEAN,       \* git.worktreePath is known
                         seen : Commit,        \* commitSha of the row mergeApprovedRun() holds
                         pre : Commit,         \* preMergeHead
                         kills : SUBSET Run,   \* descendantsToKill
                         ok : BOOLEAN]]        \* the policy's answer
  /\ scan \in [next : 0 .. MaxRuns + 1,        \* the run to look at, 0 when no pass is under way
               rows : [Run -> Row],            \* allRuns, as read
               closed : SUBSET Run]            \* reconciledRunIds
  /\ made \in [Roots -> 0 .. MaxCommits] /\ rebased \in [Roots -> 0 .. MaxRebases]
  /\ merges \in 0 .. MaxMerges /\ crashes \in 0 .. MaxCrashes

Genesis == {<<0, 0, 0>>}

(* A lineage is either a run at its workflow's last stage, awaiting approval, *)
(* or one that waits for a follow-up at work, or a run still at work.         *)
Init ==
  /\ \E asked \in SUBSET Run :
       run = [r \in Run |->
                LET waits == Descendants(r) # {} /\ r \notin asked
                    spent == Parent[r] # 0 /\ Parent[r] \in asked
                IN  [stage |-> IF r \in asked \/ waits THEN "ship" ELSE "work",
                     term |-> IF spent THEN "failed" ELSE "none",
                     pending |-> r \in asked,
                     commit |-> IF r \in asked \/ waits THEN Genesis \cup {<<Tree(r), 1, 0>>} ELSE {}]]
       /\ asked \subseteq {r \in Roots : Descendants(r) # {}}
  /\ made = [t \in Roots |-> IF run[t].stage = "ship" THEN 1 ELSE 0]
  /\ branch = [t \in Roots |-> Genesis \cup {<<t, n, 0>> : n \in 1 .. made[t]}]
  /\ tree = Roots
  /\ base = Genesis
  /\ call = [c \in Calls |-> Idle] /\ scan = Resting
  /\ rebased = [t \in Roots |-> 0] /\ merges = 0 /\ crashes = 0

--------------------------------------------------------------------------------
Open(row) == row.stage # "done" /\ row.term = "none"
Live(r) == Open(run[r])
\* markDone asks for nothing: it clears a terminal state.
Done(row) == [row EXCEPT !.stage = "done", !.term = "none", !.pending = FALSE]
Failed(row) == [row EXCEPT !.term = "failed", !.pending = FALSE]

Barring(r) == {s \in Descendants(r) : Live(s)}        \* listBlockingApprovalDescendants

InFlight == {call[c].kind : c \in {d \in Calls : call[d].pc # "idle"}}
              \cup (IF scan.next = 0 THEN {} ELSE {"reconcile"})
MayStart(kind) == InFlight = {} \/ (kind \in Overlap /\ InFlight \subseteq Overlap)

Goes(c, pc) == call' = [call EXCEPT ![c].pc = pc]
Returns(c) == call' = [call EXCEPT ![c] = Idle]

--------------------------------------------------------------------------------
(* The runs' own progress.                                                    *)

(* A session commits in its worktree.                                         *)
Work(r) ==
  LET t == Tree(r)
  IN  /\ Live(r) /\ run[r].stage = "work" /\ t \in tree /\ made[t] < MaxCommits
      /\ made' = [made EXCEPT ![t] = @ + 1]
      /\ branch' = [branch EXCEPT ![t] = @ \cup {<<t, made[t] + 1, rebased[t]>>}]
      /\ UNCHANGED <<run, tree, base, call, scan, merges, rebased, crashes>>

(* The workflow's last stage asks for approval.                               *)
AskApproval(r) ==
  /\ Live(r) /\ run[r].stage = "work" /\ made[Tree(r)] > 0
  /\ run' = [run EXCEPT ![r].stage = "ship", ![r].pending = TRUE, ![r].commit = branch[Tree(r)]]
  /\ UNCHANGED <<branch, tree, base, call, scan, made, merges, rebased, crashes>>

(* A follow-up ends and the run that waited for it asks for approval.         *)
Conclude(r) ==
  LET p == Parent[r]
  IN  /\ Live(r) /\ run[r].stage = "work" /\ p # 0 /\ Live(p) /\ run[p].stage = "ship" /\ ~run[p].pending
      /\ run' = [run EXCEPT ![r] = Done(@), ![p].pending = TRUE, ![p].commit = branch[Tree(r)]]
      /\ UNCHANGED <<branch, tree, base, call, scan, made, merges, rebased, crashes>>

\* Mutant: a rejection writes a terminal state of its own.
RejectNamed(r) ==
  /\ run[r].pending
  /\ run' = [run EXCEPT ![r].term = "rejected", ![r].pending = FALSE]
  /\ UNCHANGED <<branch, tree, base, call, scan, made, merges, rebased, crashes>>

\* Mutant: a rejection sends the run back to work.
RejectToWork(r) ==
  /\ run[r].pending
  /\ run' = [run EXCEPT ![r].stage = "work", ![r].pending = FALSE]
  /\ UNCHANGED <<branch, tree, base, call, scan, made, merges, rebased, crashes>>

Reject(r) ==
  /\ run[r].pending
  /\ run' = [run EXCEPT ![r] = Failed(@)]
  /\ UNCHANGED <<branch, tree, base, call, scan, made, merges, rebased, crashes>>

--------------------------------------------------------------------------------
(* approveRun() up to the merge.                                              *)

MayApprove(r) == run[r].pending /\ run[r].term = "none" /\ Barring(r) = {}

Approve(c, r) ==
  /\ call[c].pc = "idle" /\ MayStart("approve") /\ MayApprove(r)
  /\ call' = [call EXCEPT ![c] = [Idle EXCEPT !.pc = "context", !.run = r, !.seen = run[r].commit]]
  /\ UNCHANGED <<run, branch, tree, base, scan, made, merges, rebased, crashes>>

ApproveUnattended(c, r) ==
  /\ call[c].pc = "idle" /\ MayStart("unattended") /\ MayApprove(r)
  /\ call' = [call EXCEPT ![c] = [Idle EXCEPT !.pc = "policy", !.kind = "unattended", !.run = r]]
  /\ UNCHANGED <<run, branch, tree, base, scan, made, merges, rebased, crashes>>

(* The worktree's commit is recorded, and the policy looks at the row.        *)
Policy(c) ==
  LET r == call[c].run  t == Tree(r)
      row == IF t \in tree THEN [run[r] EXCEPT !.commit = branch[t]] ELSE run[r]
  IN  /\ call[c].pc = "policy"
      /\ run' = [run EXCEPT ![r] = row]
      /\ \E passed \in BOOLEAN :
           call' = [call EXCEPT ![c].pc = "clean",
                      ![c].ok = passed /\ row.stage = "ship" /\ row.pending /\ row.term = "none"
                                /\ Barring(r) = {} /\ t \in tree]
      /\ UNCHANGED <<branch, tree, base, scan, made, merges, rebased, crashes>>

(* Once git has said whether the worktree is clean, the answer is acted upon. *)
PolicyAllows(c) ==
  LET r == call[c].run
  IN  /\ call[c].pc = "clean" /\ call[c].ok
      /\ \E again \in {run[r].pending, TRUE} :    \* asked again, after an attempt that was stopped
           run' = [run EXCEPT ![r].pending = again]
      /\ call' = [call EXCEPT ![c].pc = "context", ![c].seen = run[r].commit]
      /\ UNCHANGED <<branch, tree, base, scan, made, merges, rebased, crashes>>

PolicyStops(c) ==
  /\ call[c].pc = "clean"
  /\ run' = [run EXCEPT ![call[c].run].pending = TRUE]
  /\ Returns(c)
  /\ UNCHANGED <<branch, tree, base, scan, made, merges, rebased, crashes>>

ApproveRebase(c, r) ==
  /\ call[c].pc = "idle" /\ MayStart("rebase") /\ run[r].term = "none" /\ run[r].pending
  /\ call' = [call EXCEPT ![c] = [Idle EXCEPT !.pc = "rebase", !.kind = "rebase", !.run = r,
                                              !.seen = run[r].commit]]
  /\ UNCHANGED <<run, branch, tree, base, scan, made, merges, rebased, crashes>>

(* A missing worktree is made again.  What the base has already is dropped,    *)
(* the rest is rewritten on top of it.                                        *)
Rebase(c) ==
  LET t == Tree(call[c].run)
      kept == {n \in 1 .. made[t] : (\E g \in 0 .. MaxRebases : <<t, n, g>> \in branch[t])
                                    /\ ~\E g \in 0 .. MaxRebases : <<t, n, g>> \in base}
  IN  /\ call[c].pc = "rebase"
      /\ t \in tree \/ (branch[t] # {} /\ call[c].seen \subseteq branch[t])
      /\ tree' = tree \cup {t}
      /\ IF base \subseteq branch[t]
         THEN UNCHANGED <<branch, rebased>>
         ELSE /\ rebased[t] < MaxRebases
              /\ rebased' = [rebased EXCEPT ![t] = @ + 1]
              /\ branch' = [branch EXCEPT ![t] = base \cup {<<t, n, rebased[t] + 1>> : n \in kept}]
      /\ Goes(c, "relink")
      /\ UNCHANGED <<run, base, scan, made, merges, crashes>>

(* The checks have passed on the rebased worktree: its commit is recorded and  *)
(* approveRun() starts over.                                                  *)
Relink(c) ==
  LET r == call[c].run  t == Tree(r)
      row == IF t \in tree THEN [run[r] EXCEPT !.commit = branch[t]] ELSE run[r]
  IN  /\ call[c].pc = "relink"
      /\ run' = [run EXCEPT ![r] = row]
      /\ IF MayApprove(r) THEN call' = [call EXCEPT ![c].pc = "context", ![c].seen = row.commit]
                          ELSE Returns(c)
      /\ UNCHANGED <<branch, tree, base, scan, made, merges, rebased, crashes>>

--------------------------------------------------------------------------------
(* mergeApprovedRun() and mergeViaLocalBranch().                              *)

(* With its worktree gone, a run is merged by its recorded branch.            *)
Context(c) ==
  LET r == call[c].run  t == Tree(r)
  IN  /\ call[c].pc = "context"
      /\ IF t \in tree
         THEN /\ run' = [run EXCEPT ![r].commit = branch[t]]
              /\ call' = [call EXCEPT ![c].pc = "check", ![c].path = TRUE, ![c].seen = branch[t]]
         ELSE Goes(c, "check") /\ UNCHANGED run
      /\ UNCHANGED <<branch, tree, base, scan, made, merges, rebased, crashes>>

(* assertBranchContainsBase.                                                  *)
Check(c) ==
  /\ call[c].pc = "check" /\ base \subseteq branch[Tree(call[c].run)]
  /\ Goes(c, "ahead")
  /\ UNCHANGED <<run, branch, tree, base, scan, made, merges, rebased, crashes>>

(* assertHeadHasCommitsAheadOfBase, then that the branch has the recorded      *)
(* commit.                                                                    *)
Ahead(c) ==
  LET b == branch[Tree(call[c].run)]
  IN  /\ call[c].pc = "ahead" /\ ~(b \subseteq base) /\ call[c].seen \subseteq b
      /\ Goes(c, "head")
      /\ UNCHANGED <<run, branch, tree, base, scan, made, merges, rebased, crashes>>

(* The head before the merge.  What is not read again is forgotten.           *)
PreMergeHead(c) ==
  LET strict == call[c].kind = "unattended"
  IN  /\ call[c].pc = "head"
      /\ call' = [call EXCEPT ![c].pc = "merge", ![c].pre = IF strict THEN base ELSE {},
                             ![c].seen = IF strict THEN @ ELSE {}]
      /\ UNCHANGED <<run, branch, tree, base, scan, made, merges, rebased, crashes>>

\* Mutant: a merge that conflicts is taken for one that went through.
GitMergeUnchecked(c) ==
  /\ call[c].pc = "merge"
  /\ \/ /\ merges < MaxMerges
        /\ merges' = merges + 1
        /\ base' = base \cup branch[Tree(call[c].run)] \cup {<<0, merges + 1, 0>>}
     \/ UNCHANGED <<base, merges>>
  /\ Goes(c, "record")
  /\ UNCHANGED <<run, branch, tree, scan, made, rebased, crashes>>

(* git merge --no-ff; "already up to date" is a success.                      *)
GitMerge(c) ==
  LET b == branch[Tree(call[c].run)]
  IN  /\ call[c].pc = "merge" /\ b # {}
      /\ IF b \subseteq base
         THEN UNCHANGED <<base, merges>>
         ELSE /\ merges < MaxMerges
              /\ merges' = merges + 1
              /\ base' = base \cup b \cup {<<0, merges + 1, 0>>}
      /\ Goes(c, "record")
      /\ UNCHANGED <<run, branch, tree, scan, made, rebased, crashes>>

\* The runs finalizeSuccessfulMerge() will end because they share the worktree.
Sharing(c) == IF call[c].path THEN {s \in LineageOf(Tree(call[c].run)) \ {call[c].run} : Live(s)} ELSE {}
Finalizes(c) == call' = [call EXCEPT ![c].pc = "kill", ![c].kills = Sharing(c),
                                     ![c].seen = {}, ![c].pre = {}]

(* The commit the checkout is at is recorded as the run's, if it can be read.  *)
Record(c) ==
  /\ call[c].pc = "record"
  /\ run' \in {run, [run EXCEPT ![call[c].run].commit = base]}
  /\ IF Push THEN Goes(c, "push") ELSE Finalizes(c)
  /\ UNCHANGED <<branch, tree, base, scan, made, merges, rebased, crashes>>

PushDone(c) ==
  /\ call[c].pc = "push"
  /\ Finalizes(c)
  /\ UNCHANGED <<run, branch, tree, base, scan, made, merges, rebased, crashes>>

(* Only an unattended approval minds a push that fails.                       *)
PushFails(c) ==
  /\ call[c].pc = "push" /\ call[c].kind = "unattended"
  /\ Goes(c, "rollback")
  /\ UNCHANGED <<run, branch, tree, base, scan, made, merges, rebased, crashes>>

\* Mutant: after the rollback the run is finalized all the same.
RollbackAndShip(c) ==
  /\ call[c].pc = "rollback"
  /\ base' = call[c].pre
  /\ run' = [run EXCEPT ![call[c].run].commit = call[c].seen]
  /\ Finalizes(c)
  /\ UNCHANGED <<branch, tree, scan, made, merges, rebased, crashes>>

(* git reset --hard to the head read before the merge.                        *)
Rollback(c) ==
  /\ call[c].pc = "rollback"
  /\ base' = call[c].pre
  /\ run' = [run EXCEPT ![call[c].run].commit = call[c].seen]
  /\ Returns(c)
  /\ UNCHANGED <<branch, tree, scan, made, merges, rebased, crashes>>

(* The reset fails: the merge stays, under a run that still asks for approval. *)
RollbackFails(c) ==
  /\ call[c].pc = "rollback" /\ crashes < MaxCrashes
  /\ crashes' = crashes + 1
  /\ Returns(c)
  /\ UNCHANGED <<run, branch, tree, base, scan, made, merges, rebased>>

(* A command fails, a check refuses, a merge or a rebase conflicts: only the    *)
(* failure's text is kept.                                                    *)
GitFails(c) ==
  /\ call[c].pc \in {"rebase", "relink", "context", "check", "ahead", "head", "merge"}
  /\ Returns(c)
  /\ UNCHANGED <<run, branch, tree, base, scan, made, merges, rebased, crashes>>

--------------------------------------------------------------------------------
(* finalizeSuccessfulMerge().                                                 *)

Kill(c) ==
  /\ call[c].pc = "kill"
  /\ \E s \in call[c].kills :
       /\ run' = [run EXCEPT ![s] = Done(@)]
       /\ call' = [call EXCEPT ![c].kills = @ \ {s}]
  /\ UNCHANGED <<branch, tree, base, scan, made, merges, rebased, crashes>>

RemoveTree(c) ==
  LET t == Tree(call[c].run)
  IN  /\ call[c].pc = "kill" /\ call[c].kills = {}
      /\ tree' \in {tree} \cup (IF call[c].path THEN {tree \ {t}} ELSE {})
      /\ Goes(c, "branch")
      /\ UNCHANGED <<run, branch, base, scan, made, merges, rebased, crashes>>

(* git branch -D, which git refuses while a worktree has the branch out.       *)
DropBranch(c) ==
  LET t == Tree(call[c].run)
  IN  /\ call[c].pc = "branch"
      /\ branch' \in {branch} \cup (IF t \in tree THEN {} ELSE {[branch EXCEPT ![t] = {}]})
      /\ Goes(c, "finish")
      /\ UNCHANGED <<run, tree, base, scan, made, merges, rebased, crashes>>

\* Mutant: a run that ended while it was merged stays as it ended.
FinishIfOpen(c) ==
  LET r == call[c].run
  IN  /\ call[c].pc = "finish"
      /\ run' = [s \in Run |-> IF s \in Ancestors[r] /\ Live(s) THEN Done(run[s]) ELSE run[s]]
      /\ Returns(c)
      /\ UNCHANGED <<branch, tree, base, scan, made, merges, rebased, crashes>>

(* The run is done, with the runs above it that are still open.               *)
Finish(c) ==
  LET r == call[c].run
      R == [run EXCEPT ![r] = Done(@)]
  IN  /\ call[c].pc = "finish"
      /\ run' = [s \in Run |->
                   IF s \in Ancestors[r] /\ Open(R[s]) THEN Done(R[s])
                   ELSE IF s \in Ancestors[r] /\ R[s].stage = "done" THEN [R[s] EXCEPT !.pending = FALSE]
                   ELSE R[s]]
      /\ Returns(c)
      /\ UNCHANGED <<branch, tree, base, scan, made, merges, rebased, crashes>>

--------------------------------------------------------------------------------
(* reconcileSinglePass(): everything but git is judged by the rows read first. *)

OpenBelow(r, rows) == {s \in Descendants(r) : Open(rows[s])}

(* The latch of a run that is done is cleared.                                *)
StartScan ==
  /\ scan.next = 0 /\ MayStart("reconcile")
  /\ scan' = [next |-> 1, rows |-> run, closed |-> {}]
  /\ run' = [r \in Run |-> IF run[r].pending /\ run[r].stage = "done" THEN [run[r] EXCEPT !.pending = FALSE] ELSE run[r]]
  /\ UNCHANGED <<branch, tree, base, call, made, merges, rebased, crashes>>

\* Mutant: what awaits an approval is left to the operator.
ZombieUnasked(r) ==
  LET row == scan.rows[r]
  IN  /\ Open(row) /\ ~row.pending /\ OpenBelow(r, scan.rows) = {}
      /\ row.commit # {} /\ row.commit \subseteq base

Zombie(r) ==
  LET row == scan.rows[r]
  IN  Open(row) /\ OpenBelow(r, scan.rows) = {} /\ row.commit # {} /\ row.commit \subseteq base

(* A run whose recorded commit is on the base branch is done, and so are the   *)
(* runs above it.                                                             *)
ScanRun ==
  LET r == scan.next
  IN  /\ r \in Run
      /\ IF Zombie(r)
         THEN /\ run' = [s \in Run |-> IF s = r \/ (s \in Ancestors[r] /\ Live(s)) THEN Done(run[s]) ELSE run[s]]
              /\ scan' = [scan EXCEPT !.next = r + 1, !.closed = @ \cup {r}]
         ELSE scan' = [scan EXCEPT !.next = r + 1] /\ UNCHANGED run
      /\ UNCHANGED <<branch, tree, base, call, made, merges, rebased, crashes>>

(* Follow-ups still open under a run that awaits approval are done.  A run     *)
(* without a session that nobody works for is orphaned, if its heartbeat has   *)
(* run out.                                                                   *)
EndScan ==
  LET rows == scan.rows
      asks == {r \in Run : Open(rows[r]) /\ rows[r].stage = "ship" /\ rows[r].pending}
      below == (UNION {OpenBelow(r, rows) : r \in asks}) \ scan.closed
      still == {r \in Run \ (scan.closed \cup below) :
                  /\ Open(rows[r]) /\ ~rows[r].pending /\ rows[r].stage = "ship"
                  /\ OpenBelow(r, rows) = {}}
  IN  /\ scan.next = MaxRuns + 1
      /\ \E orphans \in SUBSET still :
           run' = [r \in Run |-> IF r \in below THEN Done(run[r])
                                 ELSE IF r \in orphans THEN Failed(run[r]) ELSE run[r]]
      /\ scan' = Resting
      /\ UNCHANGED <<branch, tree, base, call, made, merges, rebased, crashes>>

(* The server stops: every suspended call is lost.                            *)
Crash ==
  /\ crashes < MaxCrashes
  /\ crashes' = crashes + 1
  /\ call' = [c \in Calls |-> Idle] /\ scan' = Resting
  /\ UNCHANGED <<run, branch, tree, base, made, merges, rebased>>

--------------------------------------------------------------------------------
Operator ==
  \/ \E r \in Run : Reject(r)
  \/ \E c \in Calls, r \in Run : Approve(c, r) \/ ApproveUnattended(c, r) \/ ApproveRebase(c, r)
  \/ StartScan

Steps(c) ==
  \/ Policy(c) \/ PolicyAllows(c) \/ PolicyStops(c)
  \/ Rebase(c) \/ Relink(c)
  \/ Context(c) \/ Check(c) \/ Ahead(c) \/ PreMergeHead(c) \/ GitMerge(c) \/ Record(c)
  \/ PushDone(c) \/ PushFails(c) \/ Rollback(c) \/ RollbackFails(c) \/ GitFails(c)
  \/ Kill(c) \/ RemoveTree(c) \/ DropBranch(c) \/ Finish(c)

Next ==
  \/ \E r \in Run : Work(r) \/ AskApproval(r) \/ Conclude(r)
  \/ Operator
  \/ \E c \in Calls : Steps(c)
  \/ ScanRun \/ EndScan
  \/ Crash

Spec == Init /\ [][Next]_vars

\* A suspended call goes on, and the operator reconciles now and then.
FairSpec == /\ Spec
            /\ \A c \in Calls : WF_vars(Steps(c))
            /\ WF_vars(ScanRun \/ EndScan)
            /\ SF_vars(StartScan)
--------------------------------------------------------------------------------
Landed(t) == made[t] > 0 /\ \A n \in 1 .. made[t] : \E g \in 0 .. MaxRebases : <<t, n, g>> \in base

(* A root run is done only while all the work of its lineage is on the base     *)
(* branch: no rollback of a failed push and no repair leaves it done without.   *)
(* (The rollback in mergeViaLocalBranch, markDone in finalizeSuccessfulMerge     *)
(* and in reconcileSinglePass.)                                               *)
DoneMeansLanded ==
  \A t \in Roots : run[t].stage = "done" /\ run[t].term = "none" => Landed(t)

(* A branch is deleted only once all that was committed on it is on the base    *)
(* branch, whatever approvals of the same lineage run beside one another.      *)
(* (finalizeSuccessfulMerge removes the worktree by force and the branch by -D.) *)
NoWorkLost == \A t \in Roots : branch[t] = {} => Landed(t)

(* With no call under way, no crash and no failed reset so far, rows and git agree: work is on *)
(* the base branch exactly when a run of its lineage was merged, also when the  *)
(* run was rejected while its merge was under way, and nothing of that lineage  *)
(* is open any more.  (approveRun looks at no row again after its first checks.)  *)
VerdictsAgree ==
  InFlight = {} /\ crashes = 0 =>
    \A t \in Roots :
      Landed(t) => \E r \in LineageOf(t) : /\ run[r].stage = "done" /\ run[r].term = "none"
                                          /\ \A s \in LineageOf(t) : ~Live(s)

(* Once work is on the base branch, its lineage is closed sooner or later, even  *)
(* if a crash hits between the merge and the rows: a reconcile finds the merge,  *)
(* unless the operator rejected the run of the merge in the meantime.          *)
(* (findMergeCommitForRun by the recorded commit, whichever was recorded last.) *)
Refused(r) == run[r].stage = "ship" /\ run[r].term = "failed"
LandedIsClosed ==
  \A t \in Roots : Landed(t) ~> (~Landed(t) \/ (\A r \in LineageOf(t) : ~Live(r))
                                 \/ \E r \in LineageOf(t) : Refused(r))

(* A branch that does not contain the base branch is not merged: what lands was  *)
(* verified and reviewed on top of what was there.  (assertBranchContainsBase.)  *)
StaleNeverMerges ==
  [][\A t \in Roots : Landed(t)' /\ ~Landed(t) /\ base \subseteq base' => base \subseteq branch[t]]_vars

(* An approval, whatever its git commands, the calls beside it and the crashes   *)
(* between them, lands the work of a lineage all at once; no session commits to   *)
(* a lineage that has landed, a root run is done only while its lineage's work is *)
(* there, and no rollback takes that work away again.  (mergeViaLocalBranch with   *)
(* its rollback, finalizeSuccessfulMerge, reconcileSinglePass.)                *)
Promise == INSTANCE Landing WITH
  Lineage <- Roots,
  Parts <- 1 .. MaxCommits,
  Revocable <- Push,
  work <- [t \in Roots |-> 1 .. made[t]],
  landed <- [t \in Roots |-> {n \in 1 .. made[t] : \E g \in 0 .. MaxRebases : <<t, n, g>> \in base}],
  closed <- {t \in Roots : run[t].stage = "done" /\ run[t].term = "none"}

ImplementsLanding == Promise!Spec
================================================================================
