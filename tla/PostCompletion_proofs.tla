------------------------- MODULE PostCompletion_proofs -------------------------
(***************************************************************************)
(* For any bounds, any operator calls and any answers about reviewers: the   *)
(* types, that two agents never work in one worktree, that a lineage is not  *)
(* fixed more often than maxFixIterations and forms one line of work; and,   *)
(* until an operator retries a run, that one step of the lineage goes on at  *)
(* a time, that nobody works in a worktree while its branch is merged, and   *)
(* that only commits are merged that a review has passed, or nobody was      *)
(* there to review.                                                          *)
(***************************************************************************)
EXTENDS PostCompletion, FiniteSetTheorems, WellFoundedInduction, TLAPS

USE LineageBoundsAssumption

--------------------------------------------------------------------------------
(* The newest of some runs, and the chain of parents.                          *)

LEMMA Least ==
  ASSUME NEW S \in SUBSET Nat, S # {}
  PROVE  \E m \in S : \A k \in S : m <= k
<1>1. \E m \in S : \A k \in S : <<k, m>> \notin OpToRel(<, Nat)
  BY NatLessThanWellFounded, WFMin
<1>2. PICK m \in S : \A k \in S : ~(k < m)
  BY <1>1 DEF OpToRel
<1>3. \A k \in S : m <= k
  BY <1>2
<1> QED BY <1>3

LEMMA LatestIs ==
  ASSUME NEW S \in SUBSET Run, S # {}
  PROVE  Latest(S) \in S /\ \A j \in S : j <= Latest(S)
<1> DEFINE F == {n \in Nat : \E j \in S : n = MaxRuns - j}
<1>1. F \in SUBSET Nat /\ F # {}
  <2>1. PICK j \in S : TRUE
    OBVIOUS
  <2>2. MaxRuns - j \in Nat
    BY <2>1 DEF Run
  <2> QED BY <2>1, <2>2
<1> HIDE DEF F
<1>2. PICK m \in F : \A k \in F : m <= k
  BY <1>1, Least
<1>3. PICK i \in S : m = MaxRuns - i
  BY <1>2 DEF F
<1>4. \A j \in S : j <= i
  <2> SUFFICES ASSUME NEW j \in S PROVE j <= i
    OBVIOUS
  <2>1. i \in Nat /\ j \in Nat /\ MaxRuns - j \in Nat /\ MaxRuns \in Nat
    BY DEF Run
  <2>2. MaxRuns - j \in F
    BY <2>1 DEF F
  <2>3. MaxRuns - i <= MaxRuns - j
    BY <1>2, <1>3, <2>2
  <2> QED BY <2>1, <2>3
<1> QED BY <1>4 DEF Latest

\* The chain grows by the parents of all it holds.
Parents(S) == S \cup ({run[j].par : j \in S} \ {0})
ChainOf(f, i) == f = [n \in 0 .. MaxRuns |-> IF n = 0 THEN {i} ELSE Parents(f[n - 1])]

LEMMA ChainDefined ==
  ASSUME NEW i
  PROVE  \E f : ChainOf(f, i) /\ Chain(i) = f[MaxRuns]
<1> DEFINE Part(f, m) == f = [n \in 0 .. m |-> IF n = 0 THEN {i} ELSE Parents(f[n - 1])]
           S == {m \in Nat : ~\E f : Part(f, m)}
<1>1. S = {}
  <2> SUFFICES ASSUME S # {} PROVE FALSE
    OBVIOUS
  <2>1. PICK n \in S : \A k \in S : n <= k
    <3>1. S \in SUBSET Nat
      OBVIOUS
    <3> HIDE DEF S
    <3> QED BY <3>1, Least
  <2>2. CASE n = 0
    <3>1. Part([k \in 0 .. 0 |-> {i}], 0)
      OBVIOUS
    <3> QED BY <2>2, <3>1
  <2>3. CASE n # 0
    <3>1. n - 1 \in Nat /\ ~(n <= n - 1)
      BY <2>3
    <3>2. PICK f : Part(f, n - 1)
      BY <2>1, <3>1
    <3> DEFINE g == [k \in 0 .. n |-> IF k = n THEN Parents(f[n - 1]) ELSE f[k]]
    <3>3. Part(g, n)
      <4>1. ASSUME NEW k \in 0 .. n
            PROVE  g[k] = IF k = 0 THEN {i} ELSE Parents(g[k - 1])
        <5>1. CASE k = n
          BY <2>3, <3>1, <5>1
        <5>2. CASE k # n /\ k # 0
          <6>1. k \in 0 .. n - 1 /\ k - 1 \in 0 .. n - 1 /\ k - 1 # n /\ k - 1 \in 0 .. n
            BY <5>2
          <6>2. f[k] = Parents(f[k - 1])
            BY <3>2, <5>2, <6>1
          <6> QED BY <5>2, <6>1, <6>2
        <5>3. CASE k # n /\ k = 0
          BY <3>1, <3>2, <5>3
        <5> QED BY <5>1, <5>2, <5>3
      <4> QED BY <4>1
    <3> QED BY <3>3
  <2> QED BY <2>2, <2>3
<1>2. \E f : Part(f, MaxRuns)
  BY <1>1
<1> QED BY <1>2 DEF Chain, ChainOf, Parents

\* The chain stays in a set that holds the parents of its members.
LEMMA ChainWithin ==
  ASSUME NEW i, NEW S, i \in S, \A j \in S : run[j].par = 0 \/ run[j].par \in S
  PROVE  i \in Chain(i) /\ Chain(i) \subseteq S
<1>1. PICK f : ChainOf(f, i) /\ Chain(i) = f[MaxRuns]
  BY ChainDefined
<1> DEFINE B == {n \in 0 .. MaxRuns : ~(i \in f[n] /\ f[n] \subseteq S)}
<1>2. B = {}
  <2> SUFFICES ASSUME B # {} PROVE FALSE
    OBVIOUS
  <2>1. PICK n \in B : \A k \in B : n <= k
    <3>1. B \in SUBSET Nat
      OBVIOUS
    <3> HIDE DEF B
    <3> QED BY <3>1, Least
  <2>2. n # 0
    BY <1>1 DEF ChainOf
  <2>3. n - 1 \in 0 .. MaxRuns /\ ~(n <= n - 1)
    BY <2>2
  <2>4. i \in f[n - 1] /\ f[n - 1] \subseteq S
    BY <2>1, <2>3
  <2>5. f[n] = Parents(f[n - 1])
    BY <1>1, <2>2 DEF ChainOf
  <2> QED BY <2>4, <2>5 DEF Parents
<1> QED BY <1>1, <1>2

LEMMA ChainAlone ==
  ASSUME NEW i, run[i].par = 0
  PROVE  Chain(i) = {i}
BY ChainWithin

--------------------------------------------------------------------------------
(* Rows of runs and tasks.                                                     *)

Stages == {"absent", "work", "ship", "done"}
Statuses == {"none", "ready", "active", "failed", "done"}
RunRow == [stage : Stages, term : Ended \cup {"none"}, task : Task, par : Run \cup {0}, tree : Run \cup {0},
           approval : BOOLEAN, complete : BOOLEAN, says : Verdicts \cup {"none"}, again : BOOLEAN]
TaskRow == [kind : {"none", "impl", "review", "fix"}, round : Nat, st : Statuses, retries : Nat, ver : Run \cup {0}]
CallRow == [pc : {"none", "release", "verify", "again", "review", "sync", "ship", "unreviewed", "unreviewedShip"},
            live : BOOLEAN, tst : Statuses, par : Run \cup {0}, root : Run \cup {0},
            rstage : {"none", "work", "ship", "done"}, rterm : Ended \cup {"none"}, ost : Statuses]

LEMMA TypeIs ==
  TypeOK <=> /\ run \in [Run -> RunRow] /\ task \in [Task -> TaskRow]
             /\ session \subseteq Run /\ boot \subseteq Run /\ retrying \subseteq Run
             /\ call \in [Run -> CallRow]
             /\ acall \in [Run -> {"none", "merge", "finalize"}]
             /\ head \in [Run -> Run \cup {0}]
             /\ cleared \subseteq Run /\ merged \subseteq Run
             /\ upsets \in Seq({"crash", "cancel", "reject", "retry"})
BY DEF TypeOK, RunRow, TaskRow, CallRow, Stages, Statuses

FollowUps == {"review", "fix"}

\* Runs and tasks are numbered in the order of their creation.
NumberedRuns == \A i \in Created : \A j \in Run : j < i => j \in Created
NumberedTasks == \A t, u \in Task : task[t].kind # "none" /\ u < t => task[u].kind # "none"

Tasks ==
  \A t \in Task :
    /\ task[t].kind = "impl" <=> t = Root
    /\ task[t].kind = "none" => task[t].st = "none"
    /\ task[t].kind = "review" => task[t].ver # 0
    /\ task[t].kind = "fix" => task[t].round <= MaxFix
    /\ task[t].kind \in FollowUps => \E i \in Created : run[i].task = Root

\* A run of the implementation has a worktree of its own, the others that of their parent.
Linked(i) ==
  /\ Kind(i) # "none" /\ run[i].tree \in Created
  /\ IF run[i].task = Root THEN run[i].par = 0 /\ run[i].tree = i
     ELSE /\ run[i].par \in Created /\ run[i].par < i
          /\ Kind(run[i].par) \in {"impl", "fix"}
          /\ run[i].tree = run[run[i].par].tree
AllLinked == \A i \in Created : Linked(i)
Unborn == \A i \in Run \ Created : ~run[i].approval
Rows == NumberedRuns /\ NumberedTasks /\ Tasks /\ AllLinked /\ Unborn

LEMMA Prefix ==
  ASSUME NEW n \in Nat, NEW S \in SUBSET (1 .. n), \A i \in S : \A j \in 1 .. n : j < i => j \in S
  PROVE  Cardinality(S) \in Nat /\ S = 1 .. Cardinality(S)
<1> DEFINE F == {m \in Nat : S \subseteq 1 .. m}
<1>1. F \in SUBSET Nat /\ F # {}
  <2>1. n \in F
    OBVIOUS
  <2> QED BY <2>1
<1> HIDE DEF F
<1>2. PICK m \in F : \A k \in F : m <= k
  BY <1>1, Least
<1>3. m \in Nat /\ S \subseteq 1 .. m
  BY <1>2 DEF F
<1>4. S = 1 .. m
  <2>1. CASE m = 0
    BY <1>3, <2>1
  <2>2. CASE m # 0
    <3>1. m - 1 \in Nat /\ ~(m <= m - 1)
      BY <1>3, <2>2
    <3>2. ~(S \subseteq 1 .. m - 1)
      BY <1>2, <3>1 DEF F
    <3>3. PICK i \in S : i \notin 1 .. m - 1
      BY <3>2
    <3>4. i = m
      BY <1>3, <3>3
    <3>5. \A j \in 1 .. m : j \in S
      BY <1>3, <3>3, <3>4
    <3> QED BY <1>3, <3>5
  <2> QED BY <2>1, <2>2
<1>5. Cardinality(1 .. m) = m
  <2>1. 1 \in Int /\ m \in Int /\ 1 <= m + 1
    BY <1>3
  <2>2. Cardinality(1 .. m) = IF 1 > m THEN 0 ELSE m - 1 + 1
    BY <2>1, FS_Interval
  <2> QED BY <1>3, <2>2
<1> QED BY <1>3, <1>4, <1>5

LEMMA FreshRunIs ==
  ASSUME NumberedRuns
  PROVE  FreshRun \in Nat \ {0} /\ \A i \in Run : i \in Created <=> i < FreshRun
<1>1. Created \in SUBSET (1 .. MaxRuns) /\ MaxRuns \in Nat
  BY DEF Created, Run
<1>2. Cardinality(Created) \in Nat /\ Created = 1 .. Cardinality(Created)
  BY <1>1, Prefix DEF NumberedRuns, Run
<1>3. \A i \in Run : i \in Nat /\ i >= 1
  BY DEF Run
<1> QED BY <1>2, <1>3 DEF FreshRun

LEMMA FreshTaskIs ==
  ASSUME NumberedTasks
  PROVE  FreshTask \in Nat \ {0} /\ \A t \in Task : task[t].kind # "none" <=> t < FreshTask
<1> DEFINE S == {t \in Task : task[t].kind # "none"}
<1>1. S \in SUBSET (1 .. MaxTasks) /\ MaxTasks \in Nat
  BY DEF Task
<1>2. \A t \in S : \A u \in 1 .. MaxTasks : u < t => u \in S
  BY DEF NumberedTasks, Task
<1>3. FreshTask = Cardinality(S) + 1
  BY DEF FreshTask
<1>4. \A t \in Task : t \in S <=> task[t].kind # "none"
  OBVIOUS
<1> HIDE DEF S
<1>5. Cardinality(S) \in Nat /\ S = 1 .. Cardinality(S)
  BY <1>1, <1>2, Prefix
<1>6. \A t \in Task : t \in Nat /\ t >= 1
  BY DEF Task
<1> QED BY <1>3, <1>4, <1>5, <1>6

LEMMA RootIsTask == Root \in Task
BY DEF Root, Task

\* What a step may do to the rows: no run and no task goes, a task may be added.
RunsKept(R) ==
  /\ R \in [Run -> RunRow]
  /\ \A i \in Run :
       /\ R[i].task = run[i].task /\ R[i].par = run[i].par /\ R[i].tree = run[i].tree
       /\ R[i].stage = "absent" <=> run[i].stage = "absent"
       /\ R[i].approval => run[i].approval \/ R[i].stage # "absent"
SameTask(row, old) ==
  /\ row.kind = old.kind /\ row.round = old.round /\ row.ver = old.ver
  /\ old.kind = "none" => row.st = old.st
NewTask(row) ==
  /\ row.kind \in FollowUps
  /\ row.kind = "review" => row.ver # 0
  /\ row.kind = "fix" => row.round <= MaxFix
TasksKept(T) ==
  /\ T \in [Task -> TaskRow]
  /\ \A t \in Task : SameTask(T[t], task[t]) \/ (t = FreshTask /\ NewTask(T[t]))

LEMMA FirstIsRoot ==
  ASSUME TypeOK, Rows, Created # {}
  PROVE  \E i \in Created : run[i].task = Root
<1>1. Created \in SUBSET Nat /\ \A i \in Created : i \in Nat
  BY DEF Created, Run
<1>2. PICK i \in Created : \A j \in Created : i <= j
  BY <1>1, Least
<1>3. CASE run[i].task # Root
  <2>1. run[i].par \in Created /\ run[i].par < i /\ i \in Nat
    BY <1>1, <1>2, <1>3 DEF Rows, AllLinked, Linked
  <2>2. i <= run[i].par /\ run[i].par \in Nat
    BY <1>1, <1>2, <2>1
  <2> QED BY <2>1, <2>2
<1> QED BY <1>2, <1>3

LEMMA RowsKept ==
  ASSUME TypeOK, Rows, RunsKept(run'), TasksKept(task'), Created # {}
  PROVE  Rows'
<1>1. \A i \in Run : /\ run'[i].task = run[i].task /\ run'[i].par = run[i].par /\ run'[i].tree = run[i].tree
                     /\ run'[i].stage = "absent" <=> run[i].stage = "absent"
                     /\ run'[i].approval => run[i].approval \/ run'[i].stage # "absent"
                     /\ run[i].task \in Task
  BY TypeIs DEF RunsKept, RunRow
<1>2. Created' = Created
  BY <1>1 DEF Created
<1>3. \A t \in Task : task[t].kind # "none" <=> t < FreshTask
  BY FreshTaskIs DEF Rows
<1>4. FreshTask \in Nat \ {0} /\ \A t \in Task : t \in Nat
  BY FreshTaskIs DEF Rows, Task
<1>5. \A t \in Task : SameTask(task'[t], task[t]) \/ (task[t].kind = "none" /\ t = FreshTask /\ NewTask(task'[t]))
  BY <1>3, <1>4 DEF TasksKept
<1>6. NumberedRuns' /\ Unborn'
  BY <1>1, <1>2 DEF Rows, NumberedRuns, Unborn, Created
<1>7. NumberedTasks'
  <2> SUFFICES ASSUME NEW t \in Task, NEW u \in Task, task'[t].kind # "none", u < t
               PROVE  task'[u].kind # "none"
    BY DEF NumberedTasks
  <2>1. t <= FreshTask
    <3>1. CASE SameTask(task'[t], task[t])
      BY <1>3, <1>4, <3>1 DEF SameTask
    <3>2. CASE t = FreshTask
      BY <1>4, <3>2
    <3> QED BY <1>5, <3>1, <3>2
  <2>2. u < FreshTask
    BY <1>4, <2>1
  <2> QED BY <1>3, <1>5, <2>2 DEF SameTask, NewTask, FollowUps
<1>8. \E i \in Created : run'[i].task = Root
  BY FirstIsRoot, <1>1 DEF Created
<1>9. Tasks'
  <2> SUFFICES ASSUME NEW t \in Task
               PROVE  /\ task'[t].kind = "impl" <=> t = Root
                      /\ task'[t].kind = "none" => task'[t].st = "none"
                      /\ task'[t].kind = "review" => task'[t].ver # 0
                      /\ task'[t].kind = "fix" => task'[t].round <= MaxFix
    BY <1>2, <1>8 DEF Tasks
  <2>1. CASE SameTask(task'[t], task[t])
    BY <2>1 DEF SameTask, Rows, Tasks
  <2>2. CASE task[t].kind = "none" /\ NewTask(task'[t])
    BY <2>2 DEF NewTask, Rows, Tasks, FollowUps
  <2> QED BY <1>5, <2>1, <2>2
<1>10. ASSUME NEW i \in Created PROVE Linked(i)'
  <2>1. i \in Run /\ Linked(i)
    BY DEF Created, Rows, AllLinked
  <2>2. Kind(i)' = Kind(i)
    BY <1>1, <1>5, <2>1 DEF Kind, SameTask, Linked
  <2>3. CASE run[i].task = Root
    BY <1>1, <1>2, <2>1, <2>2, <2>3 DEF Linked
  <2>4. CASE run[i].task # Root
    <3>1. run[i].par \in Created /\ run[i].par \in Run /\ Linked(run[i].par)
      BY <2>1, <2>4 DEF Linked, Created, Rows, AllLinked
    <3>2. Kind(run[i].par)' = Kind(run[i].par)
      <4> DEFINE p == run[i].par
      <4>1. run'[i].par = p /\ run'[p].task = run[p].task /\ run[p].task \in Task /\ task[run[p].task].kind # "none"
        BY <1>1, <2>1, <3>1 DEF Kind, Linked
      <4> HIDE DEF p
      <4>2. task'[run[p].task].kind = task[run[p].task].kind
        BY <1>5, <4>1 DEF SameTask
      <4>3. task'[run'[p].task].kind = task[run[p].task].kind
        BY <4>1, <4>2
      <4> QED BY <4>1, <4>3 DEF Kind, p
    <3> QED BY <1>1, <1>2, <2>1, <2>2, <2>4, <3>1, <3>2 DEF Linked
  <2> QED BY <2>3, <2>4
<1> QED BY <1>2, <1>6, <1>7, <1>9, <1>10 DEF Rows, AllLinked

\* A row written for another: the run is the same one, and is offered only once it exists.
SameRun(row, old) ==
  /\ row \in RunRow
  /\ row.task = old.task /\ row.par = old.par /\ row.tree = old.tree /\ row.complete = old.complete
  /\ row.says = old.says
  /\ row.stage = "absent" <=> old.stage = "absent"
  /\ row.approval => old.approval \/ row.stage # "absent"

LEMMA RunWrites ==
  ASSUME NEW row \in RunRow
  PROVE  /\ SameRun(row, row)
         /\ SameRun(Failed(row), row) /\ SameRun(Stalled(row), row) /\ SameRun(Cancelled(row), row)
         /\ SameRun([row EXCEPT !.term = "quarantined"], row)
         /\ SameRun([row EXCEPT !.term = "failed"], row)
         /\ SameRun([row EXCEPT !.again = TRUE], row)
         /\ row.stage # "absent" => SameRun(Done(row), row) /\ SameRun(Advanced(row), row)
<1>1. SameRun(row, row)
  BY DEF SameRun
<1>2. SameRun(Failed(row), row)
  BY DEF SameRun, RunRow, Failed, Ended
<1>3. SameRun(Stalled(row), row)
  BY DEF SameRun, RunRow, Stalled, Ended
<1>4. SameRun(Cancelled(row), row)
  BY DEF SameRun, RunRow, Cancelled, Ended
<1>5. SameRun([row EXCEPT !.term = "quarantined"], row)
  BY DEF SameRun, RunRow, Ended
<1>6. SameRun([row EXCEPT !.term = "failed"], row)
  BY DEF SameRun, RunRow, Ended
<1>7. SameRun([row EXCEPT !.again = TRUE], row)
  BY DEF SameRun, RunRow
<1>8. ASSUME row.stage # "absent" PROVE SameRun(Done(row), row)
  BY <1>8 DEF SameRun, RunRow, Done, Ended, Stages
<1>9. ASSUME row.stage # "absent" PROVE SameRun(Advanced(row), row)
  <2>1. CASE row.stage = "done"
    BY <1>1, <2>1 DEF Advanced
  <2>2. CASE row.stage # "done"
    BY <1>9, <2>2 DEF SameRun, RunRow, Advanced, Stages
  <2> QED BY <2>1, <2>2
<1> QED BY <1>1, <1>2, <1>3, <1>4, <1>5, <1>6, <1>7, <1>8, <1>9

LEMMA SameRunAgain ==
  ASSUME NEW a, NEW b, NEW c, SameRun(b, a), SameRun(c, b)
  PROVE  SameRun(c, a)
BY DEF SameRun

Same(R) == R \in [Run -> RunRow] /\ \A i \in Run : SameRun(R[i], run[i])

LEMMA SameIsKept ==
  ASSUME NEW R, Same(R)
  PROVE  RunsKept(R)
BY DEF Same, SameRun, RunsKept

LEMMA SameSelf ==
  ASSUME TypeOK
  PROVE  Same(run)
BY RunWrites, TypeIs DEF Same

LEMMA SameExcept ==
  ASSUME NEW R, Same(R), NEW i \in Run, NEW row, SameRun(row, R[i])
  PROVE  Same([R EXCEPT ![i] = row])
<1>1. row \in RunRow /\ SameRun(row, run[i])
  BY SameRunAgain DEF Same, SameRun
<1> QED BY <1>1 DEF Same

LEMMA TaskWrites ==
  ASSUME NEW row \in TaskRow, NEW st \in Statuses \ {"none"}
  PROVE  /\ [row EXCEPT !.st = st] \in TaskRow
         /\ [row EXCEPT !.st = st].kind = row.kind /\ [row EXCEPT !.st = st].round = row.round
         /\ [row EXCEPT !.st = st].ver = row.ver
BY DEF TaskRow

LEMMA TasksSelf ==
  ASSUME TypeOK
  PROVE  TasksKept(task)
BY TypeIs DEF TasksKept, SameTask

LEMMA Marked ==
  ASSUME TypeOK, Rows, NEW T, TasksKept(T), NEW t \in Task, task[t].kind # "none", NEW row \in TaskRow,
         row.kind = T[t].kind, row.round = T[t].round, row.ver = T[t].ver
  PROVE  TasksKept([T EXCEPT ![t] = row])
<1>1. t # FreshTask
  BY FreshTaskIs DEF Rows
<1>2. SameTask(T[t], task[t])
  BY <1>1 DEF TasksKept
<1>3. SameTask(row, task[t])
  BY <1>2 DEF SameTask
<1> QED BY <1>3 DEF TasksKept

\* The status of a task that exists.
LEMMA Statused ==
  ASSUME TypeOK, Rows, NEW t \in Task, task[t].kind # "none", NEW st \in Statuses
  PROVE  TasksKept(TaskTo(t, st)) /\ TaskTo(t, st) = [task EXCEPT ![t].st = st]
<1>1. task[t] \in TaskRow
  BY TypeIs
<1> DEFINE row == [task[t] EXCEPT !.st = st]
<1>2. row \in TaskRow /\ row.kind = task[t].kind /\ row.round = task[t].round /\ row.ver = task[t].ver
  BY <1>1 DEF TaskRow
<1>3. TaskTo(t, st) = [task EXCEPT ![t] = row]
  BY DEF TaskTo
<1> HIDE DEF row
<1>4. TasksKept([task EXCEPT ![t] = row])
  BY <1>2, TasksSelf, Marked
<1> QED BY <1>3, <1>4 DEF TaskTo

LEMMA AddedKept ==
  ASSUME TypeOK, Rows, Room, NEW kind \in FollowUps, NEW round \in Nat, NEW ver \in Run \cup {0},
         kind = "review" => ver # 0, kind = "fix" => round <= MaxFix
  PROVE  TasksKept(Added(task, kind, round, ver))
<1> DEFINE row == [kind |-> kind, round |-> round, st |-> "ready", retries |-> 0, ver |-> ver]
<1>1. row \in TaskRow /\ NewTask(row)
  BY DEF TaskRow, NewTask, FollowUps, Statuses
<1>2. Added(task, kind, round, ver) = [task EXCEPT ![FreshTask] = row]
  BY DEF Added
<1> HIDE DEF row
<1>3. TasksKept([task EXCEPT ![FreshTask] = row])
  BY <1>1, TasksSelf DEF TasksKept
<1> QED BY <1>2, <1>3

--------------------------------------------------------------------------------
(* The inductive invariant, and what a step that creates no run has to show.   *)

\* A suspended call is that of a completed run.
RoutedBy(i, c) ==
  c.pc # "none" =>
    /\ i \in Created /\ run[i].complete
    /\ c.pc \notin {"release", "sync", "ship"} => Kind(i) # "review"
    /\ c.pc \in {"sync", "ship"} => c.par \in Created /\ c.root \in Created
Memory ==
  /\ session \subseteq Created /\ boot \subseteq Created /\ retrying \subseteq Created
  /\ \A i \in Run : RoutedBy(i, call[i])
  /\ \A i \in Run : acall[i] # "none" => i \in Created
Heads == \A i \in Created : run[i].complete /\ Kind(i) # "review" => head[run[i].tree] # 0
Inv == TypeOK /\ Rows /\ Memory /\ Heads /\ OneSessionPerTree

\* What the rows say of a run that exists.
LEMMA Kinds ==
  ASSUME TypeOK, Rows, NEW i \in Created
  PROVE  /\ i \in Run /\ run[i] \in RunRow /\ run[i].stage # "absent" /\ run[i].task \in Task
         /\ run[i].task < FreshTask /\ run[i].task # FreshTask /\ task[run[i].task] \in TaskRow
         /\ Kind(i) = task[run[i].task].kind /\ Kind(i) \in {"impl", "review", "fix"}
         /\ Kind(i) = "impl" <=> run[i].task = Root
         /\ run[i].tree \in Created /\ run[i].tree \in Run
         /\ Kind(i) = "impl" => run[i].par = 0 /\ run[i].tree = i
         /\ Kind(i) # "impl" => /\ run[i].par \in Created /\ run[i].par < i
                                /\ Kind(run[i].par) \in {"impl", "fix"}
                                /\ run[i].tree = run[run[i].par].tree
<1>1. i \in Run /\ run[i] \in RunRow /\ run[i].stage # "absent" /\ Linked(i)
  BY TypeIs DEF Created, Rows, AllLinked
<1>2. run[i].task \in Task /\ Kind(i) = task[run[i].task].kind
  BY <1>1 DEF RunRow, Kind
<1>3. task[run[i].task] \in TaskRow /\ Kind(i) \in {"impl", "review", "fix"}
  <2>1. task[run[i].task] \in TaskRow
    BY <1>2, TypeIs
  <2> QED BY <1>1, <1>2, <2>1 DEF Linked, TaskRow
<1>4. run[i].task < FreshTask /\ run[i].task # FreshTask
  <2>1. run[i].task < FreshTask
    BY <1>1, <1>2, FreshTaskIs DEF Rows, Linked
  <2> QED BY <1>2, <2>1 DEF Task
<1>5. Kind(i) = "impl" <=> run[i].task = Root
  BY <1>2 DEF Rows, Tasks
<1>6. run[i].tree \in Created /\ run[i].tree \in Run
  BY <1>1 DEF Linked, Created
<1> QED BY <1>1, <1>2, <1>3, <1>4, <1>5, <1>6 DEF Linked

\* The chain of a run are runs, and so is its root.
LEMMA ChainIs ==
  ASSUME TypeOK, Rows, NEW i \in Created
  PROVE  /\ i \in Chain(i) /\ Chain(i) \subseteq Created
         /\ RootOf(i) \in Chain(i) /\ RootOf(i) \in Created /\ (\A j \in Chain(i) : RootOf(i) <= j)
         /\ FixRuns(i) \in Nat
         /\ Kind(i) = "impl" => Chain(i) = {i} /\ FixRuns(i) = 0
<1>1. \A j \in Created : run[j].par = 0 \/ run[j].par \in Created
  BY Kinds
<1>2. i \in Chain(i) /\ Chain(i) \subseteq Created
  BY <1>1, ChainWithin
<1>3. RootOf(i) \in Chain(i) /\ \A j \in Chain(i) : RootOf(i) <= j
  <2>1. Chain(i) \in SUBSET Nat /\ Chain(i) # {}
    BY <1>2 DEF Created, Run
  <2>2. \E j \in Chain(i) : \A k \in Chain(i) : j <= k
    BY <2>1, Least
  <2> QED BY <2>2 DEF RootOf
<1>4. FixRuns(i) \in Nat
  <2>1. IsFiniteSet(1 .. MaxRuns)
    BY FS_Interval
  <2>2. {j \in Chain(i) : Kind(j) = "fix"} \subseteq 1 .. MaxRuns
    BY <1>2 DEF Created, Run
  <2> QED BY <2>1, <2>2, FS_Subset, FS_CardinalityType DEF FixRuns
<1>5. ASSUME Kind(i) = "impl" PROVE Chain(i) = {i} /\ FixRuns(i) = 0
  <2>1. Chain(i) = {i}
    BY <1>5, Kinds, ChainAlone
  <2>2. {j \in Chain(i) : Kind(j) = "fix"} = {}
    BY <1>5, <2>1
  <2> QED BY <2>1, <2>2, FS_EmptySet DEF FixRuns
<1> QED BY <1>2, <1>3, <1>4, <1>5

\* What a step that creates no run keeps.
Kept == Inv' /\ Same(run') /\ TasksKept(task')

LEMMA Step ==
  ASSUME Inv, Same(run'), TasksKept(task'), Created # {},
         session' \subseteq session, boot' \subseteq Created, retrying' \subseteq Created,
         call' \in [Run -> CallRow], \A i \in Run : RoutedBy(i, call'[i]),
         acall' \in [Run -> {"none", "merge", "finalize"}], \A i \in Run : acall'[i] # "none" => i \in Created,
         head' = head, cleared' \subseteq Run, merged' \subseteq Run,
         upsets' \in Seq({"crash", "cancel", "reject", "retry"})
  PROVE  Kept
<1> USE DEF Inv
<1>1. \A i \in Run : /\ run'[i].task = run[i].task /\ run'[i].tree = run[i].tree
                     /\ run'[i].complete = run[i].complete
                     /\ run'[i].stage = "absent" <=> run[i].stage = "absent"
  BY DEF Same, SameRun
<1>2. Created' = Created /\ Created \subseteq Run
  BY <1>1 DEF Created
<1>3. Rows'
  BY RowsKept, SameIsKept
<1>4. TypeOK'
  <2>1. run' \in [Run -> RunRow] /\ task' \in [Task -> TaskRow]
    BY DEF Same, TasksKept
  <2>2. session' \subseteq Run /\ boot' \subseteq Run /\ retrying' \subseteq Run /\ head' \in [Run -> Run \cup {0}]
    BY <1>2, TypeIs
  <2> QED BY <2>1, <2>2 DEF TypeOK, RunRow, TaskRow, CallRow, Stages, Statuses
<1>5. \A i \in Created : Kind(i)' = Kind(i)
  <2> SUFFICES ASSUME NEW i \in Created PROVE Kind(i)' = Kind(i)
    OBVIOUS
  <2>1. i \in Run /\ run[i].task \in Task /\ run[i].task # FreshTask
    BY Kinds
  <2>2. SameTask(task'[run[i].task], task[run[i].task])
    BY <2>1 DEF TasksKept
  <2> QED BY <1>1, <2>1, <2>2 DEF Kind, SameTask
<1>6. Memory'
  <2>1. ASSUME NEW i \in Run PROVE RoutedBy(i, call[i])'
    <3>1. RoutedBy(i, call'[i])
      OBVIOUS
    <3> QED BY <1>1, <1>2, <1>5, <3>1 DEF RoutedBy
  <2> QED BY <1>2, <2>1 DEF Memory
<1>7. Heads'
  <2>1. \A i \in Created : run'[i].tree = run[i].tree /\ run'[i].complete = run[i].complete
    BY <1>1, <1>2
  <2> QED BY <1>2, <1>5, <2>1 DEF Heads
<1>8. OneSessionPerTree'
  <2>1. session \subseteq Run
    BY DEF TypeOK
  <2> QED BY <1>1, <2>1 DEF OneSessionPerTree
<1> QED BY <1>3, <1>4, <1>6, <1>7, <1>8 DEF Kept

\* Calls: one returns or waits, the others are as they were.
LEMMA IdleIs == Idle \in CallRow /\ Idle.pc = "none" /\ Idle.live = FALSE
BY DEF Idle, CallRow, Statuses

LEMMA CallSame ==
  ASSUME Inv, UNCHANGED call
  PROVE  call' \in [Run -> CallRow] /\ \A i \in Run : RoutedBy(i, call'[i])
BY TypeIs DEF Inv, Memory

LEMMA CallOne ==
  ASSUME Inv, NEW i \in Run, NEW c \in CallRow, RoutedBy(i, c), call' = [call EXCEPT ![i] = c]
  PROVE  call' \in [Run -> CallRow] /\ \A j \in Run : RoutedBy(j, call'[j])
BY TypeIs DEF Inv, Memory

LEMMA Returned ==
  ASSUME Inv, NEW i \in Run, Return(i)
  PROVE  call' \in [Run -> CallRow] /\ \A j \in Run : RoutedBy(j, call'[j])
<1>1. RoutedBy(i, Idle)
  BY IdleIs DEF RoutedBy
<1> QED BY <1>1, IdleIs, CallOne DEF Return

\* What a suspended call is about.
LEMMA Called ==
  ASSUME Inv, NEW i \in Run, call[i].pc # "none"
  PROVE  /\ i \in Created /\ run[i].complete /\ call[i] \in CallRow /\ Created # {}
         /\ call[i].pc \notin {"release", "sync", "ship"} => Kind(i) # "review"
         /\ call[i].pc \in {"sync", "ship"} => call[i].par \in Created /\ call[i].root \in Created
<1>1. RoutedBy(i, call[i]) /\ call[i] \in CallRow
  BY TypeIs DEF Inv, Memory
<1> QED BY <1>1 DEF RoutedBy

LEMMA Waited ==
  ASSUME Inv, NEW i \in Run, call[i].pc # "none", Kind(i) # "review" \/ call[i].pc \in {"sync", "ship"},
         NEW pc \in {"verify", "again", "review", "unreviewed", "unreviewedShip", "ship"},
         pc = "ship" <=> call[i].pc \in {"sync", "ship"}, Wait(i, pc)
  PROVE  call' \in [Run -> CallRow] /\ \A j \in Run : RoutedBy(j, call'[j])
<1> DEFINE c == [call[i] EXCEPT !.pc = pc]
<1>1. c \in CallRow /\ c.pc = pc /\ c.par = call[i].par /\ c.root = call[i].root
  BY Called DEF CallRow
<1>2. call' = [call EXCEPT ![i] = c]
  BY DEF Wait
<1> HIDE DEF c
<1>3. RoutedBy(i, c)
  BY <1>1, Called DEF RoutedBy
<1> QED BY <1>1, <1>2, <1>3, CallOne

\* A step of a call, or of what looks after runs: it leaves approvals, retries and commits alone.
LEMMA Turn ==
  ASSUME Inv, Same(run'), TasksKept(task'), Created # {},
         session' \subseteq session, boot' \subseteq boot,
         call' \in [Run -> CallRow], \A i \in Run : RoutedBy(i, call'[i]),
         cleared' \subseteq Run, UNCHANGED <<acall, retrying, head, merged, upsets>>
  PROVE  Kept
<1>1. /\ boot' \subseteq Created /\ retrying' \subseteq Created
      /\ acall' \in [Run -> {"none", "merge", "finalize"}]
      /\ (\A i \in Run : acall'[i] # "none" => i \in Created)
      /\ merged' \subseteq Run /\ upsets' \in Seq({"crash", "cancel", "reject", "retry"})
  BY DEF Inv, Memory, TypeOK
<1>2. head' = head
  OBVIOUS
<1> QED BY <1>1, <1>2, Step

\* One row of a run, or one of a task, is written.
LEMMA OneRun ==
  ASSUME Inv, NEW i \in Run, NEW row, SameRun(row, run[i]), run' = [run EXCEPT ![i] = row]
  PROVE  Same(run')
BY SameSelf, SameExcept DEF Inv

LEMMA RunsStay ==
  ASSUME Inv, UNCHANGED run
  PROVE  Same(run')
BY SameSelf DEF Inv

LEMMA TasksStay ==
  ASSUME Inv, UNCHANGED task
  PROVE  TasksKept(task')
BY TasksSelf DEF Inv

LEMMA OneTask ==
  ASSUME Inv, NEW i \in Created, NEW row \in TaskRow, row.kind = task[run[i].task].kind,
         row.round = task[run[i].task].round, row.ver = task[run[i].task].ver,
         task' = [task EXCEPT ![run[i].task] = row]
  PROVE  TasksKept(task')
<1>1. run[i].task \in Task /\ task[run[i].task].kind # "none"
  BY Kinds DEF Inv
<1> QED BY <1>1, TasksSelf, Marked DEF Inv

--------------------------------------------------------------------------------
(* Attempts.                                                                   *)

LEMMA InvInit == Init => Inv
<1> SUFFICES ASSUME Init PROVE Inv
  OBVIOUS
<1> USE DEF Init
<1>1. NoRun \in RunRow /\ NoRun.stage = "absent" /\ NoRun.approval = FALSE
  BY RootIsTask DEF NoRun, RunRow, Stages, Ended, Verdicts
<1>2. Created = {}
  BY <1>1 DEF Created
<1>3. NoTask \in TaskRow /\ NoTask.kind = "none" /\ NoTask.st = "none"
  BY DEF NoTask, TaskRow, Statuses
<1> DEFINE first == [NoTask EXCEPT !.kind = "impl", !.st = "ready"]
<1>4. first \in TaskRow /\ first.kind = "impl"
  BY DEF NoTask, TaskRow, Statuses
<1>5. task = [t \in Task |-> IF t = Root THEN first ELSE NoTask]
  OBVIOUS
<1> HIDE DEF first
<1>6. TypeOK
  <2>1. <<>> \in Seq({"crash", "cancel", "reject", "retry"})
    OBVIOUS
  <2> QED BY <1>1, <1>3, <1>4, <1>5, <2>1, IdleIs, TypeIs
<1>7. NumberedTasks
  BY <1>3, <1>5 DEF NumberedTasks, Root, Task
<1>8. Tasks
  BY <1>3, <1>4, <1>5 DEF Tasks, FollowUps
<1>9. Rows
  BY <1>1, <1>2, <1>7, <1>8 DEF Rows, NumberedRuns, AllLinked, Unborn
<1>10. Memory /\ Heads /\ OneSessionPerTree
  BY <1>2, IdleIs DEF Memory, RoutedBy, Heads, OneSessionPerTree
<1> QED BY <1>6, <1>9, <1>10 DEF Inv

LEMMA InvStutter == Inv /\ UNCHANGED vars => Inv'
<1> SUFFICES ASSUME Inv, UNCHANGED vars PROVE Inv'
  OBVIOUS
<1>1. TypeOK'
  BY DEF Inv, TypeOK, vars
<1>2. Rows' /\ Created' = Created
  BY DEF Inv, Rows, NumberedRuns, NumberedTasks, Tasks, AllLinked, Unborn, Linked, Kind, Created, vars
<1>3. Memory' /\ Heads' /\ OneSessionPerTree'
  BY DEF Inv, Memory, RoutedBy, Heads, OneSessionPerTree, Kind, Created, vars
<1> QED BY <1>1, <1>2, <1>3 DEF Inv

LEMMA RetryOrFailKeeps ==
  ASSUME Inv, NEW i \in Created, RetryOrFail(i)
  PROVE  Same(run') /\ TasksKept(task')
<1> DEFINE t == run[i].task
           old == task[t]
           ready == [old EXCEPT !.retries = @ + 1, !.st = "ready"]
           failed == [old EXCEPT !.retries = @ + 1, !.st = "failed"]
           tried == [old EXCEPT !.retries = @ + 1]
<1>1. old \in TaskRow
  BY Kinds DEF Inv
<1>2. \A row \in {ready, failed, tried} :
        row \in TaskRow /\ row.kind = old.kind /\ row.round = old.round /\ row.ver = old.ver
  <2>1. old.retries + 1 \in Nat
    BY <1>1 DEF TaskRow
  <2> QED BY <1>1, <2>1 DEF TaskRow, Statuses
<1>3. /\ \/ task' = [task EXCEPT ![t] = ready] \/ task' = [task EXCEPT ![t] = failed]
         \/ task' = [task EXCEPT ![t] = tried]
      /\ \/ run' = [run EXCEPT ![i] = Stalled(@)] \/ run' = [run EXCEPT ![i].term = "quarantined"]
  BY DEF RetryOrFail
<1> HIDE DEF ready, failed, tried
<1>4. TasksKept(task')
  BY <1>2, <1>3, OneTask
<1>5. Same(run')
  BY <1>3, Kinds, RunWrites, OneRun DEF Inv
<1> QED BY <1>4, <1>5

LEMMA DieInv ==
  ASSUME Inv, NEW i \in Run, Die(i)
  PROVE  Kept
<1> USE DEF Die
<1>1. i \in Created
  BY DEF Inv, Memory
<1>2. Same(run') /\ TasksKept(task')
  <2>1. CASE Live(i) /\ RetryOrFail(i)
    BY <1>1, <2>1, RetryOrFailKeeps
  <2>2. CASE run' = [run EXCEPT ![i] = Failed(@)] /\ UNCHANGED task
    BY <1>1, <2>2, Kinds, RunWrites, OneRun, TasksStay DEF Inv
  <2>3. CASE UNCHANGED <<run, task>>
    BY <2>3, RunsStay, TasksStay
  <2> QED BY <2>1, <2>2, <2>3
<1>3. cleared' \subseteq Run /\ Created # {} /\ UNCHANGED <<acall, retrying, head, merged, upsets>>
  BY <1>1 DEF Inv, TypeOK, calls, git
<1> QED BY <1>2, <1>3, CallSame, Turn

LEMMA LiveIs ==
  ASSUME NEW i \in Run, Live(i)
  PROVE  i \in Created /\ Created # {}
BY DEF Live, Open, Created

LEMMA StaleSlotInv ==
  ASSUME Inv, NEW i \in Run, StaleSlot(i)
  PROVE  Kept
<1> USE DEF StaleSlot
<1>1. i \in Created
  BY LiveIs
<1>2. Same(run')
  BY <1>1, Kinds, RunWrites, OneRun DEF Inv
<1>3. TasksKept(task')
  <2>1. run[i].task \in Task /\ task[run[i].task].kind # "none"
    BY <1>1, Kinds DEF Inv
  <2> QED BY <2>1, Statused DEF Inv, Statuses
<1>4. cleared' \subseteq Run /\ Created # {} /\ UNCHANGED <<acall, retrying, head, merged, upsets>>
  BY <1>1 DEF Inv, TypeOK, calls, git
<1> QED BY <1>2, <1>3, <1>4, CallSame, Turn

LEMMA UpsetIs ==
  ASSUME TypeOK, NEW what \in {"crash", "cancel", "reject", "retry"}, Upset(what)
  PROVE  upsets' \in Seq({"crash", "cancel", "reject", "retry"})
BY DEF TypeOK, Upset

LEMMA CrashInv ==
  ASSUME Inv, Crash
  PROVE  Kept
<1> USE DEF Crash, git
<1>1. call' \in [Run -> CallRow] /\ \A i \in Run : RoutedBy(i, call'[i])
  BY IdleIs DEF RoutedBy
<1>2. boot' \subseteq Created
  BY LiveIs
<1>3. upsets' \in Seq({"crash", "cancel", "reject", "retry"})
  BY UpsetIs DEF Inv
<1>4. CASE Created # {}
  <2>1. /\ acall' \in [Run -> {"none", "merge", "finalize"}]
        /\ (\A i \in Run : acall'[i] # "none" => i \in Created)
        /\ cleared' \subseteq Run /\ merged' \subseteq Run
        /\ session' \subseteq session /\ retrying' \subseteq Created
    BY DEF Inv, TypeOK
  <2>2. Same(run') /\ TasksKept(task') /\ head' = head
    BY RunsStay, TasksStay
  <2> QED BY <1>1, <1>2, <1>3, <1>4, <2>1, <2>2, Step
<1>5. CASE Created = {}
  <2>1. TypeOK'
    <3>1. boot' \subseteq Run /\ cleared' \subseteq Run /\ merged' \subseteq Run
          /\ session' \subseteq Run /\ retrying' \subseteq Run
          /\ acall' \in [Run -> {"none", "merge", "finalize"}]
          /\ run' \in [Run -> RunRow] /\ task' \in [Task -> TaskRow] /\ head' \in [Run -> Run \cup {0}]
      BY <1>2, TypeIs DEF Inv, Created
    <3> QED BY <1>1, <1>3, <3>1 DEF TypeOK, RunRow, TaskRow, CallRow, Stages, Statuses
  <2>2. Rows' /\ Created' = {}
    BY <1>5 DEF Inv, Rows, NumberedRuns, NumberedTasks, Tasks, AllLinked, Unborn, Linked, Kind, Created
  <2>3. \A i \in Run : call'[i].pc = "none" /\ acall'[i] = "none"
    BY IdleIs
  <2>4. Memory' /\ Heads' /\ OneSessionPerTree'
    BY <1>2, <1>5, <2>2, <2>3 DEF Memory, RoutedBy, Heads, OneSessionPerTree
  <2> QED BY <2>1, <2>2, <2>4, RunsStay, TasksStay DEF Inv, Kept
<1> QED BY <1>4, <1>5

LEMMA ReconcileInv ==
  ASSUME Inv, NEW i \in Run, Reconcile(i)
  PROVE  Kept
<1> USE DEF Reconcile
<1>1. i \in Created
  BY DEF Inv, Memory
<1>2. Same(run')
  BY <1>1, RunsStay, Kinds, RunWrites, OneRun DEF Inv
<1>3. call' \in [Run -> CallRow] /\ \A j \in Run : RoutedBy(j, call'[j])
  <2>1. CASE UNCHANGED call
    BY <2>1, CallSame
  <2>2. CASE run[i].complete /\ call' = [call EXCEPT ![i] = [Idle EXCEPT !.pc = "release", !.live = TRUE]]
    <3> DEFINE c == [Idle EXCEPT !.pc = "release", !.live = TRUE]
    <3>1. c \in CallRow /\ c.pc = "release"
      BY DEF CallRow, Idle, Statuses
    <3>2. call' = [call EXCEPT ![i] = c]
      BY <2>2
    <3> HIDE DEF c
    <3>3. RoutedBy(i, c)
      BY <1>1, <2>2, <3>1 DEF RoutedBy
    <3> QED BY <3>1, <3>2, <3>3, CallOne
  <2> QED BY <2>1, <2>2
<1>4. TasksKept(task') /\ cleared' \subseteq Run /\ Created # {} /\ session' \subseteq session /\ boot' \subseteq boot
      /\ UNCHANGED <<acall, retrying, head, merged, upsets>>
  BY <1>1, TasksStay DEF Inv, TypeOK, calls, git
<1> QED BY <1>2, <1>3, <1>4, Turn

--------------------------------------------------------------------------------
(* A new run.                                                                  *)

LEMMA MostRecentIs ==
  ASSUME TypeOK, Rows, Created # {}
  PROVE  /\ MostRecent \in Created /\ Kind(MostRecent) \in {"impl", "fix"}
         /\ \A j \in Created : Kind(j) \in {"impl", "fix"} => j <= MostRecent
<1> DEFINE S == {i \in Created : Kind(i) \in {"impl", "fix"}}
<1>1. S \in SUBSET Run /\ S # {}
  <2>1. PICK i \in Created : run[i].task = Root
    BY FirstIsRoot
  <2> QED BY <2>1, Kinds DEF Created
<1>2. MostRecent = Latest(S)
  BY <1>1 DEF MostRecent
<1> HIDE DEF S
<1>3. MostRecent \in S /\ \A j \in S : j <= MostRecent
  BY <1>1, <1>2, LatestIs
<1> QED BY <1>3 DEF S

\* The row of a new run of a task.
Born(t, f) ==
  LET par == IF task[t].kind = "impl" THEN 0 ELSE MostRecent
  IN  [NoRun EXCEPT !.stage = "work", !.task = t, !.par = par, !.tree = IF par = 0 THEN f ELSE run[par].tree]

LEMMA BornIs ==
  ASSUME TypeOK, Rows, NEW t \in Task, task[t].st = "ready", NEW f, f = FreshRun, f \in Run
  PROVE  /\ Born(t, f) \in RunRow /\ Born(t, f).task = t /\ Born(t, f).stage = "work" /\ Born(t, f).term = "none"
         /\ ~Born(t, f).complete /\ ~Born(t, f).approval /\ Born(t, f).says = "none"
         /\ task[t].kind # "none"
         /\ t = Root => Born(t, f).par = 0 /\ Born(t, f).tree = f
         /\ t # Root => /\ Created # {}
                        /\ Born(t, f).par = MostRecent /\ Born(t, f).tree = run[MostRecent].tree
<1>1. task[t] \in TaskRow /\ task[t].kind # "none" /\ (task[t].kind = "impl" <=> t = Root)
  BY TypeIs DEF Rows, Tasks
<1>2. CASE t = Root
  <2>1. Born(t, f) = [NoRun EXCEPT !.stage = "work", !.task = t, !.par = 0, !.tree = f]
    BY <1>1, <1>2 DEF Born
  <2> QED BY <1>1, <1>2, <2>1 DEF NoRun, RunRow, Stages, Ended, Verdicts
<1>3. CASE t # Root
  <2>1. task[t].kind \in FollowUps /\ Created # {}
    BY <1>1, <1>3 DEF TaskRow, FollowUps, Rows, Tasks
  <2>2. MostRecent \in Created /\ MostRecent \in Run /\ MostRecent # 0 /\ run[MostRecent].tree \in Run
    BY <2>1, MostRecentIs, Kinds DEF Run
  <2>3. Born(t, f) = [NoRun EXCEPT !.stage = "work", !.task = t, !.par = MostRecent, !.tree = run[MostRecent].tree]
    BY <1>1, <1>3, <2>2 DEF Born
  <2> QED BY <1>1, <1>3, <2>1, <2>2, <2>3 DEF NoRun, RunRow, Stages, Ended, Verdicts
<1> QED BY <1>2, <1>3

LEMMA DispatchIs ==
  ASSUME NEW t \in Task, Dispatch(t)
  PROVE  \E f \in Run : /\ f = FreshRun /\ run' = [run EXCEPT ![f] = Born(t, f)] /\ session' = session \cup {f}
BY DEF Dispatch, Born

LEMMA DispatchInv ==
  ASSUME Inv, NEW t \in Task, Dispatch(t)
  PROVE  Inv'
<1> USE DEF Inv
<1>1. PICK f \in Run : /\ f = FreshRun /\ run' = [run EXCEPT ![f] = Born(t, f)] /\ session' = session \cup {f}
  BY DispatchIs
<1>2. PICK b : b = Born(t, f)
  OBVIOUS
<1>3. task[t].st = "ready" /\ task' = TaskTo(t, "active") /\ (task[t].kind # "impl" => session = {})
      /\ UNCHANGED <<call, acall, retrying, boot, head, cleared, merged, upsets>>
  BY DEF Dispatch, calls, git
<1>4. /\ b \in RunRow /\ b.task = t /\ b.stage = "work" /\ ~b.complete /\ ~b.approval /\ task[t].kind # "none"
      /\ t = Root => b.par = 0 /\ b.tree = f
      /\ t # Root => Created # {} /\ b.par = MostRecent /\ b.tree = run[MostRecent].tree
  BY <1>1, <1>2, <1>3, BornIs
<1>5. f \notin Created /\ f \in Nat /\ \A i \in Run : i \in Created <=> i < f
  BY <1>1, FreshRunIs DEF Rows, Run
<1>6. /\ run' \in [Run -> RunRow] /\ run'[f] = b
      /\ \A i \in Run : i # f => run'[i] = run[i]
  BY <1>1, <1>2, <1>4, TypeIs
<1>7. Created' = Created \cup {f}
  BY <1>1, <1>4, <1>6 DEF Created
<1>8. task' \in [Task -> TaskRow] /\ \A u \in Task : task'[u].kind = task[u].kind /\ task'[u].round = task[u].round
        /\ task'[u].ver = task[u].ver /\ (task[u].kind = "none" => task'[u].st = task[u].st)
  <2>1. task[t] \in TaskRow /\ task' = [task EXCEPT ![t].st = "active"]
    BY <1>3, TypeIs DEF TaskTo
  <2>2. [task[t] EXCEPT !.st = "active"] \in TaskRow
    BY <2>1 DEF TaskRow, Statuses
  <2> QED BY <1>4, <2>1, <2>2, TypeIs
<1>9. TypeOK'
  <2>1. session' \subseteq Run /\ boot' \subseteq Run /\ retrying' \subseteq Run /\ cleared' \subseteq Run
        /\ call' \in [Run -> CallRow] /\ acall' \in [Run -> {"none", "merge", "finalize"}]
        /\ head' \in [Run -> Run \cup {0}] /\ merged' \subseteq Run
        /\ upsets' \in Seq({"crash", "cancel", "reject", "retry"})
    BY <1>1, <1>3, TypeIs
  <2> QED BY <1>6, <1>8, <2>1 DEF TypeOK, RunRow, TaskRow, CallRow, Stages, Statuses
<1>10. \A i \in Created : i \in Run /\ i # f /\ run'[i] = run[i] /\ Kind(i)' = Kind(i)
  <2>1. \A i \in Created : i \in Run /\ i # f /\ run'[i] = run[i] /\ run[i].task \in Task
    BY <1>5, <1>6, Kinds
  <2> QED BY <1>8, <2>1 DEF Kind
<1>11. Kind(f)' = task[t].kind
  BY <1>4, <1>6, <1>8 DEF Kind
<1>12. Rows'
  <2>1. NumberedRuns'
    <3>1. \A i \in Run : i \in Created' <=> i <= f
      <4>1. \A i \in Run : i \in Nat
        BY DEF Run
      <4> QED BY <1>5, <1>7, <4>1
    <3>2. \A i, j \in Run : j < i /\ i <= f => j <= f
      BY <1>5 DEF Run
    <3>3. Created' \subseteq Run
      BY <1>1, <1>7 DEF Created
    <3> QED BY <3>1, <3>2, <3>3 DEF NumberedRuns
  <2>2. NumberedTasks'
    BY <1>8 DEF Rows, NumberedTasks
  <2>3. \A u \in Task : task[u].kind \in FollowUps => \E i \in Created : run'[i].task = Root
    BY <1>10 DEF Rows, Tasks
  <2>4. Tasks'
    BY <1>7, <1>8, <2>3 DEF Rows, Tasks
  <2>5. Unborn'
    BY <1>6, <1>7 DEF Rows, Unborn
  <2>6. ASSUME NEW i \in Created PROVE Linked(i)'
    <3>1. Linked(i) /\ run'[i] = run[i] /\ Kind(i)' = Kind(i)
      BY <1>10 DEF Rows, AllLinked
    <3>2. run[i].task # Root => run[i].par \in Created /\ run'[run[i].par] = run[run[i].par]
                                /\ Kind(run[i].par)' = Kind(run[i].par)
      BY <1>10, <3>1 DEF Linked
    <3> QED BY <1>7, <3>1, <3>2 DEF Linked
  <2>7. Linked(f)'
    <3>1. CASE t = Root
      BY <1>4, <1>6, <1>7, <1>11, <3>1 DEF Linked
    <3>2. CASE t # Root
      <4>1. MostRecent \in Created /\ Kind(MostRecent) \in {"impl", "fix"} /\ MostRecent < f
            /\ run[MostRecent].tree \in Created
        BY <1>4, <1>5, <3>2, MostRecentIs, Kinds
      <4>2. PICK m : m = MostRecent
        OBVIOUS
      <4>3. m \in Created /\ Kind(m)' = Kind(m) /\ run'[m] = run[m] /\ Kind(m)' \in {"impl", "fix"} /\ m < f
            /\ b.par = m /\ b.tree = run[m].tree /\ run[m].tree \in Created
        BY <1>4, <1>10, <3>2, <4>1, <4>2
      <4> QED BY <1>4, <1>6, <1>7, <1>11, <3>2, <4>3 DEF Linked
    <3> QED BY <3>1, <3>2
  <2> QED BY <1>7, <2>1, <2>2, <2>4, <2>5, <2>6, <2>7 DEF Rows, AllLinked
<1>13. Memory'
  <2>1. ASSUME NEW i \in Run PROVE RoutedBy(i, call[i])'
    <3>1. RoutedBy(i, call[i]) /\ call'[i] = call[i]
      BY <1>3 DEF Memory
    <3> QED BY <1>7, <1>10, <3>1 DEF RoutedBy
  <2> QED BY <1>1, <1>3, <1>7, <2>1 DEF Memory
<1>14. Heads'
  BY <1>3, <1>4, <1>6, <1>7, <1>10 DEF Heads
<1>15. OneSessionPerTree'
  <2>1. CASE t = Root
    <3>1. \A i \in session : i \in Created /\ run'[i] = run[i] /\ run[i].tree \in Created /\ run[i].tree # f
      BY <1>5, <1>10, Kinds DEF Memory
    <3>2. run'[f].tree = f
      BY <1>4, <1>6, <2>1
    <3> QED BY <1>1, <3>1, <3>2 DEF OneSessionPerTree
  <2>2. CASE t # Root
    <3>1. session = {}
      BY <1>3, <2>2 DEF Rows, Tasks
    <3> QED BY <1>1, <3>1 DEF OneSessionPerTree
  <2> QED BY <2>1, <2>2
<1> QED BY <1>9, <1>12, <1>13, <1>14, <1>15

\* What a completion writes: the signal and the verdict, and nothing else of a row.
CompletedRow(row, v) == [row EXCEPT !.complete = TRUE, !.says = v]

LEMMA CompleteIs ==
  ASSUME Inv, NEW i \in Run, Complete(i)
  PROVE  /\ i \in Created /\ i \in session /\ call[i].pc = "none"
         /\ \E v \in Verdicts \cup {"none"} :
              /\ Kind(i) # "review" => v = "none"
              /\ Kind(i) = "review" => v \in Verdicts
              /\ run' = [run EXCEPT ![i] = CompletedRow(@, v)]
         /\ run' \in [Run -> RunRow] /\ \A j \in Run \ {i} : run'[j] = run[j]
         /\ run'[i].stage = run[i].stage /\ run'[i].term = run[i].term /\ run'[i].task = run[i].task
         /\ run'[i].par = run[i].par /\ run'[i].tree = run[i].tree /\ run'[i].approval = run[i].approval
         /\ run'[i].again = run[i].again /\ run'[i].complete
         /\ IF run[i].term = "none"
            THEN /\ call' = [call EXCEPT ![i] = [Idle EXCEPT !.pc = "release", !.live = run[i].stage # "done"]]
                 /\ session' = session
            ELSE call' = [call EXCEPT ![i] = Idle] /\ session' = session \ {i}
         /\ head' = IF Kind(i) = "review" THEN head ELSE [head EXCEPT ![run[i].tree] = i]
         /\ UNCHANGED <<task, acall, retrying, boot, cleared, merged, upsets>>
<1> USE DEF Complete
<1>1. i \in session /\ call[i].pc = "none" /\ i \in Created
  BY DEF Inv, Memory
<1>2. PICK v \in Verdicts \cup {"none"} :
        /\ Kind(i) # "review" => v = "none"
        /\ Kind(i) = "review" => v \in Verdicts
        /\ run' = [run EXCEPT ![i].complete = TRUE, ![i].says = v]
  OBVIOUS
<1>3. run[i] \in RunRow
  BY TypeIs DEF Inv
<1>4. run' = [run EXCEPT ![i] = CompletedRow(@, v)]
  BY <1>2, <1>3, TypeIs DEF Inv, CompletedRow
<1>5. PICK row : row = CompletedRow(run[i], v)
  OBVIOUS
<1>6. /\ row \in RunRow /\ row.stage = run[i].stage /\ row.term = run[i].term /\ row.task = run[i].task
      /\ row.par = run[i].par /\ row.tree = run[i].tree /\ row.approval = run[i].approval
      /\ row.again = run[i].again /\ row.complete
  BY <1>3, <1>5 DEF RunRow, CompletedRow
<1>7. run' = [run EXCEPT ![i] = row]
  BY <1>4, <1>5
<1>8. run' \in [Run -> RunRow] /\ run'[i] = row /\ \A j \in Run \ {i} : run'[j] = run[j]
  BY <1>6, <1>7, TypeIs DEF Inv
<1>9. UNCHANGED <<task, acall, retrying, boot, cleared, merged, upsets>>
  BY DEF calls
<1>10. /\ IF run[i].term = "none"
          THEN /\ call' = [call EXCEPT ![i] = [Idle EXCEPT !.pc = "release", !.live = run[i].stage # "done"]]
               /\ session' = session
          ELSE call' = [call EXCEPT ![i] = Idle] /\ session' = session \ {i}
       /\ head' = IF Kind(i) = "review" THEN head ELSE [head EXCEPT ![run[i].tree] = i]
  OBVIOUS
<1>11. \E w \in Verdicts \cup {"none"} :
         /\ Kind(i) # "review" => w = "none"
         /\ Kind(i) = "review" => w \in Verdicts
         /\ run' = [run EXCEPT ![i] = CompletedRow(@, w)]
  BY <1>2, <1>4
<1> HIDE DEF Complete
<1> QED BY <1>1, <1>6, <1>8, <1>9, <1>10, <1>11

LEMMA CompleteInv ==
  ASSUME Inv, NEW i \in Run, Complete(i)
  PROVE  Inv'
<1> USE DEF Inv
<1>1. /\ i \in Created
      /\ run' \in [Run -> RunRow] /\ \A j \in Run \ {i} : run'[j] = run[j]
      /\ run'[i].stage = run[i].stage /\ run'[i].task = run[i].task /\ run'[i].par = run[i].par
      /\ run'[i].tree = run[i].tree /\ run'[i].approval = run[i].approval /\ run'[i].complete
  BY CompleteIs
<1>2. /\ IF run[i].term = "none"
         THEN /\ call' = [call EXCEPT ![i] = [Idle EXCEPT !.pc = "release", !.live = run[i].stage # "done"]]
              /\ session' = session
         ELSE call' = [call EXCEPT ![i] = Idle] /\ session' = session \ {i}
      /\ head' = IF Kind(i) = "review" THEN head ELSE [head EXCEPT ![run[i].tree] = i]
      /\ UNCHANGED <<task, acall, retrying, boot, cleared, merged, upsets>>
  BY CompleteIs
<1>3. /\ \A j \in Run : /\ run'[j].task = run[j].task /\ run'[j].par = run[j].par /\ run'[j].tree = run[j].tree
                        /\ run'[j].stage = run[j].stage /\ run'[j].approval = run[j].approval
      /\ \A j \in Run : run[j].complete => run'[j].complete
  BY <1>1
<1>4. Created' = Created /\ \A j \in Created : Kind(j)' = Kind(j)
  BY <1>2, <1>3 DEF Created, Kind
<1>5. RunsKept(run')
  BY <1>1, <1>3 DEF RunsKept
<1>6. Rows'
  BY <1>1, <1>2, <1>5, TasksSelf, RowsKept
<1>7. call' \in [Run -> CallRow] /\ call'[i].pc \in {"none", "release"} /\ \A j \in Run \ {i} : call'[j] = call[j]
  <2> DEFINE c == [Idle EXCEPT !.pc = "release", !.live = run[i].stage # "done"]
  <2>1. c \in CallRow /\ c.pc = "release"
    BY DEF Idle, CallRow, Statuses
  <2>2. call' = [call EXCEPT ![i] = c] \/ call' = [call EXCEPT ![i] = Idle]
    BY <1>2
  <2> HIDE DEF c
  <2> QED BY <2>1, <2>2, IdleIs, TypeIs
<1>8. TypeOK'
  <2>1. head' \in [Run -> Run \cup {0}] /\ session' \subseteq Run
    BY <1>2, TypeIs
  <2>2. boot' \subseteq Run /\ retrying' \subseteq Run /\ cleared' \subseteq Run /\ merged' \subseteq Run
        /\ task' \in [Task -> TaskRow] /\ acall' \in [Run -> {"none", "merge", "finalize"}]
        /\ upsets' \in Seq({"crash", "cancel", "reject", "retry"})
    BY <1>2, TypeIs
  <2> QED BY <1>1, <1>7, <2>1, <2>2 DEF TypeOK, RunRow, TaskRow, CallRow, Stages, Statuses
<1>9. Memory'
  <2>1. ASSUME NEW j \in Run PROVE RoutedBy(j, call[j])'
    <3>1. CASE j = i
      BY <1>1, <1>4, <1>7, <3>1 DEF RoutedBy
    <3>2. CASE j # i
      <4>1. RoutedBy(j, call[j]) /\ call'[j] = call[j]
        BY <1>7, <3>2 DEF Memory
      <4> QED BY <1>3, <1>4, <4>1 DEF RoutedBy
    <3> QED BY <3>1, <3>2
  <2> QED BY <1>2, <1>4, <2>1 DEF Memory
<1>10. Heads'
  <2> SUFFICES ASSUME NEW j \in Created, run'[j].complete, Kind(j)' # "review"
               PROVE  head'[run'[j].tree] # 0
    BY <1>4 DEF Heads
  <2>1. j \in Run /\ run'[j].tree = run[j].tree /\ run[j].tree \in Run /\ Kind(j) # "review" /\ i # 0
    BY <1>3, <1>4, Kinds DEF Run
  <2>2. CASE run[j].tree = run[i].tree /\ Kind(i) # "review"
    BY <1>2, <2>1, <2>2, TypeIs
  <2>3. CASE ~(run[j].tree = run[i].tree /\ Kind(i) # "review")
    <3>1. j # i
      BY <2>1, <2>3
    <3>2. run[j].complete /\ head[run[j].tree] # 0
      BY <1>1, <2>1, <3>1 DEF Heads
    <3> QED BY <1>2, <2>1, <2>3, <3>2, TypeIs
  <2> QED BY <2>2, <2>3
<1>11. OneSessionPerTree'
  <2>1. session' \subseteq session /\ session \subseteq Run
    BY <1>2, TypeIs
  <2> QED BY <1>3, <2>1 DEF OneSessionPerTree
<1> QED BY <1>6, <1>8, <1>9, <1>10, <1>11

--------------------------------------------------------------------------------
(* The router.                                                                 *)

\* Statuses of tasks that exist are written.
LEMMA Restatused ==
  ASSUME TypeOK, NEW T, T = [t \in Task |-> T[t]],
         \A t \in Task : \/ T[t] = task[t]
                         \/ task[t].kind # "none" /\ \E st \in Statuses : T[t] = [task[t] EXCEPT !.st = st]
  PROVE  TasksKept(T)
<1>1. ASSUME NEW t \in Task PROVE T[t] \in TaskRow /\ SameTask(T[t], task[t])
  <2>1. task[t] \in TaskRow
    BY TypeIs
  <2>2. CASE T[t] = task[t]
    BY <2>1, <2>2 DEF SameTask
  <2>3. CASE task[t].kind # "none" /\ \E st \in Statuses : T[t] = [task[t] EXCEPT !.st = st]
    <3>1. PICK st \in Statuses : T[t] = [task[t] EXCEPT !.st = st]
      BY <2>3
    <3> QED BY <2>1, <2>3, <3>1 DEF SameTask, TaskRow
  <2> QED BY <2>2, <2>3
<1> QED BY <1>1 DEF TasksKept

LEMMA Closed ==
  ASSUME TypeOK, NEW R
  PROVE  TasksKept(TasksClosed(R))
<1> DEFINE T == TasksClosed(R)
<1>1. T = [t \in Task |-> T[t]]
  BY DEF TasksClosed
<1>2. ASSUME NEW t \in Task
      PROVE  \/ T[t] = task[t]
             \/ task[t].kind # "none" /\ \E st \in Statuses : T[t] = [task[t] EXCEPT !.st = st]
  <2> DEFINE st1 == IF task[t].st = "done" THEN "done" ELSE "failed"
  <2>1. \/ T[t] = task[t]
        \/ task[t].kind # "none" /\ T[t] = [task[t] EXCEPT !.st = st1]
        \/ task[t].kind # "none" /\ T[t] = [task[t] EXCEPT !.st = "done"]
        \/ task[t].kind # "none" /\ T[t] = [task[t] EXCEPT !.st = "failed"]
    BY DEF TasksClosed
  <2>2. st1 \in Statuses /\ "done" \in Statuses /\ "failed" \in Statuses
    BY DEF Statuses
  <2> HIDE DEF T, st1
  <2> QED BY <2>1, <2>2
<1> HIDE DEF T
<1>3. TasksKept(T)
  BY <1>1, <1>2, Restatused
<1> QED BY <1>3 DEF T

LEMMA Escalated ==
  ASSUME Inv, NEW R, Same(R), NEW i \in Run, NEW row, SameRun(row, R[i]), EscalateLineage(R, i, row)
  PROVE  Same(run') /\ TasksKept(task')
<1> DEFINE closed == LineageClosed(R, i, row)
<1>1. run' = closed /\ task' = TasksClosed(closed)
  BY DEF EscalateLineage
<1>2. Same(closed)
  <2>1. ASSUME NEW j \in Run PROVE closed[j] \in RunRow /\ SameRun(closed[j], run[j])
    <3>1. R[j] \in RunRow /\ SameRun(R[j], run[j])
      BY DEF Same
    <3>2. closed[j] = R[j] \/ (j = i /\ closed[j] = row) \/ closed[j] = Failed(R[j])
      BY DEF LineageClosed
    <3>3. SameRun(closed[j], R[j])
      BY <3>1, <3>2, RunWrites
    <3> QED BY <3>1, <3>3, SameRunAgain DEF SameRun
  <2>2. closed = [j \in Run |-> closed[j]]
    BY DEF LineageClosed
  <2> HIDE DEF closed
  <2> QED BY <2>1, <2>2 DEF Same
<1> HIDE DEF closed
<1> QED BY <1>1, <1>2, Closed DEF Inv

\* The rows after the root of a lineage has failed, or had ended already.
LEMMA RootFailed ==
  ASSUME Inv, NEW r \in Created
  PROVE  Same([run EXCEPT ![r] = Failed(@)]) /\ Same([run EXCEPT ![r] = IF @.term = "none" THEN Failed(@) ELSE @])
<1>1. r \in Run /\ SameRun(Failed(run[r]), run[r]) /\ SameRun(run[r], run[r])
  BY Kinds, RunWrites DEF Inv
<1>2. Same([run EXCEPT ![r] = Failed(run[r])])
  BY <1>1, SameSelf, SameExcept DEF Inv
<1>3. PICK row : row = IF run[r].term = "none" THEN Failed(run[r]) ELSE run[r]
  OBVIOUS
<1>4. Same([run EXCEPT ![r] = row])
  <2>1. SameRun(row, run[r])
    BY <1>1, <1>3
  <2> QED BY <1>1, <2>1, SameSelf, SameExcept DEF Inv
<1>5. [run EXCEPT ![r] = row] = [run EXCEPT ![r] = IF @.term = "none" THEN Failed(@) ELSE @]
  BY <1>3
<1> QED BY <1>2, <1>4, <1>5

LEMMA VerificationFix ==
  ASSUME Inv, NEW i \in Created, dispatchVerificationFix(i)
  PROVE  Same(run') /\ TasksKept(task')
<1>1. i \in Run /\ run[i] \in RunRow
  BY Kinds DEF Inv
<1>2. CASE FixRuns(i) >= MaxFix
  <2> DEFINE r == RootOf(i)
             R == [run EXCEPT ![r] = IF @.term = "none" THEN Failed(@) ELSE @]
  <2>1. EscalateLineage(R, i, Failed(run[i]))
    BY <1>2 DEF dispatchVerificationFix
  <2>2. r \in Created
    BY ChainIs DEF Inv
  <2> HIDE DEF r
  <2>3. Same(R)
    BY <2>2, RootFailed
  <2>4. SameRun(Failed(run[i]), R[i])
    <3>1. R[i] = run[i] \/ R[i] = Failed(run[i])
      BY <1>1, TypeIs DEF Inv
    <3>2. Failed(run[i]) \in RunRow
      BY <1>1 DEF RunRow, Failed, Ended
    <3> QED BY <1>1, <3>1, <3>2, RunWrites
  <2> HIDE DEF R
  <2> QED BY <1>1, <2>1, <2>3, <2>4, Escalated
<1>3. CASE ~(FixRuns(i) >= MaxFix)
  <2>1. Room /\ task' = Added(task, "fix", FixRuns(i) + 1, 0) /\ UNCHANGED run
    BY <1>3 DEF dispatchVerificationFix
  <2>2. FixRuns(i) + 1 \in Nat /\ FixRuns(i) + 1 <= MaxFix
    BY <1>3, ChainIs DEF Inv
  <2>3. TasksKept(Added(task, "fix", FixRuns(i) + 1, 0))
    BY <2>1, <2>2, AddedKept DEF Inv, FollowUps
  <2> QED BY <2>1, <2>3, RunsStay
<1> QED BY <1>2, <1>3

LEMMA CompletedKeeps ==
  ASSUME Inv, NEW i \in Created, NEW R, Same(R), NEW T, TasksKept(T)
  PROVE  Same(Completed(R, i)) /\ TasksKept(CompletedTask(T, i))
<1>1. i \in Run /\ run[i].stage # "absent" /\ run[i].task \in Task /\ task[run[i].task].kind # "none"
  BY Kinds DEF Inv
<1>2. Same(Completed(R, i))
  <2>1. R[i] \in RunRow /\ R[i].stage # "absent"
    BY <1>1 DEF Same, SameRun
  <2>2. Same([R EXCEPT ![i] = Done(R[i])])
    BY <1>1, <2>1, RunWrites, SameExcept
  <2>3. [R EXCEPT ![i] = Done(R[i])] = [R EXCEPT ![i] = Done(@)]
    OBVIOUS
  <2> QED BY <2>2, <2>3 DEF Completed
<1>3. TasksKept(CompletedTask(T, i))
  <2> DEFINE t == run[i].task
             row == [T[t] EXCEPT !.st = "done"]
  <2>1. T[t] \in TaskRow
    BY <1>1 DEF TasksKept
  <2>2. row \in TaskRow /\ row.kind = T[t].kind /\ row.round = T[t].round /\ row.ver = T[t].ver
    BY <2>1, TaskWrites DEF Statuses
  <2>3. CompletedTask(T, i) = T \/ CompletedTask(T, i) = [T EXCEPT ![t] = row]
    BY <1>1 DEF CompletedTask, TasksKept
  <2> HIDE DEF row
  <2>4. TasksKept([T EXCEPT ![t] = row])
    BY <1>1, <2>2, Marked DEF Inv
  <2> QED BY <2>3, <2>4
<1> QED BY <1>2, <1>3

\* The outcome of a verdict, apart from the call.
LEMMA Verdicted ==
  ASSUME Inv, NEW i \in Created, Kind(i) = "review", call[i].pc = "release", Verdict(i, run[i].par)
  PROVE  /\ Same(run') /\ TasksKept(task') /\ cleared' \subseteq Run
         /\ call' \in [Run -> CallRow] /\ \A j \in Run : RoutedBy(j, call'[j])
<1> DEFINE t == run[i].task
           par == run[i].par
           r == RootOf(par)
           c == [call[i] EXCEPT !.pc = "sync", !.tst = task[t].st, !.par = par, !.root = r,
                                !.rstage = run[r].stage, !.rterm = run[r].term, !.ost = task[Root].st]
<1>1. i \in Run /\ run[i] \in RunRow /\ run[i].stage # "absent" /\ t \in Task /\ task[t] \in TaskRow
      /\ task[t].kind = "review" /\ par \in Created /\ run[i].complete
  BY Kinds, Called DEF Inv
<1>2. r \in Created /\ FixRuns(par) \in Nat
  BY <1>1, ChainIs DEF Inv
<1>3. cleared \subseteq Run
  BY DEF Inv, TypeOK
<1>4. c \in CallRow /\ c.pc = "sync" /\ c.par = par /\ c.root = r /\ c.rterm = run[r].term
  <2>1. call[i] \in CallRow /\ run[r] \in RunRow /\ run[r].stage # "absent" /\ r \in Run /\ par \in Run
        /\ task[Root] \in TaskRow
    BY <1>1, <1>2, Kinds, RootIsTask, TypeIs DEF Inv
  <2>2. run[r].stage \in {"none", "work", "ship", "done"} /\ run[r].term \in Ended \cup {"none"}
        /\ task[t].st \in Statuses /\ task[Root].st \in Statuses
    BY <1>1, <2>1 DEF RunRow, Stages, TaskRow
  <2> QED BY <2>1, <2>2 DEF CallRow
<1>5. \/ /\ IF task[t].retries = 0 THEN retryMalformedReviewTask(i) ELSE failReviewTask(i)
         /\ Return(i) /\ UNCHANGED cleared
      \/ /\ cleared' = cleared \cup {task[t].ver}
         /\ call' = [call EXCEPT ![i] = c] /\ UNCHANGED <<run, task>>
      \/ /\ EscalateLineage(IF c.rterm = "none" THEN [run EXCEPT ![r] = Failed(@)] ELSE run, i, Done(run[i]))
         /\ Return(i) /\ UNCHANGED cleared
      \/ /\ FixRuns(par) < MaxFix /\ Room
         /\ task' = [Added(task, "fix", FixRuns(par) + 1, 0) EXCEPT ![t].st = "done"]
         /\ run' = Completed(run, i)
         /\ Return(i) /\ UNCHANGED cleared
  BY DEF Verdict
<1> HIDE DEF c
<1>6. CASE /\ IF task[t].retries = 0 THEN retryMalformedReviewTask(i) ELSE failReviewTask(i)
           /\ Return(i) /\ UNCHANGED cleared
  <2>1. run' = [run EXCEPT ![i] = Failed(@)]
    BY <1>6 DEF retryMalformedReviewTask, failReviewTask
  <2>2. Same(run')
    BY <1>1, <2>1, RunWrites, OneRun
  <2>3. TasksKept(task')
    <3> DEFINE row == [task[t] EXCEPT !.st = "ready", !.retries = @ + 1]
    <3>1. row \in TaskRow /\ row.kind = task[t].kind /\ row.round = task[t].round /\ row.ver = task[t].ver
      <4>1. task[t].retries + 1 \in Nat
        BY <1>1 DEF TaskRow
      <4> QED BY <1>1, <4>1 DEF TaskRow, Statuses
    <3>2. task' = [task EXCEPT ![t] = row] \/ task' = TaskTo(t, "failed")
      BY <1>6 DEF retryMalformedReviewTask, failReviewTask
    <3> HIDE DEF row
    <3>3. TasksKept(TaskTo(t, "failed"))
      BY <1>1, Statused DEF Inv, Statuses
    <3>4. TasksKept([task EXCEPT ![t] = row])
      BY <1>1, <3>1, TasksSelf, Marked DEF Inv
    <3> QED BY <3>2, <3>3, <3>4
  <2> QED BY <1>1, <1>3, <1>6, <2>2, <2>3, Returned
<1>7. CASE /\ cleared' = cleared \cup {task[t].ver}
           /\ call' = [call EXCEPT ![i] = c] /\ UNCHANGED <<run, task>>
  <2>1. task[t].ver \in Run
    BY <1>1 DEF Inv, Rows, Tasks, TaskRow
  <2>2. RoutedBy(i, c)
    BY <1>1, <1>2, <1>4 DEF RoutedBy
  <2>3. call' \in [Run -> CallRow] /\ \A j \in Run : RoutedBy(j, call'[j])
    BY <1>1, <1>4, <1>7, <2>2, CallOne
  <2>4. Same(run') /\ TasksKept(task')
    BY <1>7, RunsStay, TasksStay
  <2> QED BY <1>3, <1>7, <2>1, <2>3, <2>4
<1>8. CASE /\ EscalateLineage(IF c.rterm = "none" THEN [run EXCEPT ![r] = Failed(@)] ELSE run, i, Done(run[i]))
           /\ Return(i) /\ UNCHANGED cleared
  <2> DEFINE R == IF c.rterm = "none" THEN [run EXCEPT ![r] = Failed(@)] ELSE run
  <2> HIDE DEF r
  <2>1. Same(R)
    BY <1>2, RootFailed, SameSelf DEF Inv
  <2>2. SameRun(Done(run[i]), R[i])
    <3>1. SameRun(R[i], run[i])
      BY <1>1, <2>1 DEF Same
    <3>2. SameRun(Done(run[i]), run[i]) /\ Done(run[i]).approval = FALSE
      BY <1>1, RunWrites DEF Done, RunRow
    <3> HIDE DEF R
    <3> QED BY <3>1, <3>2 DEF SameRun
  <2>3. EscalateLineage(R, i, Done(run[i]))
    BY <1>8
  <2> HIDE DEF R
  <2>4. Same(run') /\ TasksKept(task')
    BY <1>1, <2>1, <2>2, <2>3, Escalated
  <2> QED BY <1>1, <1>3, <1>8, <2>4, Returned
<1>9. CASE /\ FixRuns(par) < MaxFix /\ Room
           /\ task' = [Added(task, "fix", FixRuns(par) + 1, 0) EXCEPT ![t].st = "done"]
           /\ run' = Completed(run, i)
           /\ Return(i) /\ UNCHANGED cleared
  <2> DEFINE T == Added(task, "fix", FixRuns(par) + 1, 0)
             row == [T[t] EXCEPT !.st = "done"]
  <2>1. FixRuns(par) + 1 \in Nat /\ FixRuns(par) + 1 <= MaxFix
    BY <1>2, <1>9
  <2>2. TasksKept(T)
    BY <1>9, <2>1, AddedKept DEF Inv, FollowUps
  <2>3. task' = [T EXCEPT ![t] = row]
    BY <1>9
  <2> HIDE DEF T
  <2>4. row \in TaskRow /\ row.kind = T[t].kind /\ row.round = T[t].round /\ row.ver = T[t].ver
    <3>1. T[t] \in TaskRow
      BY <1>1, <2>2 DEF TasksKept
    <3> QED BY <3>1, TaskWrites DEF Statuses
  <2> HIDE DEF row
  <2>5. TasksKept(task')
    BY <1>1, <2>2, <2>3, <2>4, Marked DEF Inv
  <2>6. Same(run')
    BY <1>9, SameSelf, TasksSelf, CompletedKeeps DEF Inv
  <2> QED BY <1>1, <1>3, <1>9, <2>5, <2>6, Returned
<1> QED BY <1>5, <1>6, <1>7, <1>8, <1>9

LEMMA RouteInv ==
  ASSUME Inv, NEW i \in Run, Route(i)
  PROVE  Kept
<1>1. call[i].pc = "release" /\ i \in Created /\ Created # {} /\ run[i] \in RunRow /\ run[i].stage # "absent"
      /\ run[i].task \in Task /\ task[run[i].task].kind # "none"
  BY Called, Kinds DEF Route, Inv
<1>2. /\ session' = session \ {i}
      /\ UNCHANGED <<acall, retrying, boot, head, merged, upsets>>
  BY DEF Route, calls
<1>3. /\ Same(run') /\ TasksKept(task') /\ cleared' \subseteq Run
      /\ call' \in [Run -> CallRow] /\ \A j \in Run : RoutedBy(j, call'[j])
  <2>1. cleared \subseteq Run
    BY DEF Inv, TypeOK
  <2>2. CASE Shipped(i) /\ CloseStale(i) /\ Return(i) /\ UNCHANGED cleared
    <3>1. Same(run')
      <4>1. UNCHANGED run \/ run' = [run EXCEPT ![i] = Done(@)]
        BY <2>2 DEF CloseStale
      <4> QED BY <1>1, <4>1, RunsStay, RunWrites, OneRun
    <3>2. TasksKept(task')
      <4>1. UNCHANGED task \/ task' = TaskTo(run[i].task, "done")
        BY <2>2 DEF CloseStale
      <4> QED BY <1>1, <4>1, TasksStay, Statused DEF Inv, Statuses
    <3> QED BY <2>1, <2>2, <3>1, <3>2, Returned
  <2>3. CASE /\ Kind(i) # "review"
             /\ call' = [call EXCEPT ![i].pc = "verify", ![i].tst = task[run[i].task].st]
             /\ UNCHANGED <<run, task, cleared>>
    <3> DEFINE c == [call[i] EXCEPT !.pc = "verify", !.tst = task[run[i].task].st]
    <3>1. call[i] \in CallRow /\ task[run[i].task].st \in Statuses
      <4>1. task[run[i].task] \in TaskRow
        BY <1>1, TypeIs DEF Inv
      <4> QED BY <4>1, <1>1, Called DEF TaskRow
    <3>2. c \in CallRow /\ c.pc = "verify"
      BY <3>1 DEF CallRow
    <3>3. call' = [call EXCEPT ![i] = c]
      BY <2>3, <3>1, TypeIs DEF Inv, CallRow
    <3> HIDE DEF c
    <3>4. RoutedBy(i, c)
      BY <1>1, <2>3, <3>2, Called DEF RoutedBy
    <3>5. call' \in [Run -> CallRow] /\ \A j \in Run : RoutedBy(j, call'[j])
      BY <3>2, <3>3, <3>4, CallOne
    <3> QED BY <2>1, <2>3, <3>5, RunsStay, TasksStay
  <2>4. CASE Kind(i) = "review" /\ Verdict(i, run[i].par)
    BY <1>1, <2>4, Verdicted
  <2> QED BY <2>2, <2>3, <2>4 DEF Route
<1> QED BY <1>1, <1>2, <1>3, Turn

LEMMA VerifiedKeeps ==
  ASSUME Inv, NEW i \in Run, call[i].pc \in {"verify", "again"}, Verified(i)
  PROVE  call' \in [Run -> CallRow] /\ \A j \in Run : RoutedBy(j, call'[j])
<1>1. call[i].pc # "none" /\ Kind(i) # "review"
  BY Called
<1>2. PICK pc \in {"review", "unreviewed"} : Wait(i, pc)
  BY DEF Verified
<1> QED BY <1>1, <1>2, Waited

LEMMA VerifyInv ==
  ASSUME Inv, NEW i \in Run, Verify(i) \/ retryFinalFixVerify(i)
  PROVE  Kept
<1>1. /\ call[i].pc \in {"verify", "again"}
      /\ UNCHANGED <<session, boot, cleared, acall, retrying, head, merged, upsets>>
  BY DEF Verify, retryFinalFixVerify, calls, git
<1>2. i \in Created /\ Created # {} /\ run[i] \in RunRow /\ Kind(i) # "review"
  BY <1>1, Called, Kinds DEF Inv
<1>3. \/ Verified(i) /\ UNCHANGED <<run, task>>
      \/ dispatchVerificationFix(i) /\ Return(i)
      \/ run' = [run EXCEPT ![i].again = TRUE] /\ Wait(i, "again") /\ UNCHANGED task
      \/ run' = [run EXCEPT ![i] = Failed(@)] /\ Return(i) /\ UNCHANGED task
      \/ Kind(i) = "impl" /\ Room /\ task' = Added(task, "fix", FixRuns(i) + 1, 0) /\ Return(i) /\ UNCHANGED run
  BY DEF Verify, retryFinalFixVerify
<1>4. /\ Same(run') /\ TasksKept(task')
      /\ call' \in [Run -> CallRow] /\ \A j \in Run : RoutedBy(j, call'[j])
  <2>1. CASE Verified(i) /\ UNCHANGED <<run, task>>
    BY <1>1, <2>1, VerifiedKeeps, RunsStay, TasksStay
  <2>2. CASE dispatchVerificationFix(i) /\ Return(i)
    BY <1>2, <2>2, VerificationFix, Returned
  <2>3. CASE run' = [run EXCEPT ![i].again = TRUE] /\ Wait(i, "again") /\ UNCHANGED task
    BY <1>1, <1>2, <2>3, RunWrites, OneRun, TasksStay, Waited
  <2>4. CASE run' = [run EXCEPT ![i] = Failed(@)] /\ Return(i) /\ UNCHANGED task
    BY <1>2, <2>4, RunWrites, OneRun, TasksStay, Returned
  <2>5. CASE Kind(i) = "impl" /\ Room /\ task' = Added(task, "fix", FixRuns(i) + 1, 0) /\ Return(i) /\ UNCHANGED run
    <3>1. FixRuns(i) = 0
      BY <1>2, <2>5, ChainIs DEF Inv
    <3>2. TasksKept(Added(task, "fix", 1, 0))
      BY <2>5, AddedKept DEF Inv, FollowUps
    <3> QED BY <2>5, <3>1, <3>2, RunsStay, Returned
  <2> QED BY <1>3, <2>1, <2>2, <2>3, <2>4, <2>5
<1>5. cleared' \subseteq Run
  BY <1>1 DEF Inv, TypeOK
<1> QED BY <1>1, <1>2, <1>4, <1>5, Turn

LEMMA dispatchReviewInv ==
  ASSUME Inv, NEW i \in Run, dispatchReview(i)
  PROVE  Kept
<1> DEFINE t == run[i].task
           T == Added(task, "review", task[t].round + 1, head[run[i].tree])
<1>1. /\ call[i].pc = "review" /\ Room
      /\ task' = (IF Kind(i) = "fix" THEN CompletedTask(T, i) ELSE T)
      /\ run' = Completed(run, i) /\ Return(i)
      /\ UNCHANGED <<session, boot, cleared, acall, retrying, head, merged, upsets>>
  BY DEF dispatchReview, calls, git
<1>2. i \in Created /\ Created # {} /\ Kind(i) # "review" /\ run[i].complete /\ task[t] \in TaskRow
      /\ run[i].tree \in Run
  BY <1>1, Called, Kinds DEF Inv
<1>3. head[run[i].tree] \in Run \cup {0} /\ head[run[i].tree] # 0
  BY <1>2, TypeIs DEF Inv, Heads
<1>4. TasksKept(T)
  <2>1. task[t].round + 1 \in Nat
    BY <1>2 DEF TaskRow
  <2> QED BY <1>1, <1>3, <2>1, AddedKept DEF Inv, FollowUps
<1> HIDE DEF T
<1>5. Same(run') /\ TasksKept(task')
  BY <1>1, <1>2, <1>4, SameSelf, CompletedKeeps DEF Inv
<1>6. cleared' \subseteq Run
  BY <1>1 DEF Inv, TypeOK
<1> QED BY <1>1, <1>2, <1>5, <1>6, Returned, Turn

LEMMA ShippableIs ==
  ASSUME NEW Q, Same(Q), NEW r \in Created, r \in Run, NEW R \in Shippable(Q, r)
  PROVE  Same(R)
<1>1. Q[r] \in RunRow /\ Q[r].stage # "absent"
  BY DEF Same, SameRun, Created
<1>2. R = [Q EXCEPT ![r] = Advanced(Q[r])] \/ R = [Q EXCEPT ![r] = Failed(Q[r])]
  BY DEF Shippable
<1>3. SameRun(Advanced(Q[r]), Q[r]) /\ SameRun(Failed(Q[r]), Q[r])
  BY <1>1, RunWrites
<1>4. Same([Q EXCEPT ![r] = Advanced(Q[r])]) /\ Same([Q EXCEPT ![r] = Failed(Q[r])])
  BY <1>3, SameExcept
<1> QED BY <1>2, <1>4

LEMMA UnreviewedInv ==
  ASSUME Inv, NEW i \in Run, AdvanceUnreviewed(i) \/ ShipUnreviewed(i)
  PROVE  Kept
<1>1. call[i].pc \in {"unreviewed", "unreviewedShip"}
  BY DEF AdvanceUnreviewed, ShipUnreviewed
<1>2. i \in Created /\ Created # {} /\ run[i] \in RunRow /\ run[i].stage # "absent" /\ Kind(i) # "review"
      /\ run[i].tree \in Run /\ run[i].complete
  BY <1>1, Called, Kinds DEF Inv
<1>3. CASE AdvanceUnreviewed(i)
  <2>1. /\ run' = [run EXCEPT ![i] = Advanced(@)] /\ cleared' = cleared \cup {head[run[i].tree]}
        /\ Wait(i, "unreviewedShip")
        /\ UNCHANGED <<task, session, boot, acall, retrying, head, merged, upsets>>
    BY <1>3 DEF AdvanceUnreviewed, calls
  <2>2. Same(run') /\ TasksKept(task')
    BY <1>2, <2>1, RunWrites, OneRun, TasksStay
  <2>3. cleared' \subseteq Run
    BY <1>2, <2>1, TypeIs DEF Inv, Heads
  <2>4. call' \in [Run -> CallRow] /\ \A j \in Run : RoutedBy(j, call'[j])
    BY <1>1, <1>2, <2>1, Waited
  <2> QED BY <1>2, <2>1, <2>2, <2>3, <2>4, Turn
<1>4. CASE ShipUnreviewed(i)
  <2>1. Return(i) /\ UNCHANGED <<session, boot, cleared, acall, retrying, head, merged, upsets>>
    BY <1>4 DEF ShipUnreviewed, calls, git
  <2>2. PICK R \in Shippable(run, i) :
          IF Kind(i) = "fix" THEN run' = Completed(R, i) /\ task' = CompletedTask(task, i)
          ELSE run' = R /\ UNCHANGED task
    BY <1>4 DEF ShipUnreviewed
  <2>3. Same(R)
    BY <1>2, SameSelf, ShippableIs DEF Inv
  <2>4. Same(run') /\ TasksKept(task')
    BY <1>2, <2>2, <2>3, TasksSelf, TasksStay, CompletedKeeps DEF Inv
  <2>5. cleared' \subseteq Run
    BY <2>1 DEF Inv, TypeOK
  <2> QED BY <1>2, <2>1, <2>4, <2>5, Returned, Turn
<1> QED BY <1>3, <1>4

LEMMA ReopenedIs ==
  ASSUME NEW row \in RunRow, row.stage # "absent", NEW c
  PROVE  SameRun(Reopened(row, c), row) /\ SameRun(Advanced(Reopened(row, c)), row)
<1>1. SameRun(Reopened(row, c), row) /\ Reopened(row, c) \in RunRow /\ Reopened(row, c).stage # "absent"
  BY DEF SameRun, Reopened, RunRow, Stages, Ended
<1>2. SameRun(Advanced(Reopened(row, c)), Reopened(row, c))
  BY <1>1, RunWrites
<1> QED BY <1>1, <1>2, SameRunAgain

LEMMA AdvanceReviewedInv ==
  ASSUME Inv, NEW i \in Run, AdvanceReviewed(i)
  PROVE  Kept
<1>1. /\ call[i].pc = "sync"
      /\ task' = (IF call[i].ost = "failed" THEN TaskTo(Root, "active") ELSE task)
      /\ Wait(i, "ship") \/ Return(i)
      /\ UNCHANGED <<session, boot, cleared, acall, retrying, head, merged, upsets>>
  BY DEF AdvanceReviewed, calls, git
<1>2. i \in Created /\ Created # {} /\ call[i].root \in Created
  BY <1>1, Called
<1>3. call[i].root \in Run /\ run[call[i].root] \in RunRow /\ run[call[i].root].stage # "absent"
  BY <1>2, Kinds DEF Inv
<1>4. Same(run')
  <2>1. PICK row : row = Reopened(run[call[i].root], call[i])
    OBVIOUS
  <2>2. \/ run' = [run EXCEPT ![call[i].root] = row]
        \/ run' = [run EXCEPT ![call[i].root] = Advanced(row)]
    <3> DEFINE R == [run EXCEPT ![call[i].root] = row]
    <3>1. R = [run EXCEPT ![call[i].root] = Reopened(@, call[i])] /\ R[call[i].root] = row
      BY <1>3, <2>1, TypeIs DEF Inv
    <3>2. run' = R \/ run' = [R EXCEPT ![call[i].root] = Advanced(R[call[i].root])]
      BY <3>1 DEF AdvanceReviewed
    <3>3. [R EXCEPT ![call[i].root] = Advanced(row)] = [run EXCEPT ![call[i].root] = Advanced(row)]
      BY <1>3, TypeIs DEF Inv
    <3> QED BY <3>1, <3>2, <3>3
  <2> QED BY <1>3, <2>1, <2>2, ReopenedIs, OneRun
<1>5. TasksKept(task')
  <2>1. Root \in Task /\ task[Root].kind # "none"
    BY RootIsTask DEF Inv, Rows, Tasks
  <2> QED BY <1>1, <2>1, TasksSelf, Statused DEF Inv, Statuses
<1>6. call' \in [Run -> CallRow] /\ \A j \in Run : RoutedBy(j, call'[j])
  BY <1>1, Waited, Returned
<1>7. cleared' \subseteq Run
  BY <1>1 DEF Inv, TypeOK
<1> QED BY <1>1, <1>2, <1>4, <1>5, <1>6, <1>7, Turn

LEMMA ShipReviewedInv ==
  ASSUME Inv, NEW i \in Run, ShipReviewed(i)
  PROVE  Kept
<1> DEFINE c == call[i]
           C(R) == [j \in Run |-> IF j \in FixesOf(c) /\ Open(R[j]) THEN Done(R[j]) ELSE R[j]]
           T == [t \in Task |-> IF \E j \in FixesOf(c) : run[j].task = t
                                THEN [task[t] EXCEPT !.st = "done"] ELSE task[t]]
<1>1. /\ c.pc = "ship" /\ Return(i) /\ task' = CompletedTask(T, i)
      /\ UNCHANGED <<session, boot, cleared, acall, retrying, head, merged, upsets>>
  BY DEF ShipReviewed, calls, git
<1>2. PICK R \in Shippable(run, c.root) : run' = Completed(C(R), i)
  BY DEF ShipReviewed
<1>3. i \in Created /\ Created # {} /\ c.root \in Created /\ c.root \in Run /\ c.par \in Created
  BY <1>1, Called, Kinds DEF Inv
<1>4. FixesOf(c) \subseteq Created
  BY <1>3, ChainIs DEF FixesOf, Inv
<1>5. Same(R)
  BY <1>3, SameSelf, ShippableIs DEF Inv
<1>6. Same(C(R))
  <2>1. ASSUME NEW j \in Run PROVE C(R)[j] \in RunRow /\ SameRun(C(R)[j], run[j])
    <3>1. R[j] \in RunRow /\ SameRun(R[j], run[j])
      BY <1>5 DEF Same
    <3>2. SameRun(C(R)[j], R[j])
      <4>1. CASE j \in FixesOf(c) /\ Open(R[j])
        BY <3>1, <4>1, RunWrites DEF Open
      <4>2. CASE ~(j \in FixesOf(c) /\ Open(R[j]))
        BY <3>1, <4>2, RunWrites
      <4> QED BY <4>1, <4>2
    <3> QED BY <3>1, <3>2, SameRunAgain DEF SameRun
  <2> QED BY <2>1 DEF Same
<1>7. TasksKept(T)
  <2>1. T = [t \in Task |-> T[t]]
    OBVIOUS
  <2>2. \A t \in Task : \/ T[t] = task[t]
                        \/ task[t].kind # "none" /\ \E st \in Statuses : T[t] = [task[t] EXCEPT !.st = st]
    <3>1. \A j \in FixesOf(c) : task[run[j].task].kind # "none"
      BY <1>4, Kinds DEF Inv
    <3> QED BY <3>1 DEF Statuses
  <2> HIDE DEF T
  <2> QED BY <2>1, <2>2, Restatused DEF Inv
<1> HIDE DEF T, C
<1>8. Same(run') /\ TasksKept(task')
  BY <1>1, <1>2, <1>3, <1>6, <1>7, CompletedKeeps
<1>9. cleared' \subseteq Run
  BY <1>1 DEF Inv, TypeOK
<1> QED BY <1>1, <1>3, <1>8, <1>9, Returned, Turn

LEMMA ThrowInv ==
  ASSUME Inv, NEW i \in Run, Throw(i)
  PROVE  Kept
<1>1. Return(i) /\ UNCHANGED <<run, task, session, boot, cleared, acall, retrying, head, merged, upsets>>
      /\ call[i].pc # "none"
  BY DEF Throw, calls, git
<1>2. Created # {} /\ cleared' \subseteq Run
  BY <1>1, Called DEF Inv, TypeOK
<1> QED BY <1>1, <1>2, RunsStay, TasksStay, Returned, Turn

--------------------------------------------------------------------------------
(* The operator.                                                               *)

LEMMA SettledKeeps ==
  ASSUME Inv, NEW R, NEW S, S \subseteq Created
  PROVE  TasksKept(Settled(R, S))
<1> DEFINE T == Settled(R, S)
<1>1. T = [t \in Task |-> T[t]]
  BY DEF Settled
<1>2. ASSUME NEW t \in Task
      PROVE  \/ T[t] = task[t]
             \/ task[t].kind # "none" /\ \E st \in Statuses : T[t] = [task[t] EXCEPT !.st = st]
  <2> DEFINE st1 == IF R[Latest(RunsOf(t))].stage = "done" /\ R[Latest(RunsOf(t))].term = "none"
                    THEN "done" ELSE "failed"
  <2>1. CASE \A i \in S : run[i].task # t
    BY <2>1 DEF Settled
  <2>2. CASE ~\A i \in S : run[i].task # t
    <3>1. task[t].kind # "none"
      BY <2>2, Kinds DEF Inv
    <3>2. st1 \in Statuses
      BY DEF Statuses
    <3>3. T[t] = task[t] \/ T[t] = [task[t] EXCEPT !.st = st1]
      BY DEF Settled
    <3> HIDE DEF T, st1
    <3> QED BY <3>1, <3>2, <3>3
  <2> QED BY <2>1, <2>2
<1> HIDE DEF T
<1>3. TasksKept(T)
  BY <1>1, <1>2, Restatused DEF Inv
<1> QED BY <1>3 DEF T

\* A step of an operator leaves the commits alone.
LEMMA OperatorTurn ==
  ASSUME Inv, Same(run'), TasksKept(task'), Created # {},
         session' \subseteq session, retrying' \subseteq Created,
         acall' \in [Run -> {"none", "merge", "finalize"}], \A i \in Run : acall'[i] # "none" => i \in Created,
         merged' \subseteq Run, upsets' \in Seq({"crash", "cancel", "reject", "retry"}),
         UNCHANGED <<call, boot, head, cleared>>
  PROVE  Kept
<1>1. boot' \subseteq Created /\ cleared' \subseteq Run /\ head' = head
  BY DEF Inv, Memory, TypeOK
<1> QED BY <1>1, CallSame, Step

LEMMA cancelRunInv ==
  ASSUME Inv, NEW i \in Run, cancelRun(i)
  PROVE  Kept
<1> DEFINE R == [run EXCEPT ![i] = Cancelled(@)]
<1>1. /\ Live(i) /\ Upset("cancel") /\ run' = R /\ task' = Settled(R, {i}) /\ session' = session \ {i}
      /\ UNCHANGED <<call, acall, retrying, boot, head, cleared, merged>>
  BY DEF cancelRun, calls, git
<1>2. i \in Created /\ Created # {} /\ run[i] \in RunRow
  BY <1>1, LiveIs, Kinds DEF Inv
<1>3. Same(run')
  BY <1>1, <1>2, RunWrites, OneRun
<1> HIDE DEF R
<1>4. TasksKept(task')
  BY <1>1, <1>2, SettledKeeps
<1>5. retrying' \subseteq Created /\ acall' \in [Run -> {"none", "merge", "finalize"}]
      /\ (\A j \in Run : acall'[j] # "none" => j \in Created) /\ merged' \subseteq Run
  BY <1>1 DEF Inv, Memory, TypeOK
<1>6. upsets' \in Seq({"crash", "cancel", "reject", "retry"})
  BY <1>1, UpsetIs DEF Inv
<1> QED BY <1>1, <1>2, <1>3, <1>4, <1>5, <1>6, OperatorTurn

LEMMA rejectRunInv ==
  ASSUME Inv, NEW i \in Run, rejectRun(i)
  PROVE  Kept
<1>1. /\ run[i].approval /\ Upset("reject") /\ run' = [run EXCEPT ![i] = Failed(@)]
      /\ UNCHANGED <<task, session, call, acall, retrying, boot, head, cleared, merged>>
  BY DEF rejectRun, calls, git
<1>2. i \in Created /\ Created # {} /\ run[i] \in RunRow
  BY <1>1, Kinds DEF Inv, Rows, Unborn
<1>3. Same(run') /\ TasksKept(task')
  BY <1>1, <1>2, RunWrites, OneRun, TasksStay
<1>4. retrying' \subseteq Created /\ acall' \in [Run -> {"none", "merge", "finalize"}]
      /\ (\A j \in Run : acall'[j] # "none" => j \in Created) /\ merged' \subseteq Run
  BY <1>1 DEF Inv, Memory, TypeOK
<1>5. upsets' \in Seq({"crash", "cancel", "reject", "retry"})
  BY <1>1, UpsetIs DEF Inv
<1> QED BY <1>1, <1>2, <1>3, <1>4, <1>5, OperatorTurn

LEMMA RetryInv ==
  ASSUME Inv, NEW i \in Run, RetryAsked(i) \/ RetryWritten(i)
  PROVE  Kept
<1>1. UNCHANGED <<session, call, acall, boot, head, cleared, merged>>
  BY DEF RetryAsked, RetryWritten, git
<1>2. i \in Created /\ Created # {} /\ run[i] \in RunRow
  BY Kinds DEF RetryAsked, RetryWritten, Inv, Memory
<1>3. acall' \in [Run -> {"none", "merge", "finalize"}]
      /\ (\A j \in Run : acall'[j] # "none" => j \in Created) /\ merged' \subseteq Run
  BY <1>1 DEF Inv, Memory, TypeOK
<1>4. CASE RetryAsked(i)
  <2>1. Upset("retry") /\ retrying' = retrying \cup {i} /\ UNCHANGED <<run, task>>
    BY <1>4 DEF RetryAsked
  <2>2. Same(run') /\ TasksKept(task')
    BY <2>1, RunsStay, TasksStay
  <2>3. upsets' \in Seq({"crash", "cancel", "reject", "retry"})
    BY <2>1, UpsetIs DEF Inv
  <2>4. retrying' \subseteq Created
    BY <1>2, <2>1 DEF Inv, Memory
  <2> QED BY <1>1, <1>2, <1>3, <2>2, <2>3, <2>4, OperatorTurn
<1>5. CASE RetryWritten(i)
  <2> DEFINE t == run[i].task
             row == [task[t] EXCEPT !.st = "ready", !.retries = 0]
  <2>1. /\ run' = [run EXCEPT ![i].term = "failed"] /\ retrying' = retrying \ {i}
        /\ task' = [task EXCEPT ![t] = row] /\ UNCHANGED upsets
    <3>1. t \in Task /\ task[t] \in TaskRow
      BY <1>2, Kinds DEF Inv
    <3>2. [task EXCEPT ![t].st = "ready", ![t].retries = 0] = [task EXCEPT ![t] = row]
      BY <3>1, TypeIs DEF Inv, TaskRow
    <3> QED BY <1>5, <3>2 DEF RetryWritten
  <2>2. row \in TaskRow /\ row.kind = task[t].kind /\ row.round = task[t].round /\ row.ver = task[t].ver
    <3>1. task[t] \in TaskRow
      BY <1>2, Kinds DEF Inv
    <3> QED BY <3>1 DEF TaskRow, Statuses
  <2> HIDE DEF row
  <2>3. Same(run') /\ TasksKept(task')
    BY <1>2, <2>1, <2>2, RunWrites, OneRun, OneTask
  <2>4. retrying' \subseteq Created /\ upsets' \in Seq({"crash", "cancel", "reject", "retry"})
    BY <2>1 DEF Inv, Memory, TypeOK
  <2> QED BY <1>1, <1>2, <1>3, <2>1, <2>3, <2>4, OperatorTurn
<1> QED BY <1>4, <1>5

LEMMA ApprovalInv ==
  ASSUME Inv, NEW i \in Run, approveRun(i) \/ MergeApproved(i)
  PROVE  Kept
<1>1. UNCHANGED <<run, task, session, call, retrying, boot, head, cleared, upsets>>
  BY DEF approveRun, MergeApproved, git
<1>2. i \in Created /\ Created # {} /\ run[i].tree \in Run
  <2>1. i \in Created
    BY DEF approveRun, MergeApproved, Inv, Memory, Rows, Unborn
  <2> QED BY <2>1, Kinds DEF Inv
<1>3. acall' \in [Run -> {"none", "merge", "finalize"}] /\ \A j \in Run : acall'[j] # "none" => j \in Created
  <2>1. PICK a \in {"none", "merge", "finalize"} : acall' = [acall EXCEPT ![i] = a]
    BY DEF approveRun, MergeApproved
  <2> QED BY <1>2, <2>1 DEF Inv, Memory, TypeOK
<1>4. merged' \subseteq Run
  BY <1>2 DEF approveRun, MergeApproved, git, Inv, TypeOK
<1>5. Same(run') /\ TasksKept(task') /\ retrying' \subseteq Created
      /\ upsets' \in Seq({"crash", "cancel", "reject", "retry"})
  BY <1>1, RunsStay, TasksStay DEF Inv, Memory, TypeOK
<1> QED BY <1>1, <1>2, <1>3, <1>4, <1>5, OperatorTurn

LEMMA finalizeSuccessfulMergeInv ==
  ASSUME Inv, NEW i \in Run, finalizeSuccessfulMerge(i)
  PROVE  Kept
<1> DEFINE shared == {j \in Run : Live(j) /\ run[j].tree = run[i].tree}
           S == shared \cup {i} \cup {j \in Chain(i) : Live(j)}
           R == [j \in Run |-> IF j \in S THEN Done(run[j]) ELSE run[j]]
<1>1. /\ acall[i] = "finalize" /\ acall' = [acall EXCEPT ![i] = "none"]
      /\ run' = R /\ task' = Settled(R, S) /\ session' = session \ shared
      /\ UNCHANGED <<call, retrying, boot, head, cleared, merged, upsets>>
  BY DEF finalizeSuccessfulMerge, git
<1>2. i \in Created /\ Created # {}
  BY <1>1 DEF Inv, Memory
<1>3. S \subseteq Created
  BY <1>2, LiveIs, ChainIs DEF Inv
<1> HIDE DEF shared, S
<1>4. Same(R)
  <2>1. ASSUME NEW j \in Run PROVE R[j] \in RunRow /\ SameRun(R[j], run[j])
    <3>1. run[j] \in RunRow /\ (j \in S => run[j].stage # "absent")
      BY <1>3, Kinds, TypeIs DEF Inv
    <3>2. SameRun(R[j], run[j])
      <4>1. CASE j \in S
        BY <3>1, <4>1, RunWrites
      <4>2. CASE j \notin S
        BY <3>1, <4>2, RunWrites
      <4> QED BY <4>1, <4>2
    <3> QED BY <3>2 DEF SameRun
  <2> QED BY <2>1 DEF Same
<1> HIDE DEF R
<1>5. Same(run') /\ TasksKept(task')
  BY <1>1, <1>3, <1>4, SettledKeeps
<1>6. /\ acall' \in [Run -> {"none", "merge", "finalize"}] /\ \A j \in Run : acall'[j] # "none" => j \in Created
      /\ retrying' \subseteq Created /\ merged' \subseteq Run
      /\ upsets' \in Seq({"crash", "cancel", "reject", "retry"})
  BY <1>1 DEF Inv, Memory, TypeOK
<1> QED BY <1>1, <1>2, <1>5, <1>6, OperatorTurn

--------------------------------------------------------------------------------
(* The theorems.                                                               *)

LEMMA InvNext ==
  ASSUME Inv, Next
  PROVE  Inv'
<1>1. ASSUME NEW t \in Task, Dispatch(t) PROVE Inv'
  BY <1>1, DispatchInv
<1>2. ASSUME NEW i \in Run, Complete(i) \/ Die(i) \/ StaleSlot(i) \/ Reconcile(i) PROVE Inv'
  BY <1>2, CompleteInv, DieInv, StaleSlotInv, ReconcileInv DEF Kept
<1>3. ASSUME NEW i \in Run, Route(i) \/ Verify(i) \/ retryFinalFixVerify(i) \/ dispatchReview(i) PROVE Inv'
  BY <1>3, RouteInv, VerifyInv, dispatchReviewInv DEF Kept
<1>4. ASSUME NEW i \in Run,
             AdvanceUnreviewed(i) \/ ShipUnreviewed(i) \/ AdvanceReviewed(i) \/ ShipReviewed(i) \/ Throw(i)
      PROVE  Inv'
  BY <1>4, UnreviewedInv, AdvanceReviewedInv, ShipReviewedInv, ThrowInv DEF Kept
<1>5. ASSUME NEW i \in Run,
             \/ cancelRun(i) \/ rejectRun(i) \/ RetryAsked(i) \/ RetryWritten(i)
             \/ approveRun(i) \/ MergeApproved(i) \/ finalizeSuccessfulMerge(i)
      PROVE  Inv'
  BY <1>5, cancelRunInv, rejectRunInv, RetryInv, ApprovalInv, finalizeSuccessfulMergeInv DEF Kept
<1>6. ASSUME Crash PROVE Inv'
  BY <1>6, CrashInv DEF Kept
<1> QED BY <1>1, <1>2, <1>3, <1>4, <1>5, <1>6 DEF Next

LEMMA Invariance == Spec => []Inv
<1>1. Inv /\ [Next]_vars => Inv'
  BY InvNext, InvStutter
<1> QED BY <1>1, InvInit, PTL DEF Spec

\* Every row, call and call of an operator has its type, whatever runs, calls and bounds there are.
THEOREM TypeCorrect == Spec => []TypeOK
<1>1. Inv => TypeOK
  BY DEF Inv
<1> QED BY <1>1, Invariance, PTL

\* Two agents never work in one worktree (isWorktreeContested): an implementation works in its
\* own, and a review or a fix only starts when nobody is at work.
THEOREM WorktreesExclusive == Spec => []OneSessionPerTree
<1>1. Inv => OneSessionPerTree
  BY DEF Inv
<1> QED BY <1>1, Invariance, PTL

\* No lineage is fixed more often than maxFixIterations: the rounds are those of the parent chain
\* of the run that asks for a fix (dispatchVerificationFix, onReviewResult), and the rebase fix,
\* which does not look at them, is asked for by an implementation only, whose chain has none.
THEOREM RoundsAreBounded == Spec => []RoundsBounded
<1>1. Inv => RoundsBounded
  BY DEF Inv, Rows, Tasks, RoundsBounded
<1> QED BY <1>1, Invariance, PTL

--------------------------------------------------------------------------------
(* The lineage while no operator has retried one of its runs.                  *)

Trunk == Latest(RunsOf(Root))     \* the run whose worktree the lineage works in
Active(i) == i \in session \/ call[i].pc # "none"
Ready(t) == task[t].st = "ready"
IsFollow(t) == task[t].kind \in FollowUps
Undone(t) == task[t].st # "done"
Last(i) == \A j \in RunsOf(run[i].task) : j <= i
Works(i) == Kind(i) # "review"

\* One run is at work or routed, or one task is ready, or the start-up reconcile decides.
OneToken ==
  /\ \A i, j \in Created : Active(i) /\ Active(j) => i = j
  /\ \A t, u \in Task : Ready(t) /\ Ready(u) => t = u
  /\ \A i \in Created, t \in Task : Active(i) => ~Ready(t)
  /\ boot # {} => session = {}
Sessions ==
  \A i \in Created :
    /\ i \in session => Live(i)
    /\ i \in session /\ call[i].pc = "none" => ~run[i].complete
    /\ call[i].pc \notin {"none", "release"} => i \notin session
Lives ==
  \A i \in Created :
    /\ Live(i) => Last(i) /\ ~Ready(run[i].task) /\ (IsFollow(run[i].task) => Undone(run[i].task))
    /\ Active(i) => Last(i)
    /\ run[i].complete /\ Works(i) => Last(i) /\ ~Ready(run[i].task)
\* Reviews and fixes follow a completed implementation.
Preceded == (\E t \in Task : IsFollow(t)) => \E i \in Created : Kind(i) = "impl" /\ run[i].complete
\* Who is the parent of whom.
Shape ==
  \A i, j \in Created :
    /\ Kind(i) # "impl" /\ Kind(j) = "impl" => j < i
    /\ Kind(i) # "impl" => run[i].tree = Trunk
    /\ Kind(i) = "fix" /\ Works(j) /\ j < i => j <= run[i].par
    /\ Kind(i) = "review" /\ (Live(i) \/ Active(i)) /\ Works(j) => j <= run[i].par
OneReview ==
  \A k \in Created : Kind(k) = "review" /\ Live(k) =>
    (\A j \in Created : Active(j) => j = k) /\ \A t \in Task : ~Ready(t)
BootDead == \A i \in Created : \A k \in boot : Active(i) => i < k /\ ~Live(k)
\* What a call has read is still so, or does not matter.
CallKnown(i, c) ==
  /\ c.pc # "none" /\ ~c.live => run[i].stage = "done"
  /\ c.pc \in {"sync", "ship"} => c.root = Trunk /\ c.par = run[i].par /\ run[i].says = "pass" /\ Kind(i) = "review"
  /\ c.pc \in {"sync", "ship", "unreviewedShip"} => head[Trunk] \in cleared
Calls ==
  \A i \in Created :
    /\ CallKnown(i, call[i])
    /\ Active(i) /\ Kind(i) = "impl" => \A t \in Task : IsFollow(t) => ~Undone(t)
    /\ Active(i) /\ Kind(i) = "review" /\ ~Undone(run[i].task) => \A j \in Created : Kind(j) = "fix" => ~Live(j)
\* An approval is open, or its merge is under way.
Approved(a) == run[a].approval /\ Live(a)
Pending == \E a \in Created : Approved(a) \/ acall[a] = "merge"
Passing(i) ==
  \/ call[i].pc \in {"none", "sync", "ship", "unreviewedShip"}
  \/ call[i].pc = "release" /\ Kind(i) = "review" /\ run[i].says = "pass"
Still == Pending => session = {} /\ (\A t \in Task : ~Ready(t)) /\ \A i \in Created : Passing(i)
Offered(a) == run[a].approval => run[a].stage = "ship" /\ Works(a) /\ run[a].complete
Approvals ==
  \A a \in Created :
    /\ Offered(a)
    /\ acall[a] # "none" => Works(a) /\ run[a].complete
    /\ Approved(a) /\ Kind(a) = "impl" =>
         /\ (\E j \in Created : Kind(j) = "fix" /\ Live(j)) => \E t \in Task : task[t].kind = "review" /\ Undone(t)
         /\ \A j \in Created : Kind(j) = "review" /\ Live(j) => run[j].says = "pass"
\* What the start-up reconcile may still find does not disturb a merge.
Harmless(j) == ~Live(j) \/ Owned(j) \/ (Kind(j) = "review" /\ run[j].says = "pass")
MergeBoot == \A a \in Created : \A j \in boot : acall[a] = "merge" => Harmless(j)
\* A review is about the commit that the worktree is at, and what is offered has been cleared.
Commits ==
  /\ \A k \in Created : Kind(k) = "review" /\ (Live(k) \/ Active(k)) => task[run[k].task].ver = head[Trunk]
  /\ \A t \in Task : task[t].kind = "review" /\ Ready(t) => task[t].ver = head[Trunk]
  /\ Pending => head[Trunk] \in cleared
  /\ merged \subseteq cleared
Orderly ==
  /\ OneToken /\ Sessions /\ Lives /\ Preceded /\ Shape /\ OneReview /\ BootDead
  /\ Calls /\ Still /\ Approvals /\ MergeBoot /\ Commits

\* What rows and tasks a step that creates no run leaves alone.
LEMMA Frame ==
  ASSUME Inv, Kept
  PROVE  /\ Inv' /\ Created' = Created
         /\ \A i \in Created : /\ i \in Run /\ run'[i].task = run[i].task /\ run'[i].par = run[i].par
                               /\ run'[i].tree = run[i].tree /\ run'[i].complete = run[i].complete
                               /\ run'[i].says = run[i].says /\ Kind(i)' = Kind(i)
                               /\ run[i].task \in Task /\ Kind(i) = task[run[i].task].kind
                               /\ task'[run[i].task].kind = task[run[i].task].kind
                               /\ task'[run[i].task].ver = task[run[i].task].ver
                               /\ (Last(i)' <=> Last(i)) /\ (Works(i)' <=> Works(i))
                               /\ (IsFollow(run[i].task)' <=> IsFollow(run[i].task))
                               /\ (IsFollow(run[i].task) <=> Kind(i) # "impl")
                               /\ Kind(i) \in {"impl", "review", "fix"}
         /\ \A t \in Task : \/ task'[t].kind = task[t].kind /\ task'[t].ver = task[t].ver
                            \/ t = FreshTask /\ task[t].kind = "none" /\ task'[t].kind \in FollowUps
         /\ Trunk' = Trunk
<1>1. \A i \in Run : /\ run'[i].task = run[i].task /\ run'[i].par = run[i].par
                     /\ run'[i].tree = run[i].tree /\ run'[i].complete = run[i].complete
                     /\ run'[i].says = run[i].says /\ (run'[i].stage = "absent" <=> run[i].stage = "absent")
  BY DEF Kept, Same, SameRun
<1>2. Created' = Created /\ Inv'
  BY <1>1 DEF Created, Kept
<1>3. \A t \in Task : task[t].kind = "none" <=> ~(t < FreshTask)
  BY FreshTaskIs DEF Inv, Rows
<1>4. ASSUME NEW t \in Task
      PROVE  \/ task'[t].kind = task[t].kind /\ task'[t].ver = task[t].ver
             \/ t = FreshTask /\ task[t].kind = "none" /\ task'[t].kind \in FollowUps
  <2>1. SameTask(task'[t], task[t]) \/ (t = FreshTask /\ NewTask(task'[t]))
    BY DEF Kept, TasksKept
  <2>2. FreshTask \in Nat
    BY FreshTaskIs DEF Inv, Rows
  <2> QED BY <1>3, <2>1, <2>2 DEF SameTask, NewTask
<1>5. \A t : RunsOf(t)' = RunsOf(t)
  BY <1>1, <1>2 DEF RunsOf, Created
<1>6. ASSUME NEW i \in Created
      PROVE  /\ i \in Run /\ Kind(i)' = Kind(i) /\ run[i].task \in Task /\ Kind(i) = task[run[i].task].kind
             /\ task'[run[i].task].kind = task[run[i].task].kind
             /\ task'[run[i].task].ver = task[run[i].task].ver
             /\ Kind(i) \in {"impl", "review", "fix"}
  <2>1. i \in Run /\ run[i].task \in Task /\ run[i].task # FreshTask /\ Kind(i) = task[run[i].task].kind
        /\ Kind(i) \in {"impl", "review", "fix"}
    BY Kinds DEF Inv
  <2>2. task'[run[i].task].kind = task[run[i].task].kind /\ task'[run[i].task].ver = task[run[i].task].ver
    BY <1>4, <2>1
  <2> QED BY <1>1, <2>1, <2>2 DEF Kind
<1>7. \A i \in Created : (Last(i)' <=> Last(i)) /\ (Works(i)' <=> Works(i))
  BY <1>1, <1>5, <1>6 DEF Last, Works
<1>8. \A i \in Created : /\ IsFollow(run[i].task)' <=> IsFollow(run[i].task)
                         /\ IsFollow(run[i].task) <=> Kind(i) # "impl"
  BY <1>1, <1>6 DEF IsFollow, FollowUps
<1>9. Trunk' = Trunk
  BY <1>5 DEF Trunk
<1> QED BY <1>1, <1>2, <1>4, <1>6, <1>7, <1>8, <1>9

\* The chain of a run goes on to its root.
LEMMA ChainClosed ==
  ASSUME TypeOK, Rows, NEW i \in Created, NEW j \in Chain(i), run[j].par # 0
  PROVE  run[j].par \in Chain(i)
<1>1. PICK f : ChainOf(f, i) /\ Chain(i) = f[MaxRuns]
  BY ChainDefined
<1> DEFINE Fine(n) == f[n] \subseteq Created /\ \A k \in f[n] : run[k].par = 0 \/ run[k].par \in f[n] \/ k <= i - n
           B == {n \in 0 .. MaxRuns : ~Fine(n)}
<1>2. \A k \in Created : k \in Nat /\ k >= 1 /\ k <= MaxRuns
  BY DEF Created, Run
<1>3. \A k \in Created : run[k].par = 0 \/ (run[k].par \in Created /\ run[k].par < k)
  BY Kinds
<1>4. B = {}
  <2> SUFFICES ASSUME B # {} PROVE FALSE
    OBVIOUS
  <2>1. PICK n \in B : \A k \in B : n <= k
    <3>1. B \in SUBSET Nat
      OBVIOUS
    <3> HIDE DEF B
    <3> QED BY <3>1, Least
  <2>2. n # 0
    <3>1. f[0] = {i}
      BY <1>1 DEF ChainOf
    <3>2. Fine(0)
      BY <1>2, <3>1
    <3> QED BY <2>1, <3>2
  <2>3. n - 1 \in 0 .. MaxRuns /\ ~(n <= n - 1) /\ n \in Nat
    BY <2>2
  <2>4. Fine(n - 1)
    BY <2>1, <2>3
  <2>5. f[n] = Parents(f[n - 1])
    BY <1>1, <2>2 DEF ChainOf
  <2>6. f[n] \subseteq Created
    BY <1>3, <2>4, <2>5 DEF Parents
  <2>7. ASSUME NEW k \in f[n] PROVE run[k].par = 0 \/ run[k].par \in f[n] \/ k <= i - n
    <3>1. CASE k \in f[n - 1]
      BY <2>5, <3>1 DEF Parents
    <3>2. CASE k \notin f[n - 1]
      <4>1. PICK m \in f[n - 1] : k = run[m].par /\ k # 0
        BY <2>5, <3>2 DEF Parents
      <4>2. m \in Created /\ m <= i - (n - 1)
        BY <2>4, <3>2, <4>1
      <4>3. k < m /\ k \in Created
        BY <1>3, <4>1, <4>2
      <4> QED BY <1>2, <2>3, <4>2, <4>3
    <3> QED BY <3>1, <3>2
  <2>8. Fine(n)
    BY <2>6, <2>7
  <2> QED BY <2>1, <2>8
<1>5. Fine(MaxRuns)
  BY <1>4
<1> HIDE DEF B
<1>6. j \in Created /\ ~(j <= i - MaxRuns)
  BY <1>1, <1>2, <1>5
<1> QED BY <1>1, <1>5, <1>6

\* The newest implementation is the trunk, and every review and fix belongs to it.
LEMMA TrunkIs ==
  ASSUME Inv, Shape, NEW i \in Created
  PROVE  /\ Trunk \in Created /\ Trunk \in Run /\ Kind(Trunk) = "impl" /\ run[Trunk].task = Root /\ run[Trunk].par = 0
         /\ run[Trunk].tree = Trunk /\ Last(Trunk)
         /\ Kind(i) = "impl" => i <= Trunk /\ (Last(i) => i = Trunk)
         /\ Kind(i) # "impl" => Trunk < i /\ run[i].tree = Trunk
<1> USE DEF Inv
<1>1. RunsOf(Root) \in SUBSET Run /\ RunsOf(Root) # {}
  BY FirstIsRoot DEF RunsOf, Created
<1>2. Trunk \in RunsOf(Root) /\ \A j \in RunsOf(Root) : j <= Trunk
  BY <1>1, LatestIs DEF Trunk
<1>3. PICK t : t = Trunk
  OBVIOUS
<1>4. t \in Created /\ run[t].task = Root /\ \A j \in Created : run[j].task = Root => j <= t
  BY <1>2, <1>3 DEF RunsOf
<1>5. t \in Run /\ Kind(t) = "impl" /\ run[t].par = 0 /\ run[t].tree = t
  BY <1>4, Kinds
<1>6. Last(t)
  BY <1>4 DEF Last, RunsOf
<1>7. Kind(i) = "impl" => i <= t /\ (Last(i) => i = t)
  <2>1. Kind(i) = "impl" => run[i].task = Root
    BY Kinds
  <2>2. i \in Nat /\ t \in Nat
    BY <1>5, Kinds DEF Run
  <2> QED BY <1>4, <2>1, <2>2 DEF Last, RunsOf
<1>8. Kind(i) # "impl" => t < i /\ run[i].tree = t
  BY <1>3, <1>4, <1>5 DEF Shape
<1> QED BY <1>3, <1>4, <1>5, <1>6, <1>7, <1>8

\* The chain of a run of the trunk ends there.
LEMMA ChainOfTrunk ==
  ASSUME Inv, Shape, NEW i \in Created, i >= Trunk
  PROVE  /\ RootOf(i) = Trunk
         /\ \A j \in Chain(i) : j \in Created /\ j >= Trunk /\ (j # Trunk => Kind(j) # "impl")
<1> USE DEF Inv
<1> DEFINE S == {j \in Created : j >= Trunk}
<1>1. PICK t : t = Trunk
  OBVIOUS
<1>2. /\ t \in Created /\ run[t].par = 0
      /\ \A j \in Created : /\ j \in Nat /\ t \in Nat
                            /\ Kind(j) = "impl" => j <= t
                            /\ Kind(j) # "impl" => t < j /\ run[j].tree = t
  BY <1>1, TrunkIs DEF Created, Run
<1>3. \A j \in S : run[j].par = 0 \/ run[j].par \in S
  <2> SUFFICES ASSUME NEW j \in S, run[j].par # 0 PROVE run[j].par \in Created /\ run[j].par >= t
    BY <1>1
  <2>1. j \in Created /\ Kind(j) # "impl" /\ run[j].tree = t
    BY <1>2, Kinds
  <2>2. PICK p : p = run[j].par
    OBVIOUS
  <2>3. p \in Created /\ run[p].tree = t
    BY <2>1, <2>2, Kinds
  <2>4. Kind(p) = "impl" => p = t
    BY <2>3, Kinds
  <2> QED BY <1>2, <2>2, <2>3, <2>4
<1>4. i \in Chain(i) /\ Chain(i) \subseteq S
  <2>1. i \in S
    OBVIOUS
  <2> HIDE DEF S
  <2> QED BY <1>3, <2>1, ChainWithin
<1>5. ASSUME NEW j \in Chain(i) PROVE j \in Created /\ j >= t /\ (j # t => Kind(j) # "impl")
  BY <1>1, <1>2, <1>4
<1>6. PICK r : r = RootOf(i)
  OBVIOUS
<1>7. r \in Chain(i) /\ r \in Created /\ \A j \in Chain(i) : r <= j
  BY <1>6, ChainIs
<1>8. r = t
  <2> SUFFICES ASSUME r # t PROVE FALSE
    OBVIOUS
  <2>1. Kind(r) # "impl"
    BY <1>5, <1>7
  <2>2. run[r].par \in Created /\ run[r].par < r
    BY <1>7, <2>1, Kinds
  <2>3. run[r].par # 0 /\ r \in Nat /\ run[r].par \in Nat
    BY <1>2, <1>7, <2>2 DEF Created, Run
  <2>4. run[r].par \in Chain(i)
    BY <1>7, <2>3, ChainClosed
  <2> QED BY <1>7, <2>2, <2>3, <2>4
<1> QED BY <1>1, <1>5, <1>6, <1>8

\* It has every fix in between.
LEMMA ChainFull ==
  ASSUME Inv, Shape, NEW i \in Created, Works(i), NEW j \in Created, Kind(j) = "fix", j <= i
  PROVE  j \in Chain(i) /\ j # Trunk
<1> USE DEF Inv
<1>1. PICK t : t = Trunk
  OBVIOUS
<1>2. t \in Created /\ Kind(t) = "impl" /\ t < j /\ t \in Nat /\ \A k \in Created : k \in Nat
  BY <1>1, TrunkIs DEF Created, Run
<1> DEFINE S == {k \in Chain(i) : j <= k /\ Works(k)}
<1>3. i \in S /\ S \in SUBSET Nat /\ S \subseteq Created
  BY <1>2, ChainIs
<1>4. PICK m \in S : \A k \in S : m <= k
  <2> HIDE DEF S
  <2> QED BY <1>3, Least
<1>5. m = j
  <2> SUFFICES ASSUME m # j PROVE FALSE
    OBVIOUS
  <2>1. m \in Chain(i) /\ m \in Created /\ j < m /\ Works(m)
    BY <1>2, <1>3, <1>4
  <2>2. Kind(m) # "impl"
    <3>1. Kind(m) = "impl" => m < j
      BY <2>1 DEF Shape
    <3> QED BY <1>2, <2>1, <3>1
  <2>3. Kind(m) = "fix"
    BY <2>1, <2>2, Kinds DEF Works
  <2>4. j <= run[m].par
    BY <2>1, <2>3 DEF Shape, Works
  <2>5. run[m].par \in Created /\ run[m].par < m /\ Works(run[m].par)
    BY <2>1, <2>2, Kinds DEF Works
  <2>6. run[m].par # 0
    BY <2>5 DEF Created, Run
  <2>7. run[m].par \in S
    BY <2>1, <2>4, <2>5, <2>6, ChainClosed
  <2>8. m <= run[m].par /\ m \in Nat /\ run[m].par \in Nat
    BY <1>2, <1>4, <2>1, <2>5, <2>7
  <2> QED BY <2>5, <2>8
<1> QED BY <1>1, <1>2, <1>4, <1>5

\* A step that makes nobody active and no task ready, and revives the trunk at most.
LEMMA Moves ==
  ASSUME Inv, Orderly, Kept,
         \A i \in Created : Live(i)' => Live(i) \/ (i = Trunk /\ i \notin boot' /\ ~Ready(Root)'),
         \A i \in Created : Offered(i)',
         \A i \in Created : acall'[i] # "none" => Works(i) /\ run[i].complete,
         session' \subseteq session, \A i \in session' : Live(i)' /\ call'[i] = call[i],
         \A i \in Created : call'[i].pc # "none" => call[i].pc # "none",
         \A i \in Created : CallKnown(i, call[i])',
         \A t \in Task : Ready(t)' => Ready(t), \A t \in Task : task'[t].kind = task[t].kind,
         \A i \in Created : Live(i)' /\ Kind(i) # "impl" => Undone(run[i].task)',
         \A i \in Created : Active(i)' /\ Kind(i) = "impl" => \A t \in Task : IsFollow(t) => ~Undone(t)',
         \A i \in Created : Active(i)' /\ Kind(i) = "review" /\ ~Undone(run[i].task)' =>
           \A j \in Created : Kind(j) = "fix" => ~Live(j)',
         \A a \in Created : Approved(a)' /\ Kind(a) = "impl" =>
           /\ (\E j \in Created : Kind(j) = "fix" /\ Live(j)') => \E t \in Task : task[t].kind = "review" /\ Undone(t)'
           /\ \A j \in Created : Kind(j) = "review" /\ Live(j)' => run[j].says = "pass",
         \/ boot' \subseteq boot
         \/ session' = {} /\ \A i \in Created : call'[i].pc = "none",
         \A a \in Created : \A j \in boot' : acall'[a] = "merge" => Harmless(j)',
         head' = head, cleared \subseteq cleared', merged' \subseteq cleared',
         Pending' => /\ \/ Pending
                        \/ session' = {} /\ (\A t \in Task : ~Ready(t)') /\ head[Trunk] \in cleared'
                     /\ \A i \in Created : Passing(i)'
  PROVE  Orderly'
<1>1. /\ Created' = Created /\ Trunk' = Trunk
      /\ \A i \in Created : /\ run'[i].task = run[i].task /\ run'[i].par = run[i].par
                            /\ run'[i].tree = run[i].tree /\ run'[i].complete = run[i].complete
                            /\ run'[i].says = run[i].says /\ Kind(i)' = Kind(i)
                            /\ run[i].task \in Task /\ Kind(i) = task[run[i].task].kind
                            /\ task'[run[i].task].ver = task[run[i].task].ver
                            /\ (Last(i)' <=> Last(i)) /\ (Works(i)' <=> Works(i))
                            /\ (IsFollow(run[i].task)' <=> IsFollow(run[i].task))
                            /\ (IsFollow(run[i].task) <=> Kind(i) # "impl")
      /\ \A t \in Task : task'[t].kind = task[t].kind /\ task'[t].ver = task[t].ver
  BY Frame DEF FollowUps
<1>2. \A i \in Created : Active(i)' => Active(i)
  BY DEF Active
<1>3. \A i \in Created : i = Trunk => Kind(i) = "impl" /\ run[i].task = Root /\ Last(i)
  BY TrunkIs DEF Orderly
<1>4. \A t \in Task : IsFollow(t)' <=> IsFollow(t)
  BY <1>1 DEF IsFollow
<1>5. OneToken'
  <2>1. boot' # {} => session' = {}
    BY DEF Orderly, OneToken
  <2>2. \A i, j \in Created : Active(i)' /\ Active(j)' => i = j
    BY <1>2 DEF Orderly, OneToken
  <2>3. \A t, u \in Task : Ready(t)' /\ Ready(u)' => t = u
    BY DEF Orderly, OneToken
  <2>4. \A i \in Created, t \in Task : Active(i)' => ~Ready(t)'
    BY <1>2 DEF Orderly, OneToken
  <2> QED BY <1>1, <2>1, <2>2, <2>3, <2>4 DEF OneToken
<1>6. Sessions'
  <2>1. Sessions
    BY DEF Orderly
  <2> QED BY <1>1, <2>1 DEF Sessions
<1>7. Lives'
  <2>1. Lives
    BY DEF Orderly
  <2> SUFFICES ASSUME NEW i \in Created
               PROVE  /\ Live(i)' => Last(i) /\ ~Ready(run[i].task)' /\ (Kind(i) # "impl" => Undone(run[i].task)')
                      /\ Active(i)' => Last(i)
                      /\ run[i].complete /\ Works(i) => Last(i) /\ ~Ready(run[i].task)'
    BY <1>1 DEF Lives
  <2>2. Active(i)' => Last(i)
    BY <1>2, <2>1 DEF Lives
  <2>3. run[i].complete /\ Works(i) => Last(i) /\ ~Ready(run[i].task)'
    BY <1>1, <2>1 DEF Lives
  <2>4. Live(i)' => Last(i) /\ ~Ready(run[i].task)'
    <3>1. Live(i) => Last(i) /\ ~Ready(run[i].task)'
      BY <1>1, <2>1 DEF Lives
    <3>2. i = Trunk /\ ~Ready(Root)' => Last(i) /\ ~Ready(run[i].task)'
      BY <1>1, <1>3 DEF Ready
    <3> QED BY <3>1, <3>2
  <2> QED BY <2>2, <2>3, <2>4
<1>8. Preceded'
  <2>1. Preceded
    BY DEF Orderly
  <2> QED BY <1>1, <1>4, <2>1 DEF Preceded
<1>9. Shape'
  <2>1. Shape
    BY DEF Orderly
  <2>2. \A i \in Created : Kind(i) = "review" /\ (Live(i)' \/ Active(i)') => Live(i) \/ Active(i)
    BY <1>2, <1>3
  <2>3. \A i, j \in Created : Kind(i) = "review" /\ (Live(i)' \/ Active(i)') /\ Works(j) => j <= run[i].par
    BY <2>1, <2>2 DEF Shape
  <2> QED BY <1>1, <2>1, <2>3 DEF Shape
<1>10. OneReview'
  <2>1. OneReview
    BY DEF Orderly
  <2>2. \A k \in Created : Kind(k) = "review" /\ Live(k)' => Live(k)
    BY <1>3
  <2>3. \A k \in Created : Kind(k) = "review" /\ Live(k)' =>
          (\A j \in Created : Active(j)' => j = k) /\ \A t \in Task : ~Ready(t)'
    BY <1>2, <2>1, <2>2 DEF OneReview
  <2> QED BY <1>1, <2>3 DEF OneReview
<1>11. BootDead'
  <2>1. BootDead
    BY DEF Orderly
  <2>2. CASE session' = {} /\ \A i \in Created : call'[i].pc = "none"
    BY <1>1, <2>2 DEF BootDead, Active
  <2>3. CASE boot' \subseteq boot
    <3>1. boot \subseteq Created
      BY DEF Inv, Memory
    <3>2. \A i \in Created : \A k \in boot' : Active(i)' => i < k /\ ~Live(k)'
      BY <1>2, <2>1, <2>3, <3>1 DEF BootDead
    <3> QED BY <1>1, <3>2 DEF BootDead
  <2> QED BY <2>2, <2>3
<1>12. Calls'
  BY <1>1, <1>4 DEF Calls
<1>13. Still'
  <2>1. Still
    BY DEF Orderly
  <2>2. Pending' => session' = {} /\ \A t \in Task : ~Ready(t)'
    BY <2>1 DEF Still
  <2> QED BY <1>1, <2>2 DEF Still
<1>14. Approvals'
  BY <1>1 DEF Approvals
<1>15. MergeBoot'
  BY <1>1 DEF MergeBoot
<1>16. Commits'
  <2>1. Commits
    BY DEF Orderly
  <2>2. \A k \in Created : Kind(k) = "review" /\ (Live(k)' \/ Active(k)') => Live(k) \/ Active(k)
    BY <1>2, <1>3
  <2>3. \A k \in Created : Kind(k) = "review" /\ (Live(k)' \/ Active(k)') => task'[run[k].task].ver = head[Trunk]
    BY <1>1, <2>1, <2>2 DEF Commits
  <2>4. \A t \in Task : task[t].kind = "review" /\ Ready(t)' => task'[t].ver = head[Trunk]
    BY <1>1, <2>1 DEF Commits
  <2>5. Pending' => head[Trunk] \in cleared'
    BY <2>1 DEF Commits
  <2> QED BY <1>1, <2>3, <2>4, <2>5 DEF Commits
<1> QED BY <1>5, <1>6, <1>7, <1>8, <1>9, <1>10, <1>11, <1>12, <1>13, <1>14, <1>15, <1>16 DEF Orderly

\* A step after which a task is ready, or nothing goes on: nobody is active, nothing is offered.
LEMMA Readies ==
  ASSUME Inv, Orderly, Kept,
         session' = {}, \A i \in Created : call'[i].pc = "none",
         \A i \in Created : acall'[i] # "merge" /\ (acall'[i] # "none" => Works(i) /\ run[i].complete),
         \A i \in Created : Offered(i)' /\ ~Approved(i)',
         \A i \in Created : Live(i)' => Live(i) /\ Kind(i) # "review",
         \A t, u \in Task : Ready(t)' /\ Ready(u)' => t = u,
         \A i \in Created : Live(i)' => ~Ready(run[i].task)' /\ (Kind(i) # "impl" => Undone(run[i].task)'),
         \A i \in Created : run[i].complete /\ Works(i) => ~Ready(run[i].task)',
         \A t \in Task : task'[t].kind = "review" /\ Ready(t)' => task'[t].ver = head[Trunk],
         (\E t \in Task : IsFollow(t)') => \E i \in Created : Kind(i) = "impl" /\ run[i].complete,
         head' = head, cleared \subseteq cleared', merged' \subseteq merged
  PROVE  Orderly'
<1>1. /\ Created' = Created /\ Trunk' = Trunk
      /\ \A i \in Created : /\ run'[i].task = run[i].task /\ run'[i].par = run[i].par
                            /\ run'[i].tree = run[i].tree /\ run'[i].complete = run[i].complete
                            /\ run'[i].says = run[i].says /\ Kind(i)' = Kind(i)
                            /\ run[i].task \in Task /\ Kind(i) = task[run[i].task].kind
                            /\ (Last(i)' <=> Last(i)) /\ (Works(i)' <=> Works(i))
                            /\ (IsFollow(run[i].task)' <=> IsFollow(run[i].task))
                            /\ (IsFollow(run[i].task) <=> Kind(i) # "impl")
  BY Frame
<1>2. \A i \in Created : ~Active(i)'
  BY DEF Active
<1>3. ~Pending'
  BY <1>1 DEF Pending
<1>4. OneToken' /\ Sessions' /\ BootDead'
  BY <1>1, <1>2 DEF OneToken, Sessions, BootDead
<1>5. Lives'
  <2>1. Lives
    BY DEF Orderly
  <2>2. ASSUME NEW i \in Created
        PROVE  /\ Live(i)' => Last(i) /\ ~Ready(run[i].task)' /\ (Kind(i) # "impl" => Undone(run[i].task)')
               /\ run[i].complete /\ Works(i) => Last(i) /\ ~Ready(run[i].task)'
    BY <2>1 DEF Lives
  <2> QED BY <1>1, <1>2, <2>2 DEF Lives
<1>6. Preceded'
  BY <1>1 DEF Preceded
<1>7. Shape'
  <2>1. Shape
    BY DEF Orderly
  <2> QED BY <1>1, <1>2, <2>1 DEF Shape
<1>8. OneReview'
  BY <1>1 DEF OneReview
<1>9. Calls'
  <2>1. \A i \in Created : CallKnown(i, call[i])'
    BY DEF CallKnown
  <2> QED BY <1>1, <1>2, <2>1 DEF Calls
<1>10. Still'
  BY <1>3 DEF Still
<1>11. Approvals'
  BY <1>1 DEF Approvals
<1>12. MergeBoot'
  BY <1>1 DEF MergeBoot
<1>13. Commits'
  <2>1. merged \subseteq cleared
    BY DEF Orderly, Commits
  <2> QED BY <1>1, <1>2, <1>3, <2>1 DEF Commits
<1> QED BY <1>4, <1>5, <1>6, <1>7, <1>8, <1>9, <1>10, <1>11, <1>12, <1>13 DEF Orderly

LEMMA LastIs ==
  ASSUME NEW i \in Created, NEW j \in Created, Last(i), Last(j), run[i].task = run[j].task
  PROVE  i = j
<1>1. i \in Nat /\ j \in Nat
  BY DEF Created, Run
<1>2. i <= j /\ j <= i
  BY DEF Last, RunsOf
<1> QED BY <1>1, <1>2

\* An active run is alone.
LEMMA Alone ==
  ASSUME Inv, Orderly, NEW i \in Created, Active(i)
  PROVE  /\ Last(i) /\ (\A t \in Task : ~Ready(t)) /\ session \subseteq {i}
         /\ \A j \in Created \ {i} : ~Active(j) /\ j \notin session /\ call[j].pc = "none"
         /\ call[i].pc \notin {"none", "release"} => session = {}
         /\ \A j \in Created : run[j].task = run[i].task /\ (Live(j) \/ (run[j].complete /\ Works(j))) => j = i
         /\ Works(i) => \A j \in Created : Kind(j) = "review" => ~Live(j)
         /\ ~Passing(i) \/ (i \in session) => ~Pending
<1>1. \A j \in Created \ {i} : ~Active(j)
  BY DEF Orderly, OneToken
<1>2. \A j \in Created \ {i} : j \notin session /\ call[j].pc = "none"
  BY <1>1 DEF Active
<1>3. session \subseteq {i}
  BY <1>2 DEF Inv, Memory
<1>4. \A t \in Task : ~Ready(t)
  BY DEF Orderly, OneToken
<1>5. Last(i)
  BY DEF Orderly, Lives
<1>6. \A j \in Created : run[j].task = run[i].task /\ (Live(j) \/ (run[j].complete /\ Works(j))) => j = i
  BY <1>5, LastIs DEF Orderly, Lives
<1>7. Works(i) => \A j \in Created : Kind(j) = "review" => ~Live(j)
  BY DEF Orderly, OneReview, Works
<1>8. ~Passing(i) \/ (i \in session) => ~Pending
  BY DEF Orderly, Still
<1>9. call[i].pc \notin {"none", "release"} => session = {}
  BY <1>3 DEF Orderly, Sessions
<1> QED BY <1>1, <1>2, <1>3, <1>4, <1>5, <1>6, <1>7, <1>8, <1>9

\* A step that may end one run, and fail its task with it.
LEMMA Subsides ==
  ASSUME Inv, Orderly, Kept, NEW i \in Created,
         \A j \in Created \ {i} : run'[j] = run[j],
         (run'[i].term = run[i].term /\ run'[i].approval = run[i].approval) \/ ~Live(i)',
         run'[i].stage = run[i].stage, run'[i].approval => run[i].approval,
         \A t \in Task : /\ task'[t].kind = task[t].kind
                         /\ \/ task'[t].st = task[t].st
                            \/ t = run[i].task /\ Live(i) /\ task'[t].st = "failed",
         session' \subseteq session, \A j \in session' : run'[j] = run[j] /\ call'[j] = call[j],
         \A j \in Created : call'[j].pc # "none" => call[j].pc # "none",
         \A j \in Created : call'[j] = call[j] \/ CallKnown(j, call[j])',
         \A a \in Created : (acall'[a] = "merge" => acall[a] = "merge") /\ (acall'[a] # "none" => acall[a] # "none"),
         \/ boot' \subseteq boot
         \/ /\ session' = {} /\ \A j \in Created : call'[j].pc = "none"
            /\ \A a \in Created : acall'[a] = "none",
         head' = head, cleared \subseteq cleared', merged' \subseteq cleared',
         Pending => \A j \in Created : Passing(j)'
  PROVE  Orderly'
<1>1. /\ Created' = Created /\ Trunk' = Trunk
      /\ \A j \in Created : /\ j \in Run /\ run'[j].task = run[j].task /\ run'[j].par = run[j].par
                            /\ run'[j].complete = run[j].complete /\ run'[j].says = run[j].says /\ Kind(j)' = Kind(j)
                            /\ run[j].task \in Task /\ Kind(j) = task[run[j].task].kind
                            /\ (Works(j)' <=> Works(j))
                            /\ (IsFollow(run[j].task) <=> Kind(j) # "impl")
  BY Frame
<1>2. \A j \in Created : /\ run'[j].stage = run[j].stage
                        /\ Live(j)' => Live(j) /\ run'[j].approval = run[j].approval
  BY DEF Live, Open
<1>3. \A j \in Created : Offered(j)'
  <2>1. \A j \in Created : Offered(j)
    BY DEF Orderly, Approvals
  <2>2. \A j \in Created : run'[j].stage = run[j].stage /\ (run'[j].approval => run[j].approval)
    OBVIOUS
  <2> QED BY <1>1, <2>1, <2>2 DEF Offered
<1>4. \A j \in session' : Live(j)' /\ call'[j] = call[j]
  <2>1. \A j \in session' : j \in Created /\ Live(j)
    BY DEF Orderly, Sessions, Inv, Memory
  <2> QED BY <2>1 DEF Live
<1>5. \A j \in Created : CallKnown(j, call[j])'
  <2>1. \A j \in Created : CallKnown(j, call[j]) /\ run'[j].stage = run[j].stage
    BY DEF Orderly, Calls
  <2> SUFFICES ASSUME NEW j \in Created, call'[j] = call[j] PROVE CallKnown(j, call[j])'
    OBVIOUS
  <2> QED BY <1>1, <2>1 DEF CallKnown
<1>6. \A t \in Task : (Ready(t)' => Ready(t)) /\ (Undone(t) => Undone(t)')
  BY DEF Ready, Undone
<1>7. \A j \in Created : Live(j)' /\ Kind(j) # "impl" => Undone(run[j].task)'
  <2>1. \A j \in Created : Live(j) /\ Kind(j) # "impl" => Undone(run[j].task)
    BY <1>1 DEF Orderly, Lives
  <2>2. \A j \in Created : Undone(run[j].task) => Undone(run[j].task)'
    BY <1>1 DEF Undone
  <2> QED BY <1>2, <2>1, <2>2
<1>8. \A j \in Created : Active(j)' => Active(j)
  BY DEF Active
<1>9. \A a \in Created : Active(a)' /\ Kind(a) = "impl" => \A t \in Task : IsFollow(t) => ~Undone(t)'
  <2> SUFFICES ASSUME NEW a \in Created, Active(a)', Kind(a) = "impl", NEW t \in Task, IsFollow(t)
               PROVE  ~Undone(t)'
    OBVIOUS
  <2>1. ~Undone(t)
    BY <1>8 DEF Orderly, Calls
  <2>2. ~(t = run[i].task /\ Live(i))
    BY <1>1, <2>1 DEF Orderly, Lives
  <2> QED BY <2>1, <2>2 DEF Undone
<1>10. \A k \in Created : Active(k)' /\ Kind(k) = "review" /\ ~Undone(run[k].task)' =>
         \A j \in Created : Kind(j) = "fix" => ~Live(j)'
  <2>1. \A k \in Created : ~Undone(run[k].task)' => ~Undone(run[k].task)
    BY <1>1 DEF Undone
  <2> QED BY <1>2, <1>8, <2>1 DEF Orderly, Calls
<1>11. \A a \in Created : Approved(a)' => Approved(a)
  BY <1>2 DEF Approved
<1>12. \A a \in Created : Approved(a)' /\ Kind(a) = "impl" =>
         /\ (\E j \in Created : Kind(j) = "fix" /\ Live(j)') => \E t \in Task : task[t].kind = "review" /\ Undone(t)'
         /\ \A j \in Created : Kind(j) = "review" /\ Live(j)' => run[j].says = "pass"
  <2>1. Approvals
    BY DEF Orderly
  <2> QED BY <1>2, <1>6, <1>11, <2>1 DEF Approvals
<1>13. \A a \in Created : \A j \in boot' : acall'[a] = "merge" => Harmless(j)'
  <2> SUFFICES ASSUME NEW a \in Created, NEW j \in boot', acall'[a] = "merge", boot' \subseteq boot
               PROVE  Harmless(j)'
    OBVIOUS
  <2>1. j \in Created /\ Harmless(j)
    BY DEF Orderly, MergeBoot, Inv, Memory
  <2>2. CASE ~Live(j)
    BY <1>2, <2>1, <2>2 DEF Harmless
  <2>3. CASE Owned(j)
    <3>1. CASE \E t \in Task \ {run[j].task} : task[t].kind \in {"review", "fix"} /\ task[t].st # "done"
      <4>1. PICK t \in Task \ {run[j].task} : task[t].kind \in {"review", "fix"} /\ task[t].st # "done"
        BY <3>1
      <4>2. t \in Task \ {run'[j].task} /\ task'[t].kind \in {"review", "fix"} /\ task'[t].st # "done"
        BY <1>1, <2>1, <4>1
      <4> QED BY <4>2 DEF Harmless, Owned
    <3>2. CASE run[j].stage = "ship" /\ run[j].approval
      <4>1. ~Live(j)' \/ (run'[j].stage = "ship" /\ run'[j].approval)
        BY <1>2, <2>1, <3>2
      <4> QED BY <4>1 DEF Harmless, Owned
    <3> QED BY <2>3, <3>1, <3>2 DEF Owned
  <2>4. CASE Kind(j) = "review" /\ run[j].says = "pass"
    BY <1>1, <2>1, <2>4 DEF Harmless
  <2> QED BY <2>1, <2>2, <2>3, <2>4 DEF Harmless
<1>14. Pending' => Pending
  BY <1>1, <1>11 DEF Pending
<1>15. \A a \in Created : acall'[a] # "none" => Works(a) /\ run[a].complete
  BY DEF Orderly, Approvals
<1>16. /\ boot' \subseteq boot \/ (session' = {} /\ \A j \in Created : call'[j].pc = "none")
       /\ \A j \in Created : Live(j)' => Live(j) \/ (j = Trunk /\ j \notin boot' /\ ~Ready(Root)')
       /\ \A t \in Task : (Ready(t)' => Ready(t)) /\ task'[t].kind = task[t].kind
  BY <1>2, <1>6
<1>17. Pending' => /\ \/ Pending
                      \/ session' = {} /\ (\A t \in Task : ~Ready(t)') /\ head[Trunk] \in cleared'
                   /\ \A j \in Created : Passing(j)'
  BY <1>14
<1>18. \A j \in Created : call'[j].pc # "none" => call[j].pc # "none"
  OBVIOUS
<1> QED BY <1>3, <1>4, <1>5, <1>7, <1>9, <1>10, <1>12, <1>13, <1>15, <1>16, <1>17, <1>18, Moves

--------------------------------------------------------------------------------
(* Its attempts.                                                               *)

\* A run ends: no other row is written, and the run is no longer live.
LEMMA Ends ==
  ASSUME Inv, NEW i \in Created,
         \/ run' = [run EXCEPT ![i] = Failed(@)] \/ run' = [run EXCEPT ![i] = Stalled(@)]
         \/ run' = [run EXCEPT ![i] = Cancelled(@)] \/ run' = [run EXCEPT ![i].term = "quarantined"]
  PROVE  /\ \A j \in Created \ {i} : run'[j] = run[j]
         /\ run'[i].stage = run[i].stage /\ (run'[i].approval => run[i].approval) /\ ~Live(i)'
<1>1. i \in Run /\ run[i] \in RunRow
  BY Kinds DEF Inv
<1>2. PICK row : /\ run' = [run EXCEPT ![i] = row]
                 /\ row = Failed(run[i]) \/ row = Stalled(run[i]) \/ row = Cancelled(run[i])
                    \/ row = [run[i] EXCEPT !.term = "quarantined"]
  OBVIOUS
<1>3. row.stage = run[i].stage /\ (row.approval => run[i].approval) /\ row.term # "none"
  <2>1. CASE row = Failed(run[i])
    BY <1>1, <2>1 DEF RunRow, Failed
  <2>2. CASE row = Stalled(run[i])
    BY <1>1, <2>2 DEF RunRow, Stalled
  <2>3. CASE row = Cancelled(run[i])
    BY <1>1, <2>3 DEF RunRow, Cancelled
  <2>4. CASE row = [run[i] EXCEPT !.term = "quarantined"]
    BY <1>1, <2>4 DEF RunRow
  <2> QED BY <1>2, <2>1, <2>2, <2>3, <2>4
<1>4. run'[i] = row /\ \A j \in Run \ {i} : run'[j] = run[j]
  BY <1>1, <1>2, TypeIs DEF Inv
<1> QED BY <1>3, <1>4 DEF Live, Open, Created

LEMMA StaleSlotOrderly ==
  ASSUME Inv, Orderly, NEW i \in Run, StaleSlot(i)
  PROVE  Orderly'
<1>1. /\ Live(i) /\ run' = [run EXCEPT ![i] = Stalled(@)] /\ task' = TaskTo(run[i].task, "failed")
      /\ UNCHANGED <<session, call, acall, boot, head, cleared, merged>>
      /\ i \notin session
  BY DEF StaleSlot, calls, git
<1>2. i \in Created /\ Kept
  BY <1>1, LiveIs, StaleSlotInv
<1>3. /\ \A j \in Created \ {i} : run'[j] = run[j]
      /\ run'[i].stage = run[i].stage /\ (run'[i].approval => run[i].approval) /\ ~Live(i)'
  BY <1>1, <1>2, Ends
<1>4. \A t \in Task : task'[t].kind = task[t].kind
                      /\ (task'[t].st = task[t].st \/ (t = run[i].task /\ Live(i) /\ task'[t].st = "failed"))
  <2>1. run[i].task \in Task /\ task[run[i].task] \in TaskRow
    BY <1>2, Kinds DEF Inv
  <2> QED BY <1>1, <2>1, TypeIs DEF Inv, TaskTo, TaskRow
<1>5. /\ \A j \in session' : run'[j] = run[j] /\ call'[j] = call[j]
      /\ merged' \subseteq cleared'
  BY <1>1, <1>3 DEF Inv, Memory, Orderly, Commits
<1>6. Pending => \A j \in Created : Passing(j)'
  BY <1>1, <1>2, Frame DEF Orderly, Still, Passing
<1> QED BY <1>1, <1>2, <1>3, <1>4, <1>5, <1>6, Subsides

LEMMA CrashOrderly ==
  ASSUME Inv, Orderly, Crash
  PROVE  Orderly'
<1>1. /\ session' = {} /\ UNCHANGED <<run, task, head, cleared, merged>>
      /\ call' = [i \in Run |-> Idle] /\ acall' = [i \in Run |-> "none"]
  BY DEF Crash, git
<1>2. Kept
  BY CrashInv
<1>3. \A j \in Created : j \in Run /\ call'[j] = Idle /\ call'[j].pc = "none" /\ acall'[j] = "none"
  BY <1>1, IdleIs DEF Created
<1>4. merged' \subseteq cleared'
  BY <1>1 DEF Orderly, Commits
<1>5. \A j \in Created : Passing(j)' /\ CallKnown(j, call[j])'
  BY <1>3 DEF Passing, CallKnown
<1>6. CASE Created = {}
  <2>1. Created' = {} /\ ~Pending' /\ \A t \in Task : task'[t] = task[t]
    BY <1>1, <1>6 DEF Created, Pending
  <2>2. OneToken' /\ Preceded'
    BY <1>1, <1>6, <2>1 DEF OneToken, Preceded, Orderly, Ready, IsFollow
  <2>3. \A t \in Task : ~IsFollow(t)
    BY <1>6 DEF Inv, Rows, Tasks, IsFollow
  <2>4. \A t \in Task : task'[t].kind # "review"
    BY <2>1, <2>3 DEF IsFollow, FollowUps
  <2> QED BY <1>4, <2>1, <2>2, <2>4
          DEF Orderly, Sessions, Lives, Shape, OneReview, BootDead, Calls, Still, Approvals, MergeBoot, Commits
<1>7. CASE Created # {}
  <2>1. PICK i \in Created : TRUE
    BY <1>7
  <2> QED BY <1>1, <1>2, <1>3, <1>4, <1>5, <2>1, Subsides
<1> QED BY <1>6, <1>7

LEMMA DieOrderly ==
  ASSUME Inv, Orderly, NEW i \in Run, Die(i)
  PROVE  Orderly'
<1>1. /\ i \in session /\ call[i].pc = "none" /\ session' = session \ {i}
      /\ UNCHANGED <<call, acall, boot, head, cleared, merged>>
  BY DEF Die, calls, git
<1>2. i \in Created /\ Active(i) /\ Kept
  BY <1>1, DieInv DEF Active, Inv, Memory
<1>3. Live(i) /\ ~run[i].complete /\ ~Pending /\ session' = {}
  BY <1>1, <1>2, Alone DEF Orderly, Sessions
<1> DEFINE t == run[i].task
<1>4. t \in Task /\ task[t] \in TaskRow
  BY <1>2, Kinds DEF Inv
<1>5. /\ \/ run' = [run EXCEPT ![i] = Failed(@)] \/ run' = [run EXCEPT ![i] = Stalled(@)]
         \/ run' = [run EXCEPT ![i].term = "quarantined"]
      /\ \A u \in Task \ {t} : task'[u] = task[u]
      /\ task'[t].kind = task[t].kind /\ task'[t].st \in {task[t].st, "failed", "ready"}
  <2>1. CASE RetryOrFail(i)
    <3>1. PICK row : /\ task' = [task EXCEPT ![t] = row]
                     /\ \/ row = [task[t] EXCEPT !.retries = @ + 1, !.st = "ready"]
                        \/ row = [task[t] EXCEPT !.retries = @ + 1, !.st = "failed"]
                        \/ row = [task[t] EXCEPT !.retries = @ + 1]
      <4>1. \/ task' = [task EXCEPT ![t].retries = @ + 1, ![t].st = "ready"]
            \/ task' = [task EXCEPT ![t].retries = @ + 1, ![t].st = "failed"]
            \/ task' = [task EXCEPT ![t].retries = @ + 1]
        BY <2>1 DEF RetryOrFail
      <4> QED BY <1>4, <4>1, TypeIs DEF Inv, TaskRow
    <3>2. row.kind = task[t].kind /\ row.st \in {task[t].st, "failed", "ready"}
      BY <1>4, <3>1 DEF TaskRow
    <3> QED BY <1>4, <2>1, <3>1, <3>2, TypeIs DEF RetryOrFail, Inv
  <2>2. CASE run' = [run EXCEPT ![i] = Failed(@)] /\ UNCHANGED task
    BY <2>2
  <2> QED BY <1>3, <2>1, <2>2 DEF Die
<1>6. /\ \A j \in Created \ {i} : run'[j] = run[j]
      /\ run'[i].stage = run[i].stage /\ (run'[i].approval => run[i].approval) /\ ~Live(i)'
  BY <1>2, <1>5, Ends
<1>7. merged \subseteq cleared
  BY DEF Orderly, Commits
<1>8. CASE task'[t].st # "ready"
  <2>1. \A u \in Task : task'[u].kind = task[u].kind
                        /\ (task'[u].st = task[u].st \/ (u = t /\ Live(i) /\ task'[u].st = "failed"))
    BY <1>3, <1>5, <1>8
  <2> QED BY <1>1, <1>2, <1>3, <1>6, <1>7, <2>1, Subsides
<1>9. CASE task'[t].st = "ready"
  <2>1. \A j \in Created : call'[j].pc = "none" /\ acall'[j] # "merge" /\ (acall'[j] # "none" => Works(j) /\ run[j].complete)
    BY <1>1, <1>2, <1>3, Alone DEF Orderly, Approvals, Pending
  <2>2. \A j \in Created : Live(j)' => j # i /\ Live(j) /\ run'[j] = run[j] /\ run[j].task # t /\ Kind(j) # "review"
    <3>1. \A j \in Created : Live(j)' => j # i /\ Live(j) /\ run'[j] = run[j]
      BY <1>6 DEF Live
    <3>2. \A j \in Created : Live(j) /\ j # i => run[j].task # t /\ Kind(j) # "review"
      BY <1>2, Alone DEF Orderly, OneReview
    <3> QED BY <3>1, <3>2
  <2>3. \A j \in Created : Offered(j)' /\ ~Approved(j)'
    <3>1. \A j \in Created : Offered(j) /\ run'[j].stage = run[j].stage /\ (run'[j].approval => run[j].approval)
      BY <1>6 DEF Orderly, Approvals
    <3>2. \A j \in Created : Offered(j)'
      BY <1>2, <3>1, Frame DEF Offered
    <3>3. \A j \in Created : ~Approved(j)'
      BY <1>3, <2>2 DEF Approved, Pending
    <3> QED BY <3>2, <3>3
  <2>4. \A u \in Task : Ready(u)' => u = t
    <3>1. \A u \in Task : ~Ready(u)
      BY <1>2, Alone
    <3> QED BY <1>5, <3>1 DEF Ready
  <2>5. \A j \in Created : run[j].task \in Task /\ run'[j].task = run[j].task
    BY <1>2, Frame
  <2>6. \A j \in Created : Live(j)' => ~Ready(run[j].task)' /\ (Kind(j) # "impl" => Undone(run[j].task)')
    <3> SUFFICES ASSUME NEW j \in Created, Live(j)' PROVE ~Ready(run[j].task)' /\ (Kind(j) # "impl" => Undone(run[j].task)')
      OBVIOUS
    <3>1. run[j].task # t /\ Live(j) /\ task'[run[j].task] = task[run[j].task]
      BY <1>5, <2>2, <2>5
    <3>2. ~Ready(run[j].task) /\ (Kind(j) # "impl" => Undone(run[j].task))
      BY <1>2, <3>1, Frame DEF Orderly, Lives
    <3> QED BY <2>5, <3>1, <3>2 DEF Ready, Undone
  <2>7. \A j \in Created : run[j].complete /\ Works(j) => ~Ready(run[j].task)'
    <3> SUFFICES ASSUME NEW j \in Created, run[j].complete, Works(j) PROVE ~Ready(run[j].task)'
      OBVIOUS
    <3>1. run[j].task # t
      BY <1>2, <1>3, Alone
    <3> QED BY <2>4, <2>5, <3>1 DEF Ready
  <2>8. \A u \in Task : task'[u].kind = "review" /\ Ready(u)' => task'[u].ver = head[Trunk]
    <3>1. task[t].kind = "review" => task'[t].ver = head[Trunk]
      BY <1>2, Frame DEF Orderly, Commits
    <3> QED BY <1>5, <2>4, <3>1
  <2>9. (\E u \in Task : IsFollow(u)') => \E j \in Created : Kind(j) = "impl" /\ run[j].complete
    <3>1. \A u \in Task : IsFollow(u)' => IsFollow(u)
      BY <1>5 DEF IsFollow
    <3> QED BY <3>1 DEF Orderly, Preceded
  <2>10. \A j \in Created : Live(j)' => Live(j) /\ Kind(j) # "review"
    BY <2>2
  <2>11. head' = head /\ cleared \subseteq cleared' /\ merged' \subseteq merged /\ session' = {}
    BY <1>1, <1>3
  <2>12. \A u, w \in Task : Ready(u)' /\ Ready(w)' => u = w
    BY <2>4
  <2> HIDE DEF t
  <2> QED BY <1>2, <2>1, <2>3, <2>6, <2>7, <2>8, <2>9, <2>10, <2>11, <2>12, Readies
<1> QED BY <1>8, <1>9

\* The start-up reconcile routes a completion of which nothing is left to come.
LEMMA RoutedAgain ==
  ASSUME Inv, Orderly, NEW i \in Run, i \in boot, \A j \in boot : i <= j, Kept,
         Live(i), ~Owned(i), run[i].complete,
         call' = [call EXCEPT ![i] = [Idle EXCEPT !.pc = "release", !.live = TRUE]],
         Free, boot' = boot \ {i}, UNCHANGED <<run, task, session, acall, head, cleared, merged>>
  PROVE  Orderly'
<1> USE DEF Orderly
<1>1. /\ Created' = Created /\ Trunk' = Trunk /\ i \in Created
      /\ \A j \in Created : /\ j \in Run /\ j \in Nat /\ Kind(j)' = Kind(j) /\ run[j].task \in Task
                            /\ Kind(j) = task[run[j].task].kind /\ Kind(j) \in {"impl", "review", "fix"}
                            /\ (Last(j)' <=> Last(j)) /\ (Works(j)' <=> Works(j)) /\ (Live(j)' <=> Live(j))
                            /\ (IsFollow(run[j].task) <=> Kind(j) # "impl")
  <2>1. i \in Created
    BY LiveIs
  <2> QED BY <2>1, Frame DEF Live, Created, Run
<1>2. /\ session' = {} /\ session = {}
      /\ \A j \in Created \ {i} : call'[j] = Idle /\ call'[j].pc = "none" /\ call[j].pc = "none"
      /\ call'[i].pc = "release" /\ call'[i].live /\ call[i].pc = "none"
  <2> DEFINE c == [Idle EXCEPT !.pc = "release", !.live = TRUE]
  <2>1. c.pc = "release" /\ c.live
    BY DEF Idle
  <2> HIDE DEF c
  <2>2. \A j \in Run : call[j] = Idle
    BY DEF Free
  <2>3. call' = [call EXCEPT ![i] = c]
    BY DEF c
  <2>4. call'[i] = c /\ \A j \in Run \ {i} : call'[j] = Idle
    BY <2>2, <2>3, TypeIs DEF Inv
  <2>5. session = {}
    BY DEF OneToken
  <2> QED BY <1>1, <2>1, <2>2, <2>4, <2>5, IdleIs
<1>3. Last(i) /\ ~Ready(run[i].task) /\ (Kind(i) # "impl" => Undone(run[i].task))
  BY <1>1 DEF Lives
<1>4. /\ \A t \in Task \ {run[i].task} : IsFollow(t) => ~Undone(t)
      /\ ~(run[i].stage = "ship" /\ run[i].approval)
  BY DEF Owned, IsFollow, FollowUps, Undone
<1>5. \A t \in Task : ~Ready(t)
  <2> SUFFICES ASSUME NEW t \in Task, Ready(t) PROVE FALSE
    OBVIOUS
  <2>1. ~IsFollow(t) /\ task[t].kind # "none"
    BY <1>3, <1>4 DEF Ready, Undone, Inv, Rows, Tasks
  <2>2. t = Root
    <3>1. task[t] \in TaskRow
      BY TypeIs DEF Inv
    <3> QED BY <2>1, <3>1 DEF Inv, Rows, Tasks, IsFollow, FollowUps, TaskRow
  <2>3. Kind(i) # "impl"
    BY <1>1, <1>3, <2>2, Kinds DEF Inv
  <2>4. PICK k \in Created : Kind(k) = "impl" /\ run[k].complete
    BY <1>1, <2>3 DEF Preceded
  <2>5. run[k].task = Root
    BY <2>4, Kinds DEF Inv
  <2> QED BY <2>2, <2>4, <2>5 DEF Lives, Works
<1>6. \A j \in Created : Live(j) /\ Kind(j) # "impl" => j = i
  <2> SUFFICES ASSUME NEW j \in Created, Live(j), Kind(j) # "impl" PROVE j = i
    OBVIOUS
  <2>1. Last(j) /\ Undone(run[j].task)
    BY <1>1 DEF Lives
  <2>2. run[j].task = run[i].task
    BY <1>1, <1>4, <2>1
  <2> QED BY <1>1, <1>3, <2>1, <2>2, LastIs
<1>7. OneToken' /\ Sessions'
  <2>1. \A j \in Created : Active(j)' => j = i
    BY <1>2 DEF Active
  <2>2. \A t \in Task : ~Ready(t)'
    BY <1>5 DEF Ready
  <2> QED BY <1>1, <1>2, <2>1, <2>2 DEF OneToken, Sessions
<1>8. \A j \in Created : Active(j)' => j = i
  BY <1>2 DEF Active
<1>9. Lives' /\ Preceded'
  BY <1>1, <1>3, <1>8 DEF Lives, Preceded, Ready, Undone, IsFollow
<1>10. Shape'
  <2>1. Shape
    OBVIOUS
  <2> QED BY <1>1, <1>8, <2>1 DEF Shape
<1>11. OneReview'
  <2>1. \A k \in Created : Kind(k) = "review" /\ Live(k) => k = i
    BY <1>6
  <2>2. \A t \in Task : ~Ready(t)'
    BY <1>5 DEF Ready
  <2> QED BY <1>1, <1>8, <2>1, <2>2 DEF OneReview
<1>12. BootDead'
  <2> SUFFICES ASSUME NEW k \in boot \ {i} PROVE i < k /\ ~Live(k)
    BY <1>1, <1>8, LiveIs DEF BootDead, Live
  <2>1. k \in Created /\ i < k
    BY <1>1 DEF Inv, Memory
  <2>2. Live(k) => Kind(k) = "impl" /\ k = Trunk
    BY <1>1, <1>6, <2>1, TrunkIs DEF Lives
  <2>3. k # Trunk
    BY <1>1, <1>3, <2>1, TrunkIs
  <2> QED BY <2>1, <2>2, <2>3
<1>13. Calls'
  <2>1. \A j \in Created : CallKnown(j, call[j])'
    BY <1>1, <1>2 DEF CallKnown
  <2>2. Kind(i) = "impl" => \A t \in Task : IsFollow(t) => ~Undone(t)
    BY <1>1, <1>4
  <2>3. Kind(i) # "impl" => Undone(run[i].task)
    BY <1>3
  <2> QED BY <1>1, <1>8, <2>1, <2>2, <2>3 DEF Calls, IsFollow, Undone
<1>14. Still'
  <2> SUFFICES ASSUME Pending PROVE \A j \in Created : Passing(j)'
    <3>1. Pending' <=> Pending
      BY <1>1 DEF Pending, Approved
    <3>2. \A t \in Task : ~Ready(t)'
      BY <1>5 DEF Ready
    <3> QED BY <1>1, <1>2, <3>1, <3>2 DEF Still
  <2>1. Kind(i) = "review" /\ run[i].says = "pass"
    <3>1. PICK a \in Created : Approved(a) \/ acall[a] = "merge"
      BY DEF Pending
    <3>2. CASE acall[a] = "merge"
      BY <1>1, <3>1, <3>2 DEF MergeBoot, Harmless
    <3>3. CASE Approved(a)
      <4>1. run[a].approval /\ run[a].stage = "ship" /\ Live(a) /\ a # i
        BY <1>1, <1>4, <3>3 DEF Approvals, Offered, Approved
      <4>2. Kind(a) = "impl" /\ Last(a)
        BY <1>6, <4>1 DEF Lives
      <4>3. Kind(i) # "impl"
        BY <1>1, <1>3, <4>1, <4>2, TrunkIs
      <4>4. Kind(i) # "fix"
        <5> SUFFICES ASSUME Kind(i) = "fix" PROVE FALSE
          OBVIOUS
        <5>1. PICK t \in Task : task[t].kind = "review" /\ Undone(t)
          BY <1>1, <3>3, <4>2 DEF Approvals
        <5> QED BY <1>1, <1>4, <5>1 DEF IsFollow, FollowUps
      <4> QED BY <1>1, <3>3, <4>2, <4>3, <4>4 DEF Approvals
    <3> QED BY <3>1, <3>2, <3>3
  <2> QED BY <1>1, <1>2, <2>1 DEF Passing
<1>15. Approvals'
  BY <1>1 DEF Approvals, Offered, Approved, Undone
<1>16. MergeBoot'
  <2>1. \A j \in Created : Harmless(j)' <=> Harmless(j)
    BY <1>1 DEF Harmless, Owned
  <2> QED BY <1>1, <2>1 DEF MergeBoot, Inv, Memory
<1>17. Commits'
  <2>1. Pending' <=> Pending
    BY <1>1 DEF Pending, Approved
  <2> QED BY <1>1, <1>8, <2>1 DEF Commits, Ready
<1> QED BY <1>7, <1>9, <1>10, <1>11, <1>12, <1>13, <1>14, <1>15, <1>16, <1>17

LEMMA ReconcileOrderly ==
  ASSUME Inv, Orderly, NEW i \in Run, Reconcile(i)
  PROVE  Orderly'
<1>1. /\ i \in boot /\ (\A j \in boot : i <= j) /\ Free /\ boot' = boot \ {i}
      /\ UNCHANGED <<task, session, acall, head, cleared, merged>>
  BY DEF Reconcile, calls, git
<1>2. i \in Created /\ Kept
  BY <1>1, ReconcileInv DEF Inv, Memory
<1>3. session = {}
  BY <1>1 DEF Orderly, OneToken
<1>4. CASE UNCHANGED call /\ (UNCHANGED run \/ run' = [run EXCEPT ![i] = Stalled(@)])
  <2>1. \/ UNCHANGED run
        \/ /\ \A j \in Created \ {i} : run'[j] = run[j]
           /\ run'[i].stage = run[i].stage /\ (run'[i].approval => run[i].approval) /\ ~Live(i)'
    BY <1>2, <1>4, Ends
  <2>2. Pending => \A j \in Created : Passing(j)'
    BY <1>2, <1>4, Frame DEF Orderly, Still, Passing
  <2>3. merged' \subseteq cleared'
    BY <1>1 DEF Orderly, Commits
  <2> QED BY <1>1, <1>2, <1>3, <1>4, <2>1, <2>2, <2>3, Subsides
<1>5. CASE /\ Live(i) /\ ~Owned(i) /\ run[i].complete /\ UNCHANGED run
           /\ call' = [call EXCEPT ![i] = [Idle EXCEPT !.pc = "release", !.live = TRUE]]
  BY <1>1, <1>2, <1>5, RoutedAgain
<1> QED BY <1>4, <1>5 DEF Reconcile

\* A call returns, and nothing else happens.
LEMMA ThrowOrderly ==
  ASSUME Inv, Orderly, NEW i \in Run, Throw(i)
  PROVE  Orderly'
<1>1. /\ Return(i) /\ UNCHANGED <<run, task, session, acall, boot, head, cleared, merged>>
      /\ call[i].pc \notin {"none", "release"}
  BY DEF Throw, calls, git
<1>2. i \in Created /\ Kept
  BY <1>1, Called, ThrowInv
<1>3. call'[i] = Idle /\ call'[i].pc = "none" /\ \A j \in Created \ {i} : call'[j] = call[j]
  BY <1>1, <1>2, IdleIs, TypeIs DEF Inv, Return, Created
<1>4. i \notin session /\ session \subseteq Created
  BY <1>1, <1>2 DEF Orderly, Sessions, Inv, Memory
<1>5. CallKnown(i, call[i])'
  BY <1>3 DEF CallKnown
<1>6. Pending => \A j \in Created : Passing(j)'
  BY <1>1, <1>2, <1>3, Frame DEF Orderly, Still, Passing
<1>7. merged' \subseteq cleared'
  BY <1>1 DEF Orderly, Commits
<1> QED BY <1>1, <1>2, <1>3, <1>4, <1>5, <1>6, <1>7, Subsides

LEMMA cancelRunOrderly ==
  ASSUME Inv, Orderly, NEW i \in Run, cancelRun(i)
  PROVE  Orderly'
<1> DEFINE R == [run EXCEPT ![i] = Cancelled(@)]
<1>1. /\ Live(i) /\ run' = R /\ task' = Settled(R, {i}) /\ session' = session \ {i}
      /\ UNCHANGED <<call, acall, boot, head, cleared, merged>>
  BY DEF cancelRun, calls, git
<1>2. i \in Created /\ Kept
  BY <1>1, LiveIs, cancelRunInv
<1>3. /\ \A j \in Created \ {i} : run'[j] = run[j]
      /\ run'[i].stage = run[i].stage /\ (run'[i].approval => run[i].approval) /\ ~Live(i)'
  BY <1>1, <1>2, Ends
<1>4. ~Open(R[i])
  BY <1>1, <1>3 DEF Live
<1>5. Latest(RunsOf(run[i].task)) = i
  <2>1. \A j \in RunsOf(run[i].task) : j <= i
    BY <1>1, <1>2 DEF Orderly, Lives, Last
  <2>2. i \in RunsOf(run[i].task) /\ RunsOf(run[i].task) \in SUBSET Run
    BY <1>2 DEF RunsOf, Created
  <2>3. PICK k : k = Latest(RunsOf(run[i].task))
    OBVIOUS
  <2>4. k \in Run /\ k <= i /\ i <= k
    BY <2>1, <2>2, <2>3, LatestIs
  <2> QED BY <2>3, <2>4 DEF Run
<1>6. R[i].stage = run[i].stage /\ R[i].term # "none"
  <2>1. run[i] \in RunRow
    BY <1>2, Kinds DEF Inv
  <2>2. PICK row : row = Cancelled(run[i])
    OBVIOUS
  <2>3. R[i] = row
    BY <1>2, <2>2, TypeIs DEF Inv
  <2>4. row.stage = run[i].stage /\ row.term # "none"
    BY <2>1, <2>2 DEF Cancelled, RunRow
  <2> QED BY <2>3, <2>4
<1> HIDE DEF R
<1>7. \A t \in Task : task'[t].kind = task[t].kind
                      /\ (task'[t].st = task[t].st \/ (t = run[i].task /\ Live(i) /\ task'[t].st = "failed"))
  <2> SUFFICES ASSUME NEW t \in Task
               PROVE  task'[t].kind = task[t].kind
                      /\ (task'[t].st = task[t].st \/ (t = run[i].task /\ task'[t].st = "failed"))
    BY <1>1
  <2>1. task[t] \in TaskRow
    BY TypeIs DEF Inv
  <2>2. CASE t # run[i].task
    BY <1>1, <2>2 DEF Settled
  <2>3. CASE t = run[i].task
    <3>1. task'[t] = [task[t] EXCEPT !.st = "failed"]
      BY <1>1, <1>4, <1>5, <1>6, <2>3 DEF Settled
    <3> QED BY <2>1, <2>3, <3>1 DEF TaskRow
  <2> QED BY <2>2, <2>3
<1>8. session' \subseteq session /\ \A j \in session' : run'[j] = run[j] /\ call'[j] = call[j]
  BY <1>1, <1>3 DEF Inv, Memory
<1>9. Pending => \A j \in Created : Passing(j)'
  BY <1>1, <1>2, Frame DEF Orderly, Still, Passing
<1>10. merged' \subseteq cleared'
  BY <1>1 DEF Orderly, Commits
<1> QED BY <1>1, <1>2, <1>3, <1>7, <1>8, <1>9, <1>10, Subsides

LEMMA rejectRunOrderly ==
  ASSUME Inv, Orderly, NEW i \in Run, rejectRun(i)
  PROVE  Orderly'
<1>1. /\ run[i].approval /\ run' = [run EXCEPT ![i] = Failed(@)]
      /\ UNCHANGED <<task, session, call, acall, boot, head, cleared, merged>>
  BY DEF rejectRun, calls, git
<1>2. i \in Created /\ Kept
  BY <1>1, rejectRunInv DEF Inv, Rows, Unborn
<1>3. /\ \A j \in Created \ {i} : run'[j] = run[j]
      /\ run'[i].stage = run[i].stage /\ (run'[i].approval => run[i].approval) /\ ~Live(i)'
  BY <1>1, <1>2, Ends
<1>4. i \notin session /\ session \subseteq Created
  <2> SUFFICES ASSUME i \in session PROVE FALSE
    BY DEF Inv, Memory
  <2>1. Approved(i)
    BY <1>1, <1>2 DEF Orderly, Sessions, Approved
  <2> QED BY <1>2, <2>1 DEF Orderly, Still, Pending
<1>5. \A j \in session' : run'[j] = run[j] /\ call'[j] = call[j]
  BY <1>1, <1>3, <1>4
<1>6. Pending => \A j \in Created : Passing(j)'
  BY <1>1, <1>2, Frame DEF Orderly, Still, Passing
<1>7. merged' \subseteq cleared'
  BY <1>1 DEF Orderly, Commits
<1> QED BY <1>1, <1>2, <1>3, <1>5, <1>6, <1>7, Subsides

\* What is merged is what the trunk is at.
LEMMA MergeApprovedOrderly ==
  ASSUME Inv, Orderly, NEW i \in Run, MergeApproved(i)
  PROVE  Orderly'
<1>1. acall[i] = "merge" /\ UNCHANGED <<run, task, session, call, boot, head, cleared>>
  BY DEF MergeApproved
<1>2. i \in Created /\ Kept
  BY <1>1, ApprovalInv DEF Inv, Memory
<1>3. run[i].tree = Trunk
  <2>1. Last(i)
    BY <1>1, <1>2 DEF Orderly, Approvals, Lives
  <2> QED BY <1>2, <2>1, TrunkIs DEF Orderly
<1>4. head[Trunk] \in cleared /\ merged \subseteq cleared
  BY <1>1, <1>2 DEF Orderly, Commits, Pending
<1>5. merged' \subseteq cleared'
  BY <1>1, <1>3, <1>4 DEF MergeApproved
<1>6. \A a \in Created : (acall'[a] = "merge" => acall[a] = "merge") /\ (acall'[a] # "none" => acall[a] # "none")
  <2>1. PICK pc \in {"finalize", "none"} : acall' = [acall EXCEPT ![i] = pc]
    BY DEF MergeApproved
  <2>2. acall'[i] = pc /\ \A a \in Created \ {i} : acall'[a] = acall[a]
    BY <1>2, <2>1, TypeIs DEF Inv, Created
  <2> QED BY <1>1, <2>2
<1>7. Pending => \A j \in Created : Passing(j)'
  BY <1>1, <1>2, Frame DEF Orderly, Still, Passing
<1> QED BY <1>1, <1>2, <1>5, <1>6, <1>7, Subsides

--------------------------------------------------------------------------------
(* Its calls: those that ask for a review or a fix, or end the lineage.        *)

LEMMA Written ==
  ASSUME NEW row \in RunRow
  PROVE  /\ Failed(row).stage = row.stage /\ Failed(row).term = "failed" /\ ~Failed(row).approval /\ ~Open(Failed(row))
         /\ Done(row).stage = "done" /\ Done(row).term = "none" /\ ~Done(row).approval /\ ~Open(Done(row))
<1>1. /\ Failed(row).stage = row.stage /\ Failed(row).term = "failed" /\ ~Failed(row).approval
  BY DEF RunRow, Failed
<1>2. Done(row).stage = "done" /\ Done(row).term = "none" /\ ~Done(row).approval
  BY DEF RunRow, Done
<1> QED BY <1>1, <1>2 DEF Open

LEMMA TaskAdded ==
  ASSUME Inv, Room, NEW kind, NEW round, NEW ver
  PROVE  /\ FreshTask \in Task /\ Added(task, kind, round, ver)[FreshTask].kind = kind
         /\ Added(task, kind, round, ver)[FreshTask].st = "ready" /\ Added(task, kind, round, ver)[FreshTask].ver = ver
         /\ \A t \in Task \ {FreshTask} : Added(task, kind, round, ver)[t] = task[t]
<1> DEFINE row == [kind |-> kind, round |-> round, st |-> "ready", retries |-> 0, ver |-> ver]
<1>1. row.kind = kind /\ row.st = "ready" /\ row.ver = ver
  OBVIOUS
<1>2. Added(task, kind, round, ver) = [task EXCEPT ![FreshTask] = row]
  BY DEF Added
<1> HIDE DEF row
<1>3. FreshTask \in Task
  BY DEF Room
<1> QED BY <1>1, <1>2, <1>3, TypeIs DEF Inv

\* The call of i was the one at work: it returns, and at most one task is ready then.
LEMMA HandsOver ==
  ASSUME Inv, Orderly, Kept, NEW i \in Created, Active(i), ~Pending, run[i].complete,
         session' = {}, \A j \in Created : call'[j].pc = "none", UNCHANGED acall,
         \A j \in Created : run'[j] = run[j] \/ (~Live(j)' /\ ~run'[j].approval),
         Works(i) \/ ~Live(i)',
         \A t \in Task : Ready(t)' => /\ t = FreshTask \/ (t = run[i].task /\ Kind(i) = "review")
                                      /\ task'[t].kind = "review" => task'[t].ver = head[Trunk],
         \A t, u \in Task : Ready(t)' /\ Ready(u)' => t = u,
         \A j \in Created : Live(j)' /\ Kind(j) # "impl" => Undone(run[j].task)',
         head' = head, cleared \subseteq cleared', merged' \subseteq merged
  PROVE  Orderly'
<1>1. \A j \in Created : acall'[j] # "merge" /\ (acall'[j] # "none" => Works(j) /\ run[j].complete)
  BY DEF Orderly, Approvals, Pending
<1>2. \A j \in Created : Live(j)' => Live(j) /\ run'[j] = run[j]
  BY DEF Live
<1>3. \A j \in Created : Offered(j)' /\ ~Approved(j)'
  <2>1. \A j \in Created : Offered(j) /\ ~Approved(j)
    BY DEF Orderly, Approvals, Pending
  <2> QED BY <1>2, <2>1, Frame DEF Offered, Approved
<1>4. \A j \in Created : Live(j)' => Live(j) /\ Kind(j) # "review"
  BY <1>2 DEF Orderly, OneReview, Works
<1>5. \A j \in Created : run[j].task \in Task /\ run[j].task # FreshTask /\ run'[j].task = run[j].task
  BY Kinds, Frame DEF Inv
<1>6. \A j \in Created : run[j].task = run[i].task /\ (Live(j) \/ (run[j].complete /\ Works(j))) => j = i
  BY Alone
<1>7. \A j \in Created : Live(j)' => ~Ready(run[j].task)' /\ (Kind(j) # "impl" => Undone(run[j].task)')
  <2> SUFFICES ASSUME NEW j \in Created, Live(j)', Ready(run[j].task)' PROVE FALSE
    OBVIOUS
  <2>1. PICK t \in Task : t = run[j].task
    BY <1>5
  <2>2. Ready(t)'
    BY <1>5, <2>1 DEF Ready
  <2>3. t = run[i].task /\ Kind(i) = "review"
    BY <1>5, <2>1, <2>2
  <2> QED BY <1>2, <1>6, <2>1, <2>3 DEF Works
<1>8. \A j \in Created : run[j].complete /\ Works(j) => ~Ready(run[j].task)'
  <2> SUFFICES ASSUME NEW j \in Created, run[j].complete, Works(j), Ready(run[j].task)' PROVE FALSE
    OBVIOUS
  <2>1. PICK t \in Task : t = run[j].task
    BY <1>5
  <2>2. Ready(t)'
    BY <1>5, <2>1 DEF Ready
  <2>3. t = run[i].task /\ Kind(i) = "review"
    BY <1>5, <2>1, <2>2
  <2> QED BY <1>6, <2>1, <2>3 DEF Works
<1>9. \E k \in Created : Kind(k) = "impl" /\ run[k].complete
  <2>1. CASE Kind(i) = "impl"
    BY <2>1
  <2>2. CASE Kind(i) # "impl"
    BY <2>2, Frame DEF Orderly, Preceded
  <2> QED BY <2>1, <2>2
<1> QED BY <1>1, <1>3, <1>4, <1>7, <1>8, <1>9, Readies

\* An escalation leaves nobody live and no task ready.
LEMMA EscalationOrderly ==
  ASSUME Inv, Orderly, Kept, NEW i \in Created, Active(i), ~Pending, run[i].complete,
         session' = {}, \A j \in Created : call'[j].pc = "none", UNCHANGED <<acall, head, cleared, merged>>,
         NEW R, R \in [Run -> RunRow], \A j \in Run : R[j] = run[j] \/ R[j] = Failed(run[j]),
         NEW row, row = Failed(run[i]) \/ row = Done(run[i]), EscalateLineage(R, i, row)
  PROVE  Orderly'
<1> DEFINE closed == LineageClosed(R, i, row)
<1>1. run' = closed /\ task' = TasksClosed(closed)
  BY DEF EscalateLineage
<1>2. session \subseteq {i} /\ \A t \in Task : ~Ready(t)
  BY Alone
<1>3. ASSUME NEW j \in Created
      PROVE  run'[j] = run[j] \/ (~Live(j)' /\ ~run'[j].approval)
  <2>1. j \in Run /\ run[j] \in RunRow /\ R[j] \in RunRow /\ run[i] \in RunRow
    BY Kinds DEF Inv
  <2>2. (run'[j] = R[j] /\ ~Open(R[j])) \/ (j = i /\ run'[j] = row) \/ run'[j] = Failed(R[j])
    BY <1>1, <1>2, <2>1 DEF LineageClosed
  <2>3. run'[j] = R[j] => run'[j] = run[j] \/ run'[j] = Failed(run[j])
    BY <2>1
  <2>4. PICK new : new = run'[j]
    OBVIOUS
  <2>5. new = run[j] \/ (~Open(new) /\ ~new.approval)
    BY <2>1, <2>2, <2>3, <2>4, Written
  <2> QED BY <2>4, <2>5 DEF Live
<1>4. \A j \in Created : ~Live(j)'
  <2> SUFFICES ASSUME NEW j \in Created PROVE ~Open(run'[j])
    BY DEF Live
  <2>1. j \in Run /\ run[j] \in RunRow /\ R[j] \in RunRow /\ run[i] \in RunRow
    BY Kinds DEF Inv
  <2>2. (run'[j] = R[j] /\ ~Open(R[j])) \/ (j = i /\ run'[j] = row) \/ run'[j] = Failed(R[j])
    BY <1>1, <1>2, <2>1 DEF LineageClosed
  <2> QED BY <2>1, <2>2, Written
<1>5. \A t \in Task : ~Ready(t)'
  <2> SUFFICES ASSUME NEW t \in Task PROVE task'[t].st # "ready"
    BY DEF Ready
  <2>1. task[t] \in TaskRow /\ task[t].st # "ready"
    BY <1>2, TypeIs DEF Inv, Ready
  <2>2. task'[t] = task[t] \/ (\E st \in {"done", "failed"} : task'[t] = [task[t] EXCEPT !.st = st])
    <3> HIDE DEF closed
    <3>1. task'[t] = TasksClosed(closed)[t]
      BY <1>1
    <3>2. \/ task'[t] = task[t]
          \/ task'[t] = [task[t] EXCEPT !.st = IF @ = "done" THEN "done" ELSE "failed"]
          \/ task'[t] = [task[t] EXCEPT !.st = "done"]
          \/ task'[t] = [task[t] EXCEPT !.st = "failed"]
      BY <3>1 DEF TasksClosed
    <3> QED BY <3>2
  <2> QED BY <2>1, <2>2 DEF TaskRow
<1> QED BY <1>3, <1>4, <1>5, HandsOver

LEMMA Returns ==
  ASSUME Inv, Orderly, NEW i \in Run, call[i].pc # "none", Return(i)
  PROVE  /\ i \in Created /\ Active(i) /\ run[i].complete /\ call'[i] = Idle
         /\ \A j \in Created : call'[j].pc = "none" /\ (j # i => call'[j] = call[j])
<1>1. i \in Created /\ Active(i) /\ run[i].complete
  BY Called DEF Active
<1>2. call'[i] = Idle /\ \A j \in Created \ {i} : call'[j] = call[j]
  BY <1>1, TypeIs DEF Inv, Return, Created
<1>3. \A j \in Created \ {i} : call[j].pc = "none"
  BY <1>1, Alone
<1> QED BY <1>1, <1>2, <1>3, IdleIs

LEMMA FixOrderly ==
  ASSUME Inv, Orderly, Kept, NEW i \in Run, call[i].pc \notin {"none", "release"}, ~Passing(i),
         Room, NEW n, task' = Added(task, "fix", n, 0), Return(i),
         UNCHANGED <<run, session, acall, head, cleared, merged>>
  PROVE  Orderly'
<1>1. i \in Created /\ Active(i) /\ run[i].complete /\ \A j \in Created : call'[j].pc = "none"
  BY Returns
<1>2. session = {} /\ ~Pending /\ \A t \in Task : ~Ready(t)
  BY <1>1, Alone
<1>3. /\ FreshTask \in Task /\ task'[FreshTask].kind = "fix"
      /\ \A t \in Task \ {FreshTask} : task'[t] = task[t]
  BY TaskAdded
<1>4. Works(i)
  BY Called DEF Works, Passing
<1>5. \A t \in Task : Ready(t)' => t = FreshTask
  BY <1>2, <1>3 DEF Ready
<1>6. \A j \in Created : Live(j)' /\ Kind(j) # "impl" => Undone(run[j].task)'
  <2>1. \A j \in Created : run[j].task \in Task /\ run[j].task # FreshTask /\ (IsFollow(run[j].task) <=> Kind(j) # "impl")
    BY Kinds, Frame DEF Inv
  <2>2. \A j \in Created : Live(j)' => Live(j)
    BY DEF Live
  <2> QED BY <1>3, <2>1, <2>2 DEF Orderly, Lives, Undone
<1>7. merged' \subseteq merged
  OBVIOUS
<1> QED BY <1>1, <1>2, <1>3, <1>4, <1>5, <1>6, <1>7, HandsOver

LEMMA VerificationFixOrderly ==
  ASSUME Inv, Orderly, Kept, NEW i \in Run, call[i].pc \in {"verify", "again"},
         dispatchVerificationFix(i), Return(i),
         UNCHANGED <<session, acall, head, cleared, merged>>
  PROVE  Orderly'
<1>1. i \in Created /\ Active(i) /\ run[i].complete /\ \A j \in Created : call'[j].pc = "none"
  BY Returns
<1>2. ~Passing(i)
  BY DEF Passing
<1>3. session = {} /\ ~Pending
  BY <1>1, <1>2, Alone
<1>4. CASE FixRuns(i) >= MaxFix
  <2> DEFINE r == RootOf(i)
             R == [run EXCEPT ![r] = IF @.term = "none" THEN Failed(@) ELSE @]
  <2>1. EscalateLineage(R, i, Failed(run[i]))
    BY <1>4 DEF dispatchVerificationFix
  <2>2. r \in Created
    BY <1>1, ChainIs DEF Inv
  <2> HIDE DEF r
  <2>3. R \in [Run -> RunRow]
    BY <2>2, RootFailed DEF Same
  <2>4. \A j \in Run : R[j] = run[j] \/ R[j] = Failed(run[j])
    BY TypeIs DEF Inv
  <2>5. PICK row : row = Failed(run[i])
    OBVIOUS
  <2> HIDE DEF R
  <2> QED BY <1>1, <1>3, <2>1, <2>3, <2>4, <2>5, EscalationOrderly
<1>5. CASE ~(FixRuns(i) >= MaxFix)
  <2>1. Room /\ task' = Added(task, "fix", FixRuns(i) + 1, 0) /\ UNCHANGED run
    BY <1>5 DEF dispatchVerificationFix
  <2> QED BY <1>2, <2>1, FixOrderly
<1> QED BY <1>4, <1>5

\* The worktree of an active run is that of the trunk.
LEMMA ActiveTree ==
  ASSUME Inv, Orderly, NEW i \in Created, Last(i)
  PROVE  run[i].tree = Trunk /\ i >= Trunk /\ (Kind(i) = "impl" => i = Trunk)
<1>1. i \in Nat /\ Trunk \in Nat
  BY TrunkIs DEF Orderly, Created, Run
<1> QED BY <1>1, TrunkIs DEF Orderly

LEMMA dispatchReviewOrderly ==
  ASSUME Inv, Orderly, NEW i \in Run, dispatchReview(i)
  PROVE  Orderly'
<1> DEFINE t0 == run[i].task
           T == Added(task, "review", task[t0].round + 1, head[run[i].tree])
<1>1. /\ call[i].pc = "review" /\ Room
      /\ task' = (IF Kind(i) = "fix" THEN CompletedTask(T, i) ELSE T)
      /\ run' = Completed(run, i) /\ Return(i)
      /\ UNCHANGED <<session, acall, head, cleared, merged>>
  BY DEF dispatchReview, calls, git
<1>2. /\ i \in Created /\ Active(i) /\ run[i].complete /\ (\A j \in Created : call'[j].pc = "none") /\ Kept
  BY <1>1, Returns, dispatchReviewInv
<1>3. session = {} /\ ~Pending /\ (\A t \in Task : ~Ready(t)) /\ Last(i)
  <2>1. ~Passing(i)
    BY <1>1 DEF Passing
  <2> QED BY <1>1, <1>2, <2>1, Alone
<1>4. /\ FreshTask \in Task /\ T[FreshTask].kind = "review" /\ T[FreshTask].ver = head[Trunk]
      /\ \A t \in Task \ {FreshTask} : T[t] = task[t]
  BY <1>1, <1>2, <1>3, TaskAdded, ActiveTree
<1>5. t0 \in Task /\ t0 # FreshTask /\ task[t0] \in TaskRow /\ run[i] \in RunRow
  BY <1>2, Kinds DEF Inv
<1>6. \A t \in Task \ {t0} : task'[t] = T[t]
  <2> HIDE DEF T
  <2> QED BY <1>1 DEF CompletedTask
<1>7. task'[t0] = task[t0] \/ task'[t0].st = "done"
  <2>1. T[t0] = task[t0]
    BY <1>4, <1>5
  <2>2. PICK row : row = [task[t0] EXCEPT !.st = "done"]
    OBVIOUS
  <2>3. row.st = "done"
    BY <1>5, <2>2 DEF TaskRow
  <2>4. T = [t \in Task |-> T[t]]
    BY TypeIs DEF Added, Inv
  <2> HIDE DEF T
  <2>5. task'[t0] = T[t0] \/ task'[t0] = row
    BY <1>1, <1>5, <2>1, <2>2, <2>4 DEF CompletedTask
  <2> QED BY <2>1, <2>3, <2>5
<1>8. \A j \in Created \ {i} : run'[j] = run[j]
  BY <1>1 DEF Completed
<1>9. ~Live(i)' /\ (run'[i] = run[i] \/ ~run'[i].approval)
  <2>1. CASE call[i].live
    <3>1. run'[i] = Done(run[i])
      BY <1>1, <2>1, TypeIs DEF Completed, Inv
    <3> QED BY <1>5, <3>1, Written DEF Live
  <2>2. CASE ~call[i].live
    <3>1. run[i].stage = "done"
      BY <1>1, <1>2, <2>2 DEF Orderly, Calls, CallKnown
    <3>2. run' = run
      BY <1>1, <2>2 DEF Completed
    <3> QED BY <3>1, <3>2 DEF Live, Open
  <2> QED BY <2>1, <2>2
<1>10. \A t \in Task : Ready(t)' => t = FreshTask /\ task'[t].ver = head[Trunk]
  <2>1. \A t \in Task \ {FreshTask, t0} : task'[t].st # "ready"
    BY <1>3, <1>4, <1>6 DEF Ready
  <2>2. task'[t0].st # "ready"
    BY <1>3, <1>5, <1>7 DEF Ready
  <2>3. task'[FreshTask].ver = head[Trunk]
    BY <1>4, <1>5, <1>6
  <2> QED BY <2>1, <2>2, <2>3 DEF Ready
<1>11. \A j \in Created : Live(j)' /\ Kind(j) # "impl" => Undone(run[j].task)'
  <2> SUFFICES ASSUME NEW j \in Created, Live(j)', Kind(j) # "impl" PROVE task'[run[j].task].st # "done"
    BY <1>2, Frame DEF Undone
  <2>1. j # i /\ Live(j)
    BY <1>8, <1>9 DEF Live
  <2>2. run[j].task # t0
    BY <1>2, <2>1, Alone
  <2>3. run[j].task \in Task /\ run[j].task # FreshTask /\ IsFollow(run[j].task)
    BY <1>2, Kinds, Frame DEF Inv
  <2>4. task[run[j].task].st # "done"
    BY <2>1, <2>3 DEF Orderly, Lives, Undone
  <2> QED BY <1>4, <1>6, <2>2, <2>3, <2>4
<1>12. merged' \subseteq merged /\ cleared \subseteq cleared'
  BY <1>1
<1> HIDE DEF T, t0
<1> QED BY <1>1, <1>2, <1>3, <1>8, <1>9, <1>10, <1>11, <1>12, HandsOver

\* A call goes on, and the rows stay or its run fails.
LEMMA VerifyOrderly ==
  ASSUME Inv, Orderly, NEW i \in Run, Verify(i) \/ retryFinalFixVerify(i)
  PROVE  Orderly'
<1>1. /\ call[i].pc \in {"verify", "again"}
      /\ UNCHANGED <<session, boot, acall, head, cleared, merged>>
  BY DEF Verify, retryFinalFixVerify, calls, git
<1>2. i \in Created /\ Active(i) /\ Kept /\ ~Passing(i) /\ run[i] \in RunRow /\ call[i] \in CallRow
  BY <1>1, Called, VerifyInv, Kinds DEF Inv, Passing, Active
<1>3. session = {} /\ ~Pending
  BY <1>1, <1>2, Alone
<1>4. \/ Verified(i) /\ UNCHANGED <<run, task>>
      \/ dispatchVerificationFix(i) /\ Return(i)
      \/ run' = [run EXCEPT ![i].again = TRUE] /\ Wait(i, "again") /\ UNCHANGED task
      \/ run' = [run EXCEPT ![i] = Failed(@)] /\ Return(i) /\ UNCHANGED task
      \/ Kind(i) = "impl" /\ Room /\ task' = Added(task, "fix", FixRuns(i) + 1, 0) /\ Return(i) /\ UNCHANGED run
  BY DEF Verify, retryFinalFixVerify
<1>5. merged' \subseteq cleared'
  BY <1>1 DEF Orderly, Commits
<1>6. CASE dispatchVerificationFix(i) /\ Return(i)
  BY <1>1, <1>2, <1>6, VerificationFixOrderly
<1>7. CASE Kind(i) = "impl" /\ Room /\ task' = Added(task, "fix", FixRuns(i) + 1, 0) /\ Return(i) /\ UNCHANGED run
  BY <1>1, <1>2, <1>7, FixOrderly
<1>8. CASE run' = [run EXCEPT ![i] = Failed(@)] /\ Return(i) /\ UNCHANGED task
  <2>1. /\ \A j \in Created \ {i} : run'[j] = run[j]
        /\ run'[i].stage = run[i].stage /\ (run'[i].approval => run[i].approval) /\ ~Live(i)'
    BY <1>2, <1>8, Ends
  <2>2. \A j \in Created : call'[j].pc = "none" /\ (call'[j] = call[j] \/ CallKnown(j, call[j])')
    BY <1>1, <1>8, Returns DEF CallKnown
  <2> QED BY <1>1, <1>2, <1>3, <1>5, <1>8, <2>1, <2>2, Subsides
<1>9. CASE /\ \/ Verified(i) /\ UNCHANGED run
              \/ run' = [run EXCEPT ![i].again = TRUE] /\ Wait(i, "again")
           /\ UNCHANGED task
  <2>1. PICK pc \in {"review", "unreviewed", "again"} : call' = [call EXCEPT ![i].pc = pc]
    BY <1>9 DEF Verified, Wait
  <2>2. call'[i].pc = pc /\ call'[i].live = call[i].live /\ \A j \in Created \ {i} : call'[j] = call[j]
    BY <1>2, <2>1, TypeIs DEF Inv, Created, CallRow
  <2>3. /\ \A j \in Created \ {i} : run'[j] = run[j]
        /\ run'[i].stage = run[i].stage /\ run'[i].term = run[i].term /\ run'[i].approval = run[i].approval
    BY <1>2, <1>9, TypeIs DEF Inv, Created, RunRow
  <2>4. CallKnown(i, call[i])'
    <3>1. ~call'[i].live => run'[i].stage = "done"
      BY <1>1, <1>2, <2>2, <2>3 DEF Orderly, Calls, CallKnown
    <3> QED BY <2>1, <2>2, <3>1 DEF CallKnown
  <2>5. \A j \in Created : (call'[j].pc # "none" => call[j].pc # "none") /\ (call'[j] = call[j] \/ CallKnown(j, call[j])')
    BY <1>1, <2>2, <2>4
  <2> QED BY <1>1, <1>2, <1>3, <1>5, <1>9, <2>3, <2>5, Subsides
<1> QED BY <1>4, <1>6, <1>7, <1>8, <1>9

\* After the release, the call of i is the only one, and no session is left.
LEMMA Released ==
  ASSUME Inv, Orderly, NEW i \in Run, call[i].pc = "release", session' = session \ {i}
  PROVE  /\ i \in Created /\ Active(i) /\ run[i].complete /\ session' = {} /\ Last(i)
         /\ i \in Run /\ run[i] \in RunRow /\ run[i].task \in Task /\ task[run[i].task] \in TaskRow
         /\ run[i].task # FreshTask /\ call[i] \in CallRow /\ Kind(i) = task[run[i].task].kind
         /\ (\A t \in Task : ~Ready(t)) /\ \A j \in Created \ {i} : call[j].pc = "none"
         /\ ~call[i].live => run[i].stage = "done"
         /\ \A j \in Created : run[j].task = run[i].task /\ Live(j) => j = i
         /\ \A k \in boot : ~Live(k)
<1>1. i \in Created /\ Active(i) /\ run[i].complete /\ call[i] \in CallRow
  BY Called DEF Active
<1>2. i \in Run /\ run[i] \in RunRow /\ run[i].task \in Task /\ task[run[i].task] \in TaskRow
      /\ run[i].task # FreshTask /\ Kind(i) = task[run[i].task].kind
  BY <1>1, Kinds DEF Inv
<1>3. ~call[i].live => run[i].stage = "done"
  BY <1>1 DEF Orderly, Calls, CallKnown
<1>4. \A k \in boot : ~Live(k)
  BY <1>1 DEF Orderly, BootDead
<1> QED BY <1>1, <1>2, <1>3, <1>4, Alone

\* A review or a fix of a lineage that has shipped is closed.
LEMMA StaleOrderly ==
  ASSUME Inv, Orderly, Kept, NEW i \in Run, call[i].pc = "release", session' = session \ {i},
         Shipped(i), CloseStale(i), Return(i), UNCHANGED <<boot, acall, head, cleared, merged>>
  PROVE  Orderly'
<1> DEFINE t0 == run[i].task
<1>1. /\ i \in Created /\ Active(i) /\ session' = {} /\ Last(i) /\ run[i] \in RunRow
      /\ t0 \in Task /\ task[t0] \in TaskRow /\ Kind(i) = task[t0].kind
      /\ (\A t \in Task : ~Ready(t)) /\ (~call[i].live => run[i].stage = "done")
      /\ (\A j \in Created : run[j].task = t0 /\ Live(j) => j = i) /\ \A k \in boot : ~Live(k)
  BY Released
<1>2. \A j \in Created : call'[j].pc = "none"
  BY <1>1, Returns
<1>3. ~Live(Trunk)
  <2>1. RootOf(i) = Trunk
    BY <1>1, ActiveTree, ChainOfTrunk DEF Orderly
  <2> QED BY <2>1 DEF Shipped, Live, Open
<1>4. merged \subseteq cleared
  BY DEF Orderly, Commits
<1>5. CASE Kind(i) = "impl"
  <2>1. UNCHANGED <<run, task>>
    BY <1>5 DEF CloseStale
  <2>2. \A j \in Created : Passing(j)' /\ CallKnown(j, call[j])'
    BY <1>2 DEF Passing, CallKnown
  <2> QED BY <1>1, <1>2, <1>4, <2>1, <2>2, Subsides
<1>6. CASE Kind(i) # "impl"
  <2>1. run' = (IF call[i].live THEN [run EXCEPT ![i] = Done(@)] ELSE run) /\ task' = TaskTo(t0, "done")
    BY <1>6 DEF CloseStale
  <2>2. /\ \A j \in Created \ {i} : run'[j] = run[j]
        /\ ~Live(i)' /\ (run'[i] = run[i] \/ ~run'[i].approval)
    <3>1. CASE call[i].live
      <4>1. run'[i] = Done(run[i])
        BY <2>1, <3>1, TypeIs DEF Inv
      <4> QED BY <1>1, <2>1, <4>1, Written DEF Live
    <3>2. CASE ~call[i].live
      BY <1>1, <2>1, <3>2 DEF Live, Open
    <3> QED BY <3>1, <3>2
  <2>3. task'[t0].st = "done" /\ task'[t0].kind = task[t0].kind /\ \A t \in Task \ {t0} : task'[t] = task[t]
    BY <1>1, <2>1, TypeIs DEF Inv, TaskTo, TaskRow
  <2>4. \A j \in Created : Live(j)' => Live(j) /\ j # i /\ run'[j] = run[j]
    BY <2>2 DEF Live
  <2>5. \A j \in Created : Offered(j)'
    <3>1. \A j \in Created : Offered(j)
      BY DEF Orderly, Approvals
    <3> QED BY <2>2, <3>1, Frame DEF Offered
  <2>6. \A j \in Created : acall'[j] # "none" => Works(j) /\ run[j].complete
    BY DEF Orderly, Approvals
  <2>7. \A j \in Created : call'[j].pc # "none" => call[j].pc # "none"
    BY <1>2
  <2>8. \A j \in Created : CallKnown(j, call[j])' /\ Passing(j)' /\ ~Active(j)'
    BY <1>1, <1>2 DEF CallKnown, Passing, Active
  <2>9. \A t \in Task : (Ready(t)' => Ready(t)) /\ task'[t].kind = task[t].kind
    BY <2>3 DEF Ready
  <2>10. \A j \in Created : Live(j)' /\ Kind(j) # "impl" => Undone(run[j].task)'
    <3> SUFFICES ASSUME NEW j \in Created, Live(j)', Kind(j) # "impl" PROVE task'[run[j].task].st # "done"
      BY Frame DEF Undone
    <3>1. run[j].task \in Task \ {t0} /\ task[run[j].task].st # "done"
      BY <1>1, <2>4, Frame DEF Orderly, Lives, Undone
    <3> QED BY <2>3, <3>1
  <2>11. \A a \in Created : Approved(a)' => Approved(a) /\ Kind(a) # "impl"
    <3> SUFFICES ASSUME NEW a \in Created, Approved(a)' PROVE Approved(a) /\ Kind(a) # "impl"
      OBVIOUS
    <3>1. Approved(a)
      BY <2>4 DEF Approved
    <3>2. Last(a) /\ a # Trunk
      BY <1>3, <3>1 DEF Approved, Orderly, Lives
    <3> QED BY <3>1, <3>2, TrunkIs DEF Orderly
  <2>12. \A a \in Created : \A j \in boot' : acall'[a] = "merge" => Harmless(j)'
    <3>1. \A j \in boot : j \in Created /\ ~Live(j)'
      BY <1>1, <2>4 DEF Inv, Memory
    <3> QED BY <3>1 DEF Harmless
  <2>13. Pending' => Pending
    BY <2>11, Frame DEF Pending
  <2>14. \A j \in Created : Live(j)' => Live(j)
    BY <2>4
  <2>15. head' = head /\ cleared \subseteq cleared' /\ merged' \subseteq cleared' /\ boot' \subseteq boot
    BY <1>4
  <2> HIDE DEF t0
  <2> QED BY <1>1, <2>5, <2>6, <2>7, <2>8, <2>9, <2>10, <2>11, <2>12, <2>13, <2>14, <2>15, Moves
<1> QED BY <1>5, <1>6

\* A malformed verdict: the review is asked for again, or fails.
LEMMA MalformedOrderly ==
  ASSUME Inv, Orderly, Kept, NEW i \in Run, call[i].pc = "release", Kind(i) = "review",
         session' = session \ {i}, run[i].says = "malformed",
         retryMalformedReviewTask(i) \/ failReviewTask(i), Return(i),
         UNCHANGED <<acall, head, cleared, merged>>
  PROVE  Orderly'
<1> DEFINE t0 == run[i].task
<1>1. /\ i \in Created /\ Active(i) /\ session' = {} /\ Last(i) /\ run[i] \in RunRow /\ run[i].complete
      /\ t0 \in Task /\ task[t0] \in TaskRow /\ Kind(i) = task[t0].kind
      /\ (\A t \in Task : ~Ready(t))
      /\ (\A j \in Created : run[j].task = t0 /\ Live(j) => j = i)
  BY Released
<1>2. \A j \in Created : call'[j].pc = "none"
  BY Returns
<1>3. ~Pending
  BY <1>1, Alone DEF Passing
<1>4. run' = [run EXCEPT ![i] = Failed(@)]
  BY DEF retryMalformedReviewTask, failReviewTask
<1>5. /\ \A j \in Created \ {i} : run'[j] = run[j]
      /\ ~Live(i)' /\ ~run'[i].approval
  <2>1. run'[i] = Failed(run[i])
    BY <1>4, TypeIs DEF Inv
  <2> QED BY <1>1, <1>4, <2>1, Written DEF Live
<1>6. task'[t0].ver = task[t0].ver /\ \A t \in Task \ {t0} : task'[t] = task[t]
  <2>1. PICK row : /\ task' = [task EXCEPT ![t0] = row]
                   /\ \/ row = [task[t0] EXCEPT !.st = "ready", !.retries = @ + 1]
                      \/ row = [task[t0] EXCEPT !.st = "failed"]
    <3>1. CASE retryMalformedReviewTask(i)
      <4>1. task' = [task EXCEPT ![t0].st = "ready", ![t0].retries = @ + 1]
        BY <3>1 DEF retryMalformedReviewTask
      <4>2. task' = [task EXCEPT ![t0] = [task[t0] EXCEPT !.st = "ready", !.retries = @ + 1]]
        BY <1>1, <4>1, TypeIs DEF Inv, TaskRow
      <4> QED BY <4>2
    <3>2. CASE failReviewTask(i)
      BY <3>2 DEF failReviewTask, TaskTo
    <3> QED BY <3>1, <3>2
  <2>2. row.ver = task[t0].ver
    BY <1>1, <2>1 DEF TaskRow
  <2> QED BY <1>1, <2>1, <2>2, TypeIs DEF Inv
<1>7. \A t \in Task : Ready(t)' => t = t0 /\ task'[t].ver = head[Trunk]
  <2>1. task[t0].ver = head[Trunk]
    BY <1>1 DEF Orderly, Commits
  <2> QED BY <1>1, <1>6, <2>1 DEF Ready
<1>8. \A j \in Created : Live(j)' /\ Kind(j) # "impl" => Undone(run[j].task)'
  <2> SUFFICES ASSUME NEW j \in Created, Live(j)', Kind(j) # "impl" PROVE task'[run[j].task].st # "done"
    BY Frame DEF Undone
  <2>1. Live(j) /\ j # i
    BY <1>5 DEF Live
  <2>2. run[j].task \in Task \ {t0} /\ task[run[j].task].st # "done"
    BY <1>1, <2>1, Frame DEF Orderly, Lives, Undone
  <2> QED BY <1>6, <2>2
<1>9. merged' \subseteq merged /\ cleared \subseteq cleared'
  OBVIOUS
<1> HIDE DEF t0
<1> QED BY <1>1, <1>2, <1>3, <1>5, <1>7, <1>8, <1>9, HandsOver DEF t0

\* A verdict that asks for a fix.
LEMMA BlockedOrderly ==
  ASSUME Inv, Orderly, Kept, NEW i \in Run, call[i].pc = "release", Kind(i) = "review",
         session' = session \ {i}, run[i].says = "block", Room, NEW n,
         task' = [Added(task, "fix", n, 0) EXCEPT ![run[i].task].st = "done"],
         run' = Completed(run, i), Return(i),
         UNCHANGED <<acall, head, cleared, merged>>
  PROVE  Orderly'
<1> DEFINE t0 == run[i].task
           T == Added(task, "fix", n, 0)
<1>1. /\ i \in Created /\ Active(i) /\ session' = {} /\ Last(i) /\ run[i] \in RunRow /\ run[i].complete
      /\ t0 \in Task /\ task[t0] \in TaskRow /\ t0 # FreshTask
      /\ (\A t \in Task : ~Ready(t)) /\ (~call[i].live => run[i].stage = "done")
      /\ (\A j \in Created : run[j].task = t0 /\ Live(j) => j = i)
  BY Released
<1>2. \A j \in Created : call'[j].pc = "none"
  BY Returns
<1>3. ~Pending
  BY <1>1, Alone DEF Passing
<1>4. /\ FreshTask \in Task /\ T[FreshTask].kind = "fix" /\ \A t \in Task \ {FreshTask} : T[t] = task[t]
  BY TaskAdded
<1>5. /\ task'[FreshTask] = T[FreshTask] /\ \A t \in Task \ {FreshTask, t0} : task'[t] = task[t]
      /\ task'[t0].st = "done"
  <2>1. T = [t \in Task |-> T[t]]
    BY TypeIs DEF Added, Inv
  <2>2. PICK row : row = [task[t0] EXCEPT !.st = "done"]
    OBVIOUS
  <2>3. row.st = "done"
    BY <1>1, <2>2 DEF TaskRow
  <2>4. T[t0] = task[t0]
    BY <1>1, <1>4
  <2>5. task' = [T EXCEPT ![t0] = [T[t0] EXCEPT !.st = "done"]]
    OBVIOUS
  <2> HIDE DEF T
  <2>6. task' = [T EXCEPT ![t0] = row]
    BY <2>2, <2>4, <2>5
  <2> QED BY <1>1, <1>4, <2>1, <2>3, <2>6
<1>6. /\ \A j \in Created \ {i} : run'[j] = run[j]
      /\ ~Live(i)' /\ (run'[i] = run[i] \/ ~run'[i].approval)
  <2>1. CASE call[i].live
    <3>1. run'[i] = Done(run[i])
      BY <1>1, <2>1, TypeIs DEF Inv, Completed
    <3> QED BY <1>1, <3>1, Written DEF Live, Completed
  <2>2. CASE ~call[i].live
    BY <1>1, <2>2 DEF Live, Open, Completed
  <2> QED BY <2>1, <2>2
<1>7. \A t \in Task : Ready(t)' => t = FreshTask /\ task'[t].kind = "fix"
  BY <1>1, <1>4, <1>5 DEF Ready
<1>8. \A j \in Created : Live(j)' /\ Kind(j) # "impl" => Undone(run[j].task)'
  <2> SUFFICES ASSUME NEW j \in Created, Live(j)', Kind(j) # "impl" PROVE task'[run[j].task].st # "done"
    BY Frame DEF Undone
  <2>1. Live(j) /\ j # i
    BY <1>6 DEF Live
  <2>2. run[j].task \in Task \ {t0, FreshTask} /\ task[run[j].task].st # "done"
    BY <1>1, <2>1, Frame, Kinds DEF Orderly, Lives, Undone, Inv
  <2> QED BY <1>5, <2>2
<1>9. merged' \subseteq merged /\ cleared \subseteq cleared'
  OBVIOUS
<1> HIDE DEF t0, T
<1> QED BY <1>1, <1>2, <1>3, <1>6, <1>7, <1>8, <1>9, HandsOver

\* A verdict that passes: what the worktree is at has been cleared.
LEMMA PassedOrderly ==
  ASSUME Inv, Orderly, Kept, NEW i \in Run, call[i].pc = "release", Kind(i) = "review",
         session' = session \ {i}, run[i].says = "pass",
         cleared' = cleared \cup {task[run[i].task].ver},
         NEW c, call' = [call EXCEPT ![i] = c], c.pc = "sync", c.live = call[i].live, c.par = run[i].par,
         c.root = RootOf(run[i].par),
         UNCHANGED <<run, task, boot, acall, head, merged>>
  PROVE  Orderly'
<1>1. /\ i \in Created /\ Active(i) /\ session' = {} /\ (~call[i].live => run[i].stage = "done")
      /\ \A j \in Created \ {i} : call[j].pc = "none"
  BY Released
<1>2. call'[i] = c /\ \A j \in Created \ {i} : call'[j] = call[j]
  BY TypeIs DEF Inv, Created
<1>3. RootOf(run[i].par) = Trunk
  <2>1. run[i].par \in Created /\ Trunk \in Created /\ Kind(Trunk) = "impl"
    BY <1>1, Kinds, TrunkIs DEF Inv, Orderly
  <2>2. run[i].par >= Trunk
    BY <1>1, <2>1 DEF Orderly, Shape, Works
  <2> QED BY <2>1, <2>2, ChainOfTrunk DEF Orderly
<1>4. head[Trunk] \in cleared'
  BY <1>1 DEF Orderly, Commits
<1>5. CallKnown(i, call[i])'
  <2>1. Kind(i)' = Kind(i) /\ Trunk' = Trunk /\ run'[i] = run[i]
    BY <1>1, Frame
  <2> QED BY <1>1, <1>2, <1>3, <1>4, <2>1 DEF CallKnown
<1>6. \A j \in Created : Passing(j)'
  BY <1>1, <1>2 DEF Passing
<1>7. \A j \in Created : (call'[j].pc # "none" => call[j].pc # "none") /\ (call'[j] = call[j] \/ CallKnown(j, call[j])')
  BY <1>2, <1>5
<1>8. merged' \subseteq cleared' /\ cleared \subseteq cleared'
  BY DEF Orderly, Commits
<1> QED BY <1>1, <1>6, <1>7, <1>8, Subsides

\* The release of a session is back, and its row decides.
LEMMA RouteOrderly ==
  ASSUME Inv, Orderly, NEW i \in Run, Route(i)
  PROVE  Orderly'
<1>1. /\ call[i].pc = "release" /\ session' = session \ {i} /\ UNCHANGED <<acall, boot, head, merged>>
  BY DEF Route, calls
<1>2. /\ i \in Created /\ Active(i) /\ session' = {} /\ run[i] \in RunRow /\ run[i].complete
      /\ (~call[i].live => run[i].stage = "done") /\ call[i] \in CallRow
      /\ \A j \in Created \ {i} : call[j].pc = "none"
  BY <1>1, Released
<1>3. Kept
  BY RouteInv
<1>4. CASE Shipped(i) /\ CloseStale(i) /\ Return(i) /\ UNCHANGED cleared
  BY <1>1, <1>3, <1>4, StaleOrderly
<1>5. CASE /\ Kind(i) # "review"
           /\ call' = [call EXCEPT ![i].pc = "verify", ![i].tst = task[run[i].task].st]
           /\ UNCHANGED <<run, task, cleared>>
  <2>1. call'[i].pc = "verify" /\ call'[i].live = call[i].live /\ \A j \in Created \ {i} : call'[j] = call[j]
    BY <1>2, <1>5, TypeIs DEF Inv, Created, CallRow
  <2>2. CallKnown(i, call[i])'
    <3>1. run'[i] = run[i]
      BY <1>5
    <3> QED BY <1>2, <2>1, <3>1 DEF CallKnown
  <2>3. \A j \in Created : (call'[j].pc # "none" => call[j].pc # "none") /\ (call'[j] = call[j] \/ CallKnown(j, call[j])')
    BY <1>1, <2>1, <2>2
  <2>4. ~Pending
    BY <1>1, <1>2, <1>5, Alone DEF Passing
  <2>5. merged' \subseteq cleared'
    BY <1>1, <1>5 DEF Orderly, Commits
  <2> QED BY <1>1, <1>2, <1>3, <1>5, <2>3, <2>4, <2>5, Subsides
<1>6. CASE Kind(i) = "review" /\ Verdict(i, run[i].par)
  <2> DEFINE t == run[i].task
             par == run[i].par
             r == RootOf(par)
             c == [call[i] EXCEPT !.pc = "sync", !.tst = task[t].st, !.par = par, !.root = r,
                                  !.rstage = run[r].stage, !.rterm = run[r].term, !.ost = task[Root].st]
  <2>1. par \in Created /\ r \in Created
    BY <1>2, <1>6, Kinds, ChainIs DEF Inv
  <2>2. c.pc = "sync" /\ c.live = call[i].live /\ c.par = par /\ c.root = r /\ c.rterm = run[r].term
    BY <1>2 DEF CallRow
  <2>3. \/ /\ run[i].says = "malformed"
           /\ IF task[t].retries = 0 THEN retryMalformedReviewTask(i) ELSE failReviewTask(i)
           /\ Return(i) /\ UNCHANGED cleared
        \/ /\ run[i].says = "pass"
           /\ cleared' = cleared \cup {task[t].ver}
           /\ call' = [call EXCEPT ![i] = c] /\ UNCHANGED <<run, task>>
        \/ /\ run[i].says = "block" /\ Return(i) /\ UNCHANGED cleared
           /\ EscalateLineage(IF c.rterm = "none" THEN [run EXCEPT ![r] = Failed(@)] ELSE run, i, Done(run[i]))
        \/ /\ run[i].says = "block" /\ Room
           /\ task' = [Added(task, "fix", FixRuns(par) + 1, 0) EXCEPT ![t].st = "done"]
           /\ run' = Completed(run, i)
           /\ Return(i) /\ UNCHANGED cleared
    BY <1>6 DEF Verdict
  <2> HIDE DEF c
  <2>4. CASE /\ run[i].says = "malformed"
             /\ IF task[t].retries = 0 THEN retryMalformedReviewTask(i) ELSE failReviewTask(i)
             /\ Return(i) /\ UNCHANGED cleared
    BY <1>1, <1>3, <1>6, <2>4, MalformedOrderly
  <2>5. CASE /\ run[i].says = "pass"
             /\ cleared' = cleared \cup {task[t].ver}
             /\ call' = [call EXCEPT ![i] = c] /\ UNCHANGED <<run, task>>
    BY <1>1, <1>3, <1>6, <2>2, <2>5, PassedOrderly
  <2>6. CASE /\ run[i].says = "block" /\ Return(i) /\ UNCHANGED cleared
             /\ EscalateLineage(IF c.rterm = "none" THEN [run EXCEPT ![r] = Failed(@)] ELSE run, i, Done(run[i]))
    <3> DEFINE R == IF c.rterm = "none" THEN [run EXCEPT ![r] = Failed(@)] ELSE run
    <3> HIDE DEF r
    <3>1. R \in [Run -> RunRow]
      BY <2>1, RootFailed, TypeIs DEF Same, Inv
    <3>2. \A j \in Run : R[j] = run[j] \/ R[j] = Failed(run[j])
      BY TypeIs DEF Inv
    <3>3. PICK row : row = Done(run[i])
      OBVIOUS
    <3>4. EscalateLineage(R, i, row)
      BY <2>6, <3>3
    <3>5. ~Pending
      BY <1>1, <1>2, <2>6, Alone DEF Passing
    <3>6. \A j \in Created : call'[j].pc = "none"
      BY <1>1, <2>6, Returns
    <3> HIDE DEF R
    <3> QED BY <1>1, <1>2, <1>3, <2>6, <3>1, <3>2, <3>3, <3>4, <3>5, <3>6, EscalationOrderly
  <2>7. CASE /\ run[i].says = "block" /\ Room
             /\ task' = [Added(task, "fix", FixRuns(par) + 1, 0) EXCEPT ![t].st = "done"]
             /\ run' = Completed(run, i)
             /\ Return(i) /\ UNCHANGED cleared
    BY <1>1, <1>3, <1>6, <2>7, BlockedOrderly
  <2> QED BY <2>3, <2>4, <2>5, <2>6, <2>7
<1> QED BY <1>4, <1>5, <1>6 DEF Route

--------------------------------------------------------------------------------
(* Its calls: those that offer a run, and the operator's.                      *)

\* An approval starts its merge: what the start-up reconcile still looks at is left alone, or
\* is the review that passed.
LEMMA approveRunOrderly ==
  ASSUME Inv, Orderly, NEW i \in Run, approveRun(i)
  PROVE  Orderly'
<1>1. /\ run[i].approval /\ run[i].term = "none" /\ acall' = [acall EXCEPT ![i] = "merge"]
      /\ UNCHANGED <<run, task, session, call, boot, head, cleared, merged>>
  BY DEF approveRun, git
<1>2. i \in Created /\ Kept
  BY <1>1, ApprovalInv DEF Inv, Rows, Unborn
<1>3. /\ run[i].stage = "ship" /\ Works(i) /\ run[i].complete /\ Approved(i) /\ Pending /\ Last(i)
  <2>1. run[i].stage = "ship" /\ Works(i) /\ run[i].complete
    BY <1>1, <1>2 DEF Orderly, Approvals, Offered
  <2>2. Approved(i)
    BY <1>1, <2>1 DEF Approved, Live, Open
  <2> QED BY <1>2, <2>1, <2>2 DEF Pending, Orderly, Lives
<1>4. acall'[i] = "merge" /\ \A a \in Created \ {i} : acall'[a] = acall[a]
  BY <1>1, <1>2, TypeIs DEF Inv, Created
<1>5. ASSUME NEW j \in Created, Live(j) PROVE Harmless(j)
  <2>1. CASE j = i
    BY <1>1, <1>3, <2>1 DEF Harmless, Owned
  <2>2. CASE j # i /\ Kind(i) = "fix"
    <3>1. run[i].task # run[j].task
      BY <1>2, <1>3, <1>5, <2>2, LastIs DEF Orderly, Lives
    <3>2. run[i].task \in Task /\ task[run[i].task].kind = "fix" /\ task[run[i].task].st # "done"
      BY <1>2, <1>3, <2>2, Frame DEF Orderly, Lives, Approved, Undone
    <3> QED BY <3>1, <3>2 DEF Harmless, Owned
  <2>3. CASE j # i /\ Kind(i) # "fix"
    <3>1. Kind(i) = "impl"
      BY <1>2, <1>3, <2>3, Frame DEF Works
    <3>2. Kind(j) # "impl"
      BY <1>2, <1>3, <1>5, <2>3, <3>1, TrunkIs DEF Orderly, Lives
    <3>3. CASE Kind(j) = "review"
      BY <1>2, <1>3, <1>5, <3>1, <3>3 DEF Orderly, Approvals, Harmless
    <3>4. CASE Kind(j) = "fix"
      <4>1. PICK t \in Task : task[t].kind = "review" /\ Undone(t)
        BY <1>2, <1>3, <1>5, <3>1, <3>4 DEF Orderly, Approvals
      <4>2. t # run[j].task
        BY <1>2, <3>4, <4>1, Frame
      <4> QED BY <4>1, <4>2 DEF Harmless, Owned, Undone
    <3> QED BY <1>2, <3>2, <3>3, <3>4, Frame
  <2> QED BY <2>1, <2>2, <2>3
<1>6. \A j \in Created : (Live(j)' <=> Live(j)) /\ (Harmless(j)' <=> Harmless(j)) /\ (Approved(j)' <=> Approved(j))
  BY <1>1, <1>2, Frame DEF Harmless, Owned, Live, Approved
<1>7. \A a \in Created : \A j \in boot' : acall'[a] = "merge" => Harmless(j)'
  <2> SUFFICES ASSUME NEW j \in boot PROVE Harmless(j)
    BY <1>1, <1>6 DEF Inv, Memory
  <2> QED BY <1>5 DEF Harmless, Inv, Memory
<1>8. \A a \in Created : acall'[a] # "none" => Works(a) /\ run[a].complete
  BY <1>3, <1>4 DEF Orderly, Approvals
<1>9. /\ \A j \in Created : Offered(j)' /\ CallKnown(j, call[j])' /\ Passing(j)' /\ (Active(j)' <=> Active(j))
      /\ \A t \in Task : (Ready(t)' <=> Ready(t)) /\ (Undone(t)' <=> Undone(t)) /\ task'[t] = task[t]
  <2>1. \A j \in Created : Offered(j) /\ CallKnown(j, call[j]) /\ Passing(j)
    BY <1>3 DEF Orderly, Approvals, Calls, Still
  <2>2. \A j \in Created : run'[j] = run[j] /\ call'[j] = call[j] /\ (Works(j)' <=> Works(j)) /\ Kind(j)' = Kind(j)
    BY <1>1, <1>2, Frame
  <2> QED BY <1>1, <1>2, <2>1, <2>2, Frame DEF Offered, CallKnown, Passing, Active, Ready, Undone
<1>10. \A j \in session' : Live(j)' /\ call'[j] = call[j]
  BY <1>1, <1>6 DEF Orderly, Sessions, Inv, Memory
<1>11. /\ \A j \in Created : Live(j) /\ Kind(j) # "impl" => Undone(run[j].task)'
       /\ \A j \in Created : Active(j)' /\ Kind(j) = "impl" => \A t \in Task : IsFollow(t) => ~Undone(t)'
       /\ \A j \in Created : Active(j)' /\ Kind(j) = "review" /\ ~Undone(run[j].task)' =>
            \A k \in Created : Kind(k) = "fix" => ~Live(k)'
  <2>1. \A j \in Created : (Undone(run[j].task)' <=> Undone(run[j].task)) /\ (IsFollow(run[j].task) <=> Kind(j) # "impl")
    BY <1>2, <1>9, Frame DEF Undone
  <2> QED BY <1>6, <1>9, <2>1 DEF Orderly, Lives, Calls
<1>12. \A a \in Created : Approved(a)' /\ Kind(a) = "impl" =>
         /\ (\E j \in Created : Kind(j) = "fix" /\ Live(j)') => \E t \in Task : task[t].kind = "review" /\ Undone(t)'
         /\ \A j \in Created : Kind(j) = "review" /\ Live(j)' => run[j].says = "pass"
  BY <1>6, <1>9 DEF Orderly, Approvals
<1>13. head' = head /\ cleared \subseteq cleared' /\ merged' \subseteq cleared' /\ boot' \subseteq boot /\ session' \subseteq session
  BY <1>1 DEF Orderly, Commits
<1>14. \A j \in Created : call'[j].pc # "none" => call[j].pc # "none"
  BY <1>1
<1> QED BY <1>2, <1>3, <1>6, <1>7, <1>8, <1>9, <1>10, <1>11, <1>12, <1>13, <1>14, Moves

LEMMA AdvancedIs ==
  ASSUME NEW row \in RunRow
  PROVE  /\ row.stage = "done" => Advanced(row) = row
         /\ row.stage # "done" => Advanced(row).stage = "ship" /\ Advanced(row).approval /\ Advanced(row).term = row.term
BY DEF Advanced, RunRow

\* A call that offers a run, or closes runs after that: nobody else is at work.
LEMMA Offers ==
  ASSUME Inv, Orderly, Kept, NEW i \in Run, call[i].pc \notin {"none", "release"},
         UNCHANGED <<session, boot, acall, head, merged>>, cleared \subseteq cleared',
         NEW c, call' = [call EXCEPT ![i] = c], c.pc \in {"none", "ship", "unreviewedShip"},
         CallKnown(i, c)',
         \A j \in Created : Live(j)' => Live(j) \/ (j = Trunk /\ Trunk < i),
         \A j \in Created : Offered(j)',
         \A t \in Task : ~Ready(t)' /\ task'[t].kind = task[t].kind,
         \A j \in Created : Live(j)' /\ Kind(j) # "impl" => Undone(run[j].task)',
         c.pc # "none" /\ Kind(i) = "impl" => \A t \in Task : IsFollow(t) => ~Undone(t)',
         c.pc # "none" /\ Kind(i) = "review" /\ ~Undone(run[i].task)' =>
           \A j \in Created : Kind(j) = "fix" => ~Live(j)',
         \A a \in Created : Approved(a)' /\ Kind(a) = "impl" =>
           /\ (\E j \in Created : Kind(j) = "fix" /\ Live(j)') => \E t \in Task : task[t].kind = "review" /\ Undone(t)'
           /\ \A j \in Created : Kind(j) = "review" /\ Live(j)' => run[j].says = "pass",
         Pending' => Pending \/ head[Trunk] \in cleared'
  PROVE  Orderly'
<1>1. i \in Created /\ Active(i)
  BY Called DEF Active
<1>2. session = {} /\ session' = {} /\ \A j \in Created \ {i} : call[j].pc = "none"
  BY <1>1, Alone
<1>3. call'[i] = c /\ \A j \in Created \ {i} : call'[j] = call[j]
  BY <1>1, TypeIs DEF Inv, Created
<1>4. \A j \in Created : /\ CallKnown(j, call[j])' /\ Passing(j)' /\ (Active(j)' => j = i /\ c.pc # "none")
                         /\ call'[j].pc # "none" => call[j].pc # "none"
  BY <1>2, <1>3 DEF CallKnown, Passing, Active
<1>5. \A k \in boot : k \in Created /\ i < k /\ ~Live(k)
  BY <1>1 DEF Orderly, BootDead, Inv, Memory
<1>6. Trunk < i => Trunk \notin boot
  <2>1. i \in Nat /\ Trunk \in Nat
    BY <1>1, TrunkIs DEF Run, Orderly
  <2> QED BY <1>5, <2>1
<1>7. \A j \in Created : Live(j)' => Live(j) \/ (j = Trunk /\ j \notin boot' /\ ~Ready(Root)')
  BY <1>6, RootIsTask
<1>8. \A a \in Created : \A j \in boot' : acall'[a] = "merge" => Harmless(j)'
  BY <1>5, <1>6 DEF Harmless
<1>9. \A a \in Created : acall'[a] # "none" => Works(a) /\ run[a].complete
  BY DEF Orderly, Approvals
<1>10. merged' \subseteq cleared'
  BY DEF Orderly, Commits
<1>11. \A j \in session' : Live(j)' /\ call'[j] = call[j]
  BY <1>2
<1>12. \A t \in Task : Ready(t)' => Ready(t)
  OBVIOUS
<1>13. Pending' => /\ \/ Pending
                      \/ session' = {} /\ (\A t \in Task : ~Ready(t)') /\ head[Trunk] \in cleared'
                   /\ \A j \in Created : Passing(j)'
  BY <1>2, <1>4
<1> QED BY <1>1, <1>4, <1>7, <1>8, <1>9, <1>10, <1>11, <1>12, <1>13, Moves

\* Without a reviewer an implementation or a fix is offered itself.
LEMMA AdvanceUnreviewedOrderly ==
  ASSUME Inv, Orderly, NEW i \in Run, AdvanceUnreviewed(i)
  PROVE  Orderly'
<1>1. /\ call[i].pc = "unreviewed" /\ run' = [run EXCEPT ![i] = Advanced(@)]
      /\ cleared' = cleared \cup {head[run[i].tree]} /\ Wait(i, "unreviewedShip")
      /\ UNCHANGED <<task, session, boot, acall, head, merged>>
  BY DEF AdvanceUnreviewed, calls
<1>2. /\ i \in Created /\ Active(i) /\ run[i].complete /\ Works(i) /\ Kept /\ run[i] \in RunRow /\ call[i] \in CallRow
  BY <1>1, Called, UnreviewedInv, Kinds DEF Active, Works, Inv
<1>3. ~Pending /\ Last(i) /\ (\A t \in Task : ~Ready(t)) /\ head[Trunk] \in cleared'
  BY <1>1, <1>2, Alone, ActiveTree DEF Passing
<1>4. PICK c : c = [call[i] EXCEPT !.pc = "unreviewedShip"]
  OBVIOUS
<1>5. call' = [call EXCEPT ![i] = c] /\ c.pc = "unreviewedShip" /\ c.live = call[i].live
  BY <1>1, <1>2, <1>4 DEF Wait, CallRow
<1>6. run'[i] = Advanced(run[i]) /\ \A j \in Created \ {i} : run'[j] = run[j]
  BY <1>1, <1>2, TypeIs DEF Inv, Created
<1>7. /\ run[i].stage = "done" => run'[i] = run[i]
      /\ run[i].stage # "done" => run'[i].stage = "ship" /\ run'[i].approval /\ run'[i].term = run[i].term
  BY <1>2, <1>6, AdvancedIs
<1>8. CallKnown(i, c)'
  <2>1. ~c.live => run'[i].stage = "done"
    BY <1>1, <1>2, <1>5, <1>7 DEF Orderly, Calls, CallKnown
  <2>2. head'[Trunk'] \in cleared'
    BY <1>1, <1>2, <1>3, Frame
  <2> QED BY <1>5, <2>1, <2>2 DEF CallKnown
<1>9. \A j \in Created : Live(j)' => Live(j)
  <2>1. run[i].stage \in {"work", "ship", "done"}
    BY <1>2, Kinds DEF RunRow, Stages, Inv
  <2>2. Live(i)' => Live(i)
    BY <1>7, <2>1 DEF Live, Open
  <2> QED BY <1>6, <2>2 DEF Live
<1>10. \A j \in Created : Offered(j)'
  <2>1. \A j \in Created : Offered(j)
    BY DEF Orderly, Approvals
  <2> QED BY <1>2, <1>6, <1>7, <2>1, Frame DEF Offered
<1>11. \A t \in Task : ~Ready(t)' /\ task'[t] = task[t] /\ (Undone(t)' <=> Undone(t))
  BY <1>1, <1>3 DEF Ready, Undone
<1>12. \A j \in Created : Live(j)' /\ Kind(j) # "impl" => Undone(run[j].task)'
  BY <1>2, <1>9, <1>11, Frame DEF Orderly, Lives, Undone
<1>13. Kind(i) = "impl" => \A t \in Task : IsFollow(t) => ~Undone(t)'
  BY <1>2, <1>11 DEF Orderly, Calls
<1>14. ASSUME NEW a \in Created, Approved(a)', Kind(a) = "impl", NEW j \in Created, Kind(j) # "impl", Live(j)'
       PROVE  FALSE
  <2>1. a = i
    BY <1>3, <1>6, <1>14 DEF Approved, Live, Pending
  <2>2. Live(j) /\ IsFollow(run[j].task) /\ Undone(run[j].task)
    BY <1>2, <1>9, <1>14, Frame DEF Orderly, Lives
  <2>3. run[j].task \in Task
    BY <1>2, Frame
  <2> QED BY <1>2, <1>14, <2>1, <2>2, <2>3 DEF Orderly, Calls
<1>15. cleared \subseteq cleared'
  BY <1>1
<1>16. Kind(i) # "review"
  BY <1>2 DEF Works
<1> QED BY <1>1, <1>2, <1>3, <1>5, <1>8, <1>9, <1>10, <1>11, <1>12, <1>13, <1>14, <1>15, <1>16, Offers

\* It is offered once its artifacts are there; a fix is closed as if its review had been asked for.
LEMMA ShipUnreviewedOrderly ==
  ASSUME Inv, Orderly, NEW i \in Run, ShipUnreviewed(i)
  PROVE  Orderly'
<1> DEFINE t0 == run[i].task
<1>1. /\ call[i].pc = "unreviewedShip" /\ Return(i)
      /\ UNCHANGED <<session, boot, acall, head, cleared, merged>>
  BY DEF ShipUnreviewed, calls, git
<1>2. PICK R \in Shippable(run, i) :
        IF Kind(i) = "fix" THEN run' = Completed(R, i) /\ task' = CompletedTask(task, i)
        ELSE run' = R /\ UNCHANGED task
  BY DEF ShipUnreviewed
<1>3. /\ i \in Created /\ Active(i) /\ run[i].complete /\ Works(i) /\ Kept /\ run[i] \in RunRow
      /\ t0 \in Task /\ task[t0] \in TaskRow /\ Kind(i) = task[t0].kind /\ Kind(i) \in {"impl", "fix"}
      /\ run[i].stage \in {"work", "ship", "done"}
  <2>1. i \in Created /\ Active(i) /\ run[i].complete /\ Works(i) /\ Kept
    BY <1>1, Called, UnreviewedInv DEF Active, Works
  <2>2. /\ run[i] \in RunRow /\ run[i].stage # "absent"
        /\ t0 \in Task /\ task[t0] \in TaskRow /\ Kind(i) = task[t0].kind /\ Kind(i) \in {"impl", "fix"}
    BY <2>1, Kinds DEF Works, Inv
  <2>3. run[i].stage \in {"work", "ship", "done"}
    BY <2>2 DEF RunRow, Stages
  <2> QED BY <2>1, <2>2, <2>3
<1>4. Last(i) /\ (\A t \in Task : ~Ready(t)) /\ head[Trunk] \in cleared /\ (~call[i].live => run[i].stage = "done")
  BY <1>1, <1>3, Alone DEF Orderly, Calls, CallKnown
<1>5. R[i] \in {Advanced(run[i]), Failed(run[i])} /\ \A j \in Run \ {i} : R[j] = run[j]
  BY <1>3, TypeIs DEF Inv, Shippable
<1>6. R \in [Run -> RunRow]
  BY <1>3, SameSelf, ShippableIs DEF Inv, Same
<1>7. /\ \A j \in Created \ {i} : run'[j] = run[j]
      /\ run'[i] = Advanced(run[i]) \/ (~Live(i)' /\ (run'[i] = run[i] \/ ~run'[i].approval))
      /\ Kind(i) = "fix" => ~Live(i)'
  <2>1. CASE Kind(i) = "fix" /\ call[i].live
    <3>1. run' = [R EXCEPT ![i] = Done(@)]
      BY <1>2, <2>1 DEF Completed
    <3>2. run'[i] = Done(R[i]) /\ R[i] \in RunRow
      BY <1>3, <1>6, <3>1
    <3> QED BY <1>5, <1>6, <3>1, <3>2, Written DEF Live, Created
  <2>2. CASE Kind(i) = "fix" /\ ~call[i].live
    <3>1. run' = R /\ run[i].stage = "done"
      BY <1>2, <1>4, <2>2 DEF Completed
    <3>2. run'[i] = run[i] \/ run'[i] = Failed(run[i])
      BY <1>3, <1>5, <3>1, AdvancedIs
    <3>3. ~Open(run[i])
      BY <3>1 DEF Open
    <3> QED BY <1>3, <1>5, <3>1, <3>2, <3>3, Written DEF Live, Created
  <2>3. CASE Kind(i) = "impl"
    <3>1. run' = R
      BY <1>2, <2>3
    <3> QED BY <1>3, <1>5, <2>3, <3>1, Written DEF Live, Created
  <2> QED BY <1>3, <2>1, <2>2, <2>3
<1>8. \A j \in Created : Live(j)' => Live(j)
  <2>1. run'[i] = Advanced(run[i]) => (Live(i)' => Live(i))
    BY <1>3, AdvancedIs DEF Live, Open
  <2> QED BY <1>7, <2>1 DEF Live
<1>9. \A j \in Created : Offered(j)'
  <2>1. \A j \in Created : Offered(j)
    BY DEF Orderly, Approvals
  <2>2. run'[i] = Advanced(run[i]) => Offered(i)'
    <3>1. run[i].stage = "done" => Advanced(run[i]) = run[i]
      BY <1>3, AdvancedIs
    <3>2. run[i].stage # "done" => Advanced(run[i]).stage = "ship"
      BY <1>3, AdvancedIs
    <3> QED BY <1>3, <2>1, <3>1, <3>2, Frame DEF Offered
  <2>3. \A j \in Created \ {i} : Offered(j)'
    BY <1>3, <1>7, <2>1, Frame DEF Offered
  <2>4. run'[i] = run[i] \/ ~run'[i].approval => Offered(i)'
    BY <1>3, <2>1, Frame DEF Offered
  <2> QED BY <1>7, <2>2, <2>3, <2>4
<1>10. /\ \A t \in Task \ {t0} : task'[t] = task[t]
       /\ task'[t0].kind = task[t0].kind
       /\ task'[t0] = task[t0] \/ (Kind(i) = "fix" /\ task'[t0].st = "done")
  <2>1. task' = task \/ (Kind(i) = "fix" /\ task' = [task EXCEPT ![t0].st = "done"])
    BY <1>2, <1>3 DEF CompletedTask
  <2> QED BY <1>3, <2>1, TypeIs DEF Inv, TaskRow
<1>11. \A t \in Task : ~Ready(t)' /\ task'[t].kind = task[t].kind
  <2>1. \A t \in Task \ {t0} : task'[t].st # "ready"
    BY <1>4, <1>10 DEF Ready
  <2>2. task'[t0].st # "ready"
    BY <1>3, <1>4, <1>10 DEF Ready
  <2> QED BY <1>10, <2>1, <2>2 DEF Ready
<1>12. \A j \in Created : Live(j)' /\ Kind(j) # "impl" => Undone(run[j].task)'
  <2> SUFFICES ASSUME NEW j \in Created, Live(j)', Kind(j) # "impl" PROVE task'[run[j].task].st # "done"
    BY <1>3, Frame DEF Undone
  <2>1. run[j].task \in Task /\ task[run[j].task].st # "done" /\ Live(j)
    BY <1>3, <1>8, Frame DEF Orderly, Lives, Undone
  <2>2. CASE run[j].task = t0
    <3>1. j = i
      BY <1>3, <2>1, <2>2, Alone
    <3> QED BY <1>3, <1>7, <1>10, <2>1, <3>1
  <2>3. CASE run[j].task # t0
    BY <1>10, <2>1, <2>3
  <2> QED BY <2>2, <2>3
<1>13. ASSUME NEW a \in Created, Approved(a)', Kind(a) = "impl"
       PROVE  /\ (\E j \in Created : Kind(j) = "fix" /\ Live(j)') => \E t \in Task : task[t].kind = "review" /\ Undone(t)'
              /\ \A j \in Created : Kind(j) = "review" /\ Live(j)' => run[j].says = "pass"
  <2>1. CASE a # i
    <3>1. Approved(a)
      BY <1>7, <1>13, <2>1 DEF Approved, Live
    <3>2. \A t \in Task : task[t].kind = "review" /\ Undone(t) => Undone(t)'
      BY <1>3, <1>10 DEF Undone
    <3> QED BY <1>8, <1>13, <3>1, <3>2 DEF Orderly, Approvals
  <2>2. CASE a = i
    <3> SUFFICES ASSUME NEW j \in Created, Kind(j) # "impl", Live(j) PROVE FALSE
      BY <1>8
    <3>1. run[j].task \in Task /\ IsFollow(run[j].task) /\ Undone(run[j].task)
      BY <1>3, Frame DEF Orderly, Lives
    <3> QED BY <1>3, <1>13, <2>2, <3>1 DEF Orderly, Calls
  <2> QED BY <2>1, <2>2
<1>14. PICK c : c = Idle
  OBVIOUS
<1>15. call' = [call EXCEPT ![i] = c] /\ c.pc = "none"
  BY <1>1, <1>14, IdleIs DEF Return
<1>16. CallKnown(i, c)' /\ cleared \subseteq cleared' /\ head[Trunk] \in cleared'
  BY <1>1, <1>4, <1>15 DEF CallKnown
<1> HIDE DEF t0
<1> QED BY <1>1, <1>3, <1>8, <1>9, <1>11, <1>12, <1>13, <1>15, <1>16, Offers

\* The implementation of a lineage that has been reviewed has completed, and so has the trunk.
LEMMA TrunkCompleted ==
  ASSUME Inv, Orderly, NEW i \in Created, Kind(i) # "impl"
  PROVE  /\ Trunk \in Created /\ Trunk \in Run /\ Trunk \in Nat /\ i \in Nat /\ Trunk < i
         /\ run[Trunk].complete /\ Works(Trunk) /\ Kind(Trunk) = "impl" /\ run[Trunk] \in RunRow
         /\ run[Trunk].stage \in {"work", "ship", "done"}
<1>1. /\ Trunk \in Created /\ Trunk \in Run /\ Kind(Trunk) = "impl" /\ Trunk < i
  BY TrunkIs DEF Orderly
<1>2. PICK k \in Created : Kind(k) = "impl" /\ run[k].complete
  BY Kinds DEF Orderly, Preceded, IsFollow, FollowUps, Inv
<1>3. k = Trunk
  BY <1>2, TrunkIs DEF Orderly, Lives, Works
<1>4. run[Trunk] \in RunRow /\ run[Trunk].stage # "absent"
  BY <1>1, Kinds DEF Inv
<1> QED BY <1>1, <1>2, <1>3, <1>4 DEF Works, RunRow, Stages, Created, Run

\* A review has cleared: the trunk is opened again if it was closed meanwhile, and offered.
LEMMA AdvanceReviewedOrderly ==
  ASSUME Inv, Orderly, NEW i \in Run, AdvanceReviewed(i)
  PROVE  Orderly'
<1>1. /\ call[i].pc = "sync"
      /\ task' = (IF call[i].ost = "failed" THEN TaskTo(Root, "active") ELSE task)
      /\ Wait(i, "ship") \/ Return(i)
      /\ UNCHANGED <<session, boot, acall, head, cleared, merged>>
  BY DEF AdvanceReviewed, calls, git
<1>2. i \in Created /\ Active(i) /\ Kept /\ call[i] \in CallRow
  BY <1>1, Called, AdvanceReviewedInv DEF Active
<1>3. /\ call[i].root = Trunk /\ Kind(i) = "review" /\ run[i].says = "pass" /\ call[i].par = run[i].par
      /\ head[Trunk] \in cleared /\ (~call[i].live => run[i].stage = "done")
  BY <1>1, <1>2 DEF Orderly, Calls, CallKnown
<1>4. PICK k : k = Trunk
  OBVIOUS
<1>5. /\ k \in Created /\ k \in Run /\ k # i /\ k < i /\ run[k].complete /\ Works(k) /\ Kind(k) = "impl"
      /\ run[k] \in RunRow /\ run[k].stage \in {"work", "ship", "done"}
  BY <1>2, <1>3, <1>4, TrunkCompleted
<1>6. \A t \in Task : ~Ready(t)
  BY <1>2, Alone
<1>7. PICK row : row = Reopened(run[k], call[i])
  OBVIOUS
<1>8. row \in RunRow /\ row.stage \in {run[k].stage, "ship"} /\ row.approval = run[k].approval
  <2>1. row \in RunRow
    BY <1>5, <1>7, ReopenedIs DEF SameRun
  <2> QED BY <1>5, <1>7, <2>1 DEF Reopened, RunRow
<1>9. run'[k] \in {row, Advanced(row)} /\ \A j \in Created \ {k} : run'[j] = run[j]
  <2> DEFINE R == [run EXCEPT ![k] = row]
  <2>1. R[k] = row /\ (\A j \in Run : j # k => R[j] = run[j]) /\ R = [run EXCEPT ![k] = Reopened(@, call[i])]
    BY <1>5, <1>7, TypeIs DEF Inv
  <2>2. run' = R \/ run' = [R EXCEPT ![k] = Advanced(R[k])]
    BY <1>3, <1>4, <2>1 DEF AdvanceReviewed
  <2>3. DOMAIN R = Run
    BY TypeIs DEF Inv
  <2> HIDE DEF R
  <2> QED BY <1>5, <2>1, <2>2, <2>3 DEF Created
<1>10. \A j \in Created : Live(j)' => Live(j) \/ (j = Trunk /\ Trunk < i)
  BY <1>4, <1>5, <1>9 DEF Live
<1>11. \A j \in Created : Offered(j)'
  <2>1. \A j \in Created : Offered(j)
    BY DEF Orderly, Approvals
  <2>2. \A j \in Created \ {k} : Offered(j)'
    BY <1>2, <1>9, <2>1, Frame DEF Offered
  <2>3. run'[k].approval => run'[k].stage = "ship"
    <3>0. CASE run'[k] = row
      BY <1>5, <1>8, <2>1, <3>0 DEF Offered
    <3>1. CASE run'[k] = Advanced(row) /\ row.stage = "done"
      <4>1. run[k].stage = "done" /\ ~run[k].approval
        BY <1>5, <1>8, <2>1, <3>1 DEF Offered
      <4> QED BY <1>8, <3>1, <4>1, AdvancedIs
    <3>2. CASE run'[k] = Advanced(row) /\ row.stage # "done"
      BY <1>8, <3>2, AdvancedIs
    <3> QED BY <1>9, <3>0, <3>1, <3>2
  <2>4. Offered(k)'
    BY <1>2, <1>5, <2>3, Frame DEF Offered
  <2> QED BY <2>2, <2>4
<1>12. /\ \A t \in Task \ {Root} : task'[t] = task[t]
       /\ task'[Root].kind = task[Root].kind /\ task'[Root].st \in {task[Root].st, "active"}
  <2>1. task[Root] \in TaskRow /\ Root \in Task
    BY RootIsTask, TypeIs DEF Inv
  <2> QED BY <1>1, <2>1, TypeIs DEF Inv, TaskTo, TaskRow
<1>13. \A t \in Task : ~Ready(t)' /\ task'[t].kind = task[t].kind
  <2>1. \A t \in Task \ {Root} : task'[t].st # "ready"
    BY <1>6, <1>12 DEF Ready
  <2>2. task'[Root].st # "ready"
    BY <1>6, <1>12, RootIsTask DEF Ready
  <2> QED BY <1>12, <2>1, <2>2 DEF Ready
<1>14. \A t \in Task : IsFollow(t) => (Undone(t)' <=> Undone(t))
  <2>1. ~IsFollow(Root)
    BY RootIsTask DEF Inv, Rows, Tasks, IsFollow, FollowUps
  <2>2. \A t \in Task : IsFollow(t) => task'[t] = task[t]
    BY <1>12, <2>1
  <2> QED BY <2>2 DEF Undone
<1>15. \A j \in Created : Kind(j) # "impl" /\ Live(j)' => Live(j)
  BY <1>5, <1>10, <1>4
<1>16. \A j \in Created : Live(j)' /\ Kind(j) # "impl" => Undone(run[j].task)'
  <2> SUFFICES ASSUME NEW j \in Created, Live(j)', Kind(j) # "impl" PROVE Undone(run[j].task)'
    OBVIOUS
  <2>1. PICK t \in Task : t = run[j].task /\ run'[j].task = t /\ IsFollow(t) /\ Undone(t)
    BY <1>2, <1>15, Frame DEF Orderly, Lives
  <2> QED BY <1>14, <2>1 DEF Undone
<1>17. Undone(run[i].task)' \/ \A j \in Created : Kind(j) = "fix" => ~Live(j)'
  <2>1. PICK t \in Task : t = run[i].task /\ run'[i].task = t /\ IsFollow(t)
    BY <1>2, <1>3, Frame
  <2>2. CASE Undone(t)
    BY <1>14, <2>1, <2>2 DEF Undone
  <2>3. CASE ~Undone(t)
    BY <1>2, <1>3, <1>15, <2>1, <2>3 DEF Orderly, Calls
  <2> QED BY <2>2, <2>3
<1>18. /\ (\E j \in Created : Kind(j) = "fix" /\ Live(j)') => \E t \in Task : task[t].kind = "review" /\ Undone(t)'
       /\ \A j \in Created : Kind(j) = "review" /\ Live(j)' => run[j].says = "pass"
  <2>1. ASSUME NEW j \in Created, Kind(j) = "fix", Live(j)'
        PROVE  \E t \in Task : task[t].kind = "review" /\ Undone(t)'
    <3>1. PICK t \in Task : t = run[i].task /\ run'[i].task = t /\ task[t].kind = "review"
      BY <1>2, <1>3, Frame
    <3>2. Undone(t)'
      BY <1>17, <2>1, <3>1 DEF Undone
    <3> QED BY <3>1, <3>2
  <2>2. ASSUME NEW j \in Created, Kind(j) = "review", Live(j)'
        PROVE  run[j].says = "pass"
    <3>1. j = i
      BY <1>2, <1>15, <2>2 DEF Orderly, OneReview
    <3> QED BY <1>3, <3>1
  <2> QED BY <2>1, <2>2
<1>19. PICK c : /\ call' = [call EXCEPT ![i] = c]
                /\ c = [call[i] EXCEPT !.pc = "ship"] \/ c = Idle
  BY <1>1 DEF Wait, Return
<1>20. \/ c.pc = "ship" /\ c.live = call[i].live /\ c.root = call[i].root /\ c.par = call[i].par
       \/ c.pc = "none"
  BY <1>2, <1>19, IdleIs DEF CallRow
<1>21. CallKnown(i, c)'
  <2>1. /\ run'[i].stage = run[i].stage /\ run'[i].says = run[i].says /\ run'[i].par = run[i].par
        /\ Kind(i)' = Kind(i) /\ Trunk' = Trunk /\ head'[Trunk] \in cleared'
    BY <1>1, <1>2, <1>3, <1>5, <1>9, Frame
  <2> QED BY <1>3, <1>20, <2>1 DEF CallKnown
<1>22. head[Trunk] \in cleared' /\ cleared \subseteq cleared'
  BY <1>1, <1>3
<1> QED BY <1>1, <1>2, <1>3, <1>10, <1>11, <1>13, <1>16, <1>17, <1>18, <1>19, <1>20, <1>21, <1>22, Offers

\* The artifacts of the trunk are there: the fixes of its chain and the review are closed, and
\* the trunk is the only run left.
LEMMA ShipReviewedOrderly ==
  ASSUME Inv, Orderly, NEW i \in Run, ShipReviewed(i)
  PROVE  Orderly'
<1> DEFINE cc == call[i]
           C(R) == [j \in Run |-> IF j \in FixesOf(cc) /\ Open(R[j]) THEN Done(R[j]) ELSE R[j]]
           T == [t \in Task |-> IF \E j \in FixesOf(cc) : run[j].task = t
                                THEN [task[t] EXCEPT !.st = "done"] ELSE task[t]]
<1>1. /\ cc.pc = "ship" /\ Return(i) /\ task' = CompletedTask(T, i)
      /\ UNCHANGED <<session, boot, acall, head, cleared, merged>>
  BY DEF ShipReviewed, calls, git
<1>2. PICK R \in Shippable(run, cc.root) : run' = Completed(C(R), i)
  BY DEF ShipReviewed
<1>3. /\ i \in Created /\ Active(i) /\ Kept /\ run[i] \in RunRow /\ run[i].task \in Task /\ task[run[i].task] \in TaskRow
  <2>1. i \in Created /\ Active(i) /\ Kept
    BY <1>1, Called, ShipReviewedInv DEF Active
  <2> QED BY <2>1, Kinds DEF Inv
<1>4. /\ cc.root = Trunk /\ Kind(i) = "review" /\ cc.par = run[i].par
      /\ head[Trunk] \in cleared /\ (~cc.live => run[i].stage = "done")
  BY <1>1, <1>3 DEF Orderly, Calls, CallKnown
<1>5. PICK k : k = Trunk
  OBVIOUS
<1>6. /\ k \in Created /\ k \in Run /\ k # i /\ run[k].complete /\ Works(k) /\ Kind(k) = "impl"
      /\ run[k] \in RunRow /\ run[k].stage \in {"work", "ship", "done"}
  BY <1>3, <1>4, <1>5, TrunkCompleted
<1>7. session = {} /\ (\A t \in Task : ~Ready(t)) /\ Last(i)
  BY <1>1, <1>3, Alone
<1>8. R[k] \in {Advanced(run[k]), Failed(run[k])} /\ \A j \in Run \ {k} : R[j] = run[j]
  <2>1. R \in Shippable(run, k)
    BY <1>4, <1>5
  <2> QED BY <1>6, <2>1, TypeIs DEF Inv, Shippable
<1>9. R \in [Run -> RunRow]
  <2>1. R \in Shippable(run, k)
    BY <1>4, <1>5
  <2> QED BY <1>6, <2>1, SameSelf, ShippableIs DEF Inv, Same
<1>10. k \notin FixesOf(cc) /\ \A j \in Created : Kind(j) = "fix" /\ Live(j) => j \in FixesOf(cc)
  <2>1. cc.par \in Created /\ Works(cc.par)
    BY <1>3, <1>4, Kinds DEF Works, Inv
  <2>2. ASSUME NEW j \in Created, Kind(j) = "fix", Live(j)
        PROVE  j \in FixesOf(cc)
    <3>1. j <= cc.par
      BY <1>3, <1>4, <2>2 DEF Orderly, Shape, Works
    <3>2. j \in Chain(cc.par) /\ j # Trunk
      BY <2>1, <2>2, <3>1, ChainFull DEF Orderly
    <3> QED BY <1>4, <1>7, <3>2 DEF FixesOf
  <2> QED BY <1>4, <1>5, <2>2 DEF FixesOf
<1>11. ASSUME NEW j \in Created \ {k}
       PROVE  ~Live(j)' /\ (run'[j] = run[j] \/ ~run'[j].approval)
  <2>1. j \in Run /\ R[j] = run[j] /\ run[j] \in RunRow
    BY <1>8, <1>11, Kinds DEF Inv
  <2>2. C(R)[j] = run[j] \/ C(R)[j] = Done(run[j])
    BY <2>1
  <2>3. C(R)[j] \in RunRow
    BY <2>1, <2>2, Kinds, RunWrites DEF Inv, SameRun
  <2>4. CASE j = i
    <3> DEFINE Q == C(R)
    <3>1. Q = [m \in Run |-> Q[m]] /\ Q[i] \in RunRow /\ (Q[i] = run[i] \/ Q[i] = Done(run[i]))
      BY <2>2, <2>3, <2>4
    <3> HIDE DEF C, Q
    <3>2. CASE cc.live
      <4>1. run'[i] = Done(Q[i])
        BY <1>2, <3>1, <3>2 DEF Completed, Q
      <4> QED BY <2>4, <3>1, <4>1, Written DEF Live
    <3>3. CASE ~cc.live
      <4>1. run'[i] = Q[i] /\ run[i].stage = "done"
        BY <1>2, <1>4, <3>3 DEF Completed, Q
      <4>2. ~Open(run[i])
        BY <4>1 DEF Open
      <4> QED BY <2>1, <2>4, <3>1, <4>1, <4>2, Written DEF Live
    <3> QED BY <3>2, <3>3
  <2>5. CASE j # i
    <3> DEFINE Q == C(R)
    <3>1. Q = [m \in Run |-> Q[m]]
      OBVIOUS
    <3>2. run'[j] = C(R)[j]
      <4> HIDE DEF C
      <4>1. run'[j] = Q[j]
        BY <1>2, <2>1, <2>5, <3>1 DEF Completed
      <4> QED BY <4>1
    <3>3. ~Open(run'[j])
      <4>1. CASE Open(run[j])
        <5>1. Live(j)
          BY <4>1 DEF Live
        <5>2. Kind(j) # "impl"
          BY <1>5, <1>11, <5>1, TrunkIs DEF Orderly, Lives
        <5>3. Kind(j) # "review"
          BY <1>3, <2>5, <5>1 DEF Orderly, OneReview
        <5>4. j \in FixesOf(cc)
          BY <1>3, <1>10, <5>1, <5>2, <5>3, Frame
        <5>5. run'[j] = Done(run[j])
          BY <2>1, <3>2, <4>1, <5>4
        <5> QED BY <2>1, <5>5, Written
      <4>2. CASE ~Open(run[j])
        BY <2>1, <3>2, <4>2
      <4> QED BY <4>1, <4>2
    <3> HIDE DEF C, Q
    <3> QED BY <2>1, <2>2, <3>2, <3>3, Written DEF Live
  <2> QED BY <2>4, <2>5
<1>12. run'[k] = R[k]
  <2> DEFINE Q == C(R)
  <2>1. Q = [m \in Run |-> Q[m]] /\ Q[k] = R[k]
    BY <1>6, <1>10
  <2> HIDE DEF C, Q
  <2> QED BY <1>2, <1>6, <2>1 DEF Completed, Q
<1>13. \A j \in Created : Live(j)' => Live(j) /\ j = k
  <2>1. Live(k)' => Live(k)
    BY <1>6, <1>8, <1>12, AdvancedIs, Written DEF Live, Open
  <2> QED BY <1>11, <2>1
<1>14. \A j \in Created : Offered(j)'
  <2>1. \A j \in Created : Offered(j)
    BY DEF Orderly, Approvals
  <2>2. \A j \in Created \ {k} : Offered(j)'
    BY <1>3, <1>11, <2>1, Frame DEF Offered
  <2>3. run'[k].approval => run'[k].stage = "ship"
    BY <1>6, <1>8, <1>12, <2>1, AdvancedIs, Written DEF Offered
  <2>4. Offered(k)'
    BY <1>3, <1>6, <2>3, Frame DEF Offered
  <2> QED BY <2>2, <2>4
<1>15. \A t \in Task : task'[t] = task[t] \/ task'[t] = [task[t] EXCEPT !.st = "done"]
  <2>1. \A t \in Task : T[t] = task[t] \/ T[t] = [task[t] EXCEPT !.st = "done"]
    OBVIOUS
  <2>2. T = [t \in Task |-> T[t]]
    OBVIOUS
  <2> HIDE DEF T
  <2> SUFFICES ASSUME NEW t \in Task PROVE task'[t] = task[t] \/ task'[t] = [task[t] EXCEPT !.st = "done"]
    OBVIOUS
  <2>3. task'[t] = T[t] \/ task'[t] = [T[t] EXCEPT !.st = "done"]
    BY <1>1, <1>3, <2>2 DEF CompletedTask
  <2>4. task[t] \in TaskRow
    BY TypeIs DEF Inv
  <2>5. [[task[t] EXCEPT !.st = "done"] EXCEPT !.st = "done"] = [task[t] EXCEPT !.st = "done"]
    BY <2>4 DEF TaskRow
  <2> QED BY <2>1, <2>3, <2>5
<1>16. \A t \in Task : ~Ready(t)' /\ task'[t].kind = task[t].kind
  <2> SUFFICES ASSUME NEW t \in Task PROVE task'[t].st # "ready" /\ task'[t].kind = task[t].kind
    BY DEF Ready
  <2>1. task[t] \in TaskRow /\ task[t].st # "ready"
    BY <1>7, TypeIs DEF Inv, Ready
  <2> QED BY <1>15, <2>1 DEF TaskRow
<1>17. \A j \in Created : Live(j)' => Kind(j) = "impl"
  BY <1>6, <1>13
<1>18. PICK c : c = Idle
  OBVIOUS
<1>19. call' = [call EXCEPT ![i] = c] /\ c.pc = "none"
  BY <1>1, <1>18, IdleIs DEF Return
<1>20. CallKnown(i, c)' /\ cleared \subseteq cleared' /\ head[Trunk] \in cleared'
  BY <1>1, <1>4, <1>19 DEF CallKnown
<1> HIDE DEF cc, C, T
<1> QED BY <1>1, <1>3, <1>13, <1>14, <1>16, <1>17, <1>19, <1>20, Offers DEF cc

\* A merge closes everything that is live: it all works in the worktree of the trunk.
LEMMA finalizeSuccessfulMergeOrderly ==
  ASSUME Inv, Orderly, NEW i \in Run, finalizeSuccessfulMerge(i)
  PROVE  Orderly'
<1> DEFINE shared == {j \in Run : Live(j) /\ run[j].tree = run[i].tree}
           S == shared \cup {i} \cup {j \in Chain(i) : Live(j)}
           R == [j \in Run |-> IF j \in S THEN Done(run[j]) ELSE run[j]]
<1>1. /\ acall[i] = "finalize" /\ acall' = [acall EXCEPT ![i] = "none"]
      /\ run' = R /\ task' = Settled(R, S) /\ session' = session \ shared
      /\ UNCHANGED <<call, boot, head, cleared, merged>>
  BY DEF finalizeSuccessfulMerge, git
<1>2. i \in Created /\ Kept /\ Last(i)
  BY <1>1, finalizeSuccessfulMergeInv DEF Inv, Memory, Orderly, Approvals, Lives
<1>3. \A j \in Created : Live(j) => j \in shared
  <2> SUFFICES ASSUME NEW j \in Created, Live(j) PROVE j \in Run /\ run[j].tree = run[i].tree
    OBVIOUS
  <2>1. Last(j)
    BY DEF Orderly, Lives
  <2> QED BY <1>2, <2>1, ActiveTree DEF Created
<1>4. session' = {}
  BY <1>1, <1>3 DEF Orderly, Sessions, Inv, Memory
<1>5. i \in S /\ \A j \in S : j \in Created /\ (j = i \/ Live(j))
  BY <1>2, LiveIs, ChainIs DEF Inv
<1> HIDE DEF S, shared
<1>6. ASSUME NEW j \in Created
      PROVE  /\ ~Live(j)' /\ (run'[j] = run[j] \/ ~run'[j].approval) /\ R[j] = run'[j]
             /\ run[j].stage = "done" => run'[j].stage = "done"
             /\ j \in S => run'[j] = Done(run[j])
  <2>1. run[j] \in RunRow /\ j \in Run
    BY Kinds DEF Inv
  <2>2. CASE j \in S
    <3>1. run'[j] = Done(run[j])
      BY <1>1, <2>1, <2>2
    <3> QED BY <1>1, <2>1, <3>1, Written DEF Live
  <2>3. CASE j \notin S
    <3>1. ~Live(j)
      BY <1>3, <2>3 DEF S
    <3> QED BY <1>1, <2>1, <2>3, <3>1 DEF Live
  <2> QED BY <2>2, <2>3
<1>7. Latest(RunsOf(run[i].task)) = i
  <2>1. \A j \in RunsOf(run[i].task) : j <= i
    BY <1>2 DEF Last
  <2>2. i \in RunsOf(run[i].task) /\ RunsOf(run[i].task) \in SUBSET Run
    BY <1>2 DEF RunsOf, Created
  <2>3. PICK k : k = Latest(RunsOf(run[i].task))
    OBVIOUS
  <2>4. k \in Run /\ k <= i /\ i <= k
    BY <2>1, <2>2, <2>3, LatestIs
  <2> QED BY <2>3, <2>4 DEF Run
<1>8. R[i].stage = "done" /\ R[i].term = "none" /\ ~Open(R[i])
  BY <1>2, <1>5, <1>6, Kinds, Written DEF Inv
<1> HIDE DEF R
<1>9. ASSUME NEW t \in Task
      PROVE  /\ task'[t] = task[t] \/ task'[t] = [task[t] EXCEPT !.st = "done"] \/ task'[t] = [task[t] EXCEPT !.st = "failed"]
             /\ (\A j \in S : run[j].task # t) => task'[t] = task[t]
             /\ t = run[i].task => task'[t] = [task[t] EXCEPT !.st = "done"]
  <2>1. \/ task'[t] = task[t]
        \/ task'[t] = [task[t] EXCEPT !.st = "done"] \/ task'[t] = [task[t] EXCEPT !.st = "failed"]
    BY <1>1 DEF Settled
  <2>2. (\A j \in S : run[j].task # t) => task'[t] = task[t]
    BY <1>1 DEF Settled
  <2>3. t = run[i].task => task'[t] = [task[t] EXCEPT !.st = "done"]
    BY <1>1, <1>5, <1>7, <1>8 DEF Settled
  <2> QED BY <2>1, <2>2, <2>3
<1>10. ASSUME NEW t \in Task
       PROVE  (Ready(t)' => Ready(t)) /\ task'[t].kind = task[t].kind /\ (IsFollow(t) /\ ~Undone(t) => ~Undone(t)')
  <2>1. task[t] \in TaskRow
    BY TypeIs DEF Inv
  <2>2. (task'[t].st = "ready" => task[t].st = "ready") /\ task'[t].kind = task[t].kind
    BY <1>9, <2>1 DEF TaskRow
  <2>3. ASSUME IsFollow(t), task[t].st = "done" PROVE task'[t].st = "done"
    <3>1. CASE t = run[i].task
      BY <1>9, <2>1, <3>1 DEF TaskRow
    <3>2. CASE t # run[i].task
      <4>1. ASSUME NEW j \in S PROVE run[j].task # t
        <5> SUFFICES ASSUME run[j].task = t PROVE FALSE
          OBVIOUS
        <5>1. j \in Created /\ Live(j)
          BY <1>5, <3>2
        <5> QED BY <2>3, <5>1 DEF Orderly, Lives, Undone
      <4> QED BY <1>9, <2>3, <4>1
    <3> QED BY <3>1, <3>2
  <2> QED BY <2>2, <2>3 DEF Ready, Undone
<1>11. acall'[i] = "none" /\ \A a \in Created \ {i} : acall'[a] = acall[a]
  BY <1>1, <1>2, TypeIs DEF Inv, Created
<1>12. \A j \in Created : Offered(j)'
  <2>1. \A j \in Created : Offered(j)
    BY DEF Orderly, Approvals
  <2> QED BY <1>2, <1>6, <2>1, Frame DEF Offered
<1>13. \A j \in Created : CallKnown(j, call[j])'
  <2> SUFFICES ASSUME NEW j \in Created PROVE CallKnown(j, call[j])'
    OBVIOUS
  <2>1. CallKnown(j, call[j]) /\ (run[j].stage = "done" => run'[j].stage = "done")
    BY <1>6 DEF Orderly, Calls
  <2>2. /\ run'[j].says = run[j].says /\ run'[j].par = run[j].par /\ Kind(j)' = Kind(j) /\ Trunk' = Trunk
        /\ call'[j] = call[j] /\ head' = head /\ cleared' = cleared
    BY <1>1, <1>2, Frame
  <2> QED BY <2>1, <2>2 DEF CallKnown
<1>14. \A a \in Created : Active(a)' /\ Kind(a) = "impl" => \A t \in Task : IsFollow(t) => ~Undone(t)'
  <2>1. \A a \in Created : Active(a)' => Active(a)
    BY <1>1, <1>4 DEF Active
  <2> QED BY <1>10, <2>1 DEF Orderly, Calls
<1>15. Pending' => Pending /\ \A j \in Created : Passing(j)'
  <2>1. ASSUME NEW a \in Created' PROVE ~Approved(a)' /\ (acall'[a] = "merge" => acall[a] = "merge") /\ a \in Created
    BY <1>2, <1>6, <1>11, Frame DEF Approved
  <2>2. Pending' => Pending
    BY <2>1 DEF Pending
  <2>3. Pending => \A j \in Created : Passing(j)'
    BY <1>1, <1>2, Frame DEF Orderly, Still, Passing
  <2> QED BY <2>2, <2>3
<1>16. \A a \in Created : \A j \in boot' : acall'[a] = "merge" => Harmless(j)'
  BY <1>1, <1>6 DEF Harmless, Inv, Memory
<1>17. \A j \in Created : ~Live(j)' /\ ~Approved(j)' /\ (call'[j].pc # "none" => call[j].pc # "none")
  BY <1>1, <1>6 DEF Approved
<1>18. \A a \in Created : acall'[a] # "none" => Works(a) /\ run[a].complete
  BY <1>11 DEF Orderly, Approvals
<1>19. /\ \A t \in Task : Ready(t)' => Ready(t)
       /\ \A t \in Task : task'[t].kind = task[t].kind
  BY <1>10
<1>20. head' = head /\ cleared \subseteq cleared' /\ merged' \subseteq cleared' /\ boot' \subseteq boot /\ session' \subseteq session
  BY <1>1, <1>4 DEF Orderly, Commits
<1> QED BY <1>2, <1>4, <1>12, <1>13, <1>14, <1>15, <1>16, <1>17, <1>18, <1>19, <1>20, Moves

\* The agent completes: its run is alone, and stays alone until its session is released.
LEMMA CompleteOrderly ==
  ASSUME Inv, Orderly, NEW i \in Run, Complete(i)
  PROVE  Orderly'
<1>1. /\ i \in Created /\ i \in session /\ call[i].pc = "none"
      /\ run' \in [Run -> RunRow] /\ \A j \in Run \ {i} : run'[j] = run[j]
      /\ run'[i].stage = run[i].stage /\ run'[i].term = run[i].term /\ run'[i].task = run[i].task
      /\ run'[i].par = run[i].par /\ run'[i].tree = run[i].tree /\ run'[i].approval = run[i].approval
      /\ run'[i].complete
      /\ UNCHANGED <<task, acall, retrying, boot, cleared, merged, upsets>>
      /\ Kind(i) = "review" => head' = head
  BY CompleteIs
<1>2. Active(i) /\ Live(i)
  BY <1>1 DEF Active, Orderly, Sessions
<1>3. run[i].term = "none" /\ run[i].stage # "done" /\ boot = {}
  BY <1>1, <1>2 DEF Live, Open, Orderly, OneToken
<1>4. session' = session /\ call' = [call EXCEPT ![i] = [Idle EXCEPT !.pc = "release", !.live = TRUE]]
  BY <1>3, CompleteIs
<1>5. /\ Last(i) /\ (\A t \in Task : ~Ready(t)) /\ session = {i} /\ ~Pending
      /\ \A j \in Created \ {i} : ~Active(j) /\ call[j].pc = "none"
      /\ Works(i) => \A j \in Created : Kind(j) = "review" => ~Live(j)
  BY <1>1, <1>2, Alone
<1>6. call'[i].pc = "release" /\ call'[i].live /\ \A j \in Run \ {i} : call'[j] = call[j]
  BY <1>4, TypeIs DEF Inv, CallRow, Idle
<1>7. /\ Created' = Created
      /\ \A j \in Created : /\ j \in Run /\ run'[j].task = run[j].task /\ run'[j].par = run[j].par
                            /\ run'[j].tree = run[j].tree /\ run'[j].stage = run[j].stage
                            /\ run'[j].approval = run[j].approval
                            /\ (Live(j)' <=> Live(j)) /\ (run[j].complete => run'[j].complete)
  BY <1>1 DEF Created, Live, Open
<1>8. \A j \in Created : Kind(j)' = Kind(j) /\ (Works(j)' <=> Works(j))
  BY <1>1, <1>7 DEF Kind, Works
<1>9. \A t : RunsOf(t)' = RunsOf(t)
  BY <1>7 DEF RunsOf
<1>10. Trunk' = Trunk /\ \A j \in Created : Last(j)' <=> Last(j)
  BY <1>7, <1>9 DEF Trunk, Last
<1>11. \A j \in Created : Active(j)' <=> j = i
  BY <1>1, <1>4, <1>5, <1>6, <1>7 DEF Active
<1>12. \A t \in Task : /\ ~Ready(t)' /\ (IsFollow(t)' <=> IsFollow(t)) /\ (Undone(t)' <=> Undone(t))
  BY <1>1, <1>5 DEF Ready, IsFollow, Undone
<1>13. \A j \in Created : run[j].task \in Task
  BY Kinds DEF Inv
<1>14. OneToken' /\ BootDead'
  BY <1>1, <1>3, <1>7, <1>11, <1>12 DEF OneToken, BootDead
<1>15. Sessions'
  BY <1>1, <1>2, <1>4, <1>5, <1>6, <1>7 DEF Sessions
<1>16. Lives'
  <2>1. Lives
    BY DEF Orderly
  <2>2. ASSUME NEW j \in Created
        PROVE  /\ Live(j) => Last(j) /\ (IsFollow(run[j].task) => Undone(run[j].task))
               /\ j = i => Last(j)
               /\ run'[j].complete /\ Works(j) => Last(j)
    BY <1>1, <1>5, <1>7, <2>1 DEF Lives
  <2>3. \A j \in Created : /\ ~Ready(run[j].task)'
                           /\ IsFollow(run[j].task)' <=> IsFollow(run[j].task)
                           /\ Undone(run[j].task)' <=> Undone(run[j].task)
    BY <1>7, <1>12, <1>13
  <2> QED BY <1>7, <1>8, <1>10, <1>11, <2>2, <2>3 DEF Lives
<1>17. Preceded'
  BY <1>7, <1>8, <1>12 DEF Preceded, Orderly
<1>18. Shape'
  <2>1. Shape
    BY DEF Orderly
  <2> QED BY <1>2, <1>7, <1>8, <1>10, <1>11, <2>1 DEF Shape
<1>19. OneReview'
  <2>1. OneReview
    BY DEF Orderly
  <2> QED BY <1>2, <1>7, <1>8, <1>11, <1>12, <2>1 DEF OneReview
<1>20. Calls'
  <2>1. Calls
    BY DEF Orderly
  <2>2. \A j \in Created : CallKnown(j, call[j])'
    BY <1>5, <1>6, <1>7 DEF CallKnown
  <2>3. Kind(i) = "impl" => \A t \in Task : IsFollow(t) => ~Undone(t)
    BY <1>1, <1>2, <2>1 DEF Calls
  <2>4. Kind(i) = "review" /\ ~Undone(run[i].task) => \A j \in Created : Kind(j) = "fix" => ~Live(j)
    BY <1>1, <1>2, <2>1 DEF Calls
  <2>5. \A j \in Created : Undone(run[j].task)' <=> Undone(run[j].task)
    BY <1>7, <1>12, <1>13
  <2> QED BY <1>7, <1>8, <1>11, <1>12, <2>2, <2>3, <2>4, <2>5 DEF Calls
<1>21. \A j \in Created : Approved(j)' <=> Approved(j)
  BY <1>7 DEF Approved
<1>22. ~Pending'
  BY <1>1, <1>5, <1>7, <1>21 DEF Pending
<1>23. Still'
  BY <1>22 DEF Still
<1>24. Approvals'
  <2>1. Approvals /\ \A j \in Created : ~Approved(j)'
    BY <1>5, <1>21 DEF Orderly, Pending
  <2>2. \A j \in Created : Offered(j)'
    BY <1>7, <1>8, <2>1 DEF Approvals, Offered
  <2> QED BY <1>1, <1>7, <1>8, <2>1, <2>2 DEF Approvals
<1>25. MergeBoot'
  BY <1>1, <1>3 DEF MergeBoot
<1>26. Commits'
  <2>1. Commits
    BY DEF Orderly
  <2>2. ASSUME NEW k \in Created, Kind(k) = "review", Live(k) \/ k = i
        PROVE  task[run[k].task].ver = head[Trunk] /\ head' = head
    <3>1. Kind(i) = "review"
      BY <1>1, <1>5, <2>2 DEF Works
    <3> QED BY <1>1, <1>2, <2>1, <2>2, <3>1 DEF Commits
  <2> QED BY <1>1, <1>7, <1>8, <1>10, <1>11, <1>12, <1>22, <2>1, <2>2 DEF Commits
<1> QED BY <1>14, <1>15, <1>16, <1>17, <1>18, <1>19, <1>20, <1>23, <1>24, <1>25, <1>26 DEF Orderly

\* Where a ready task is dispatched nothing else goes on, and the new run is alone afterwards.
LEMMA Joins ==
  ASSUME Inv, Orderly, NEW t \in Task, Dispatch(t)
  PROVE  \E f \in Run :
           /\ Created' = Created \cup {f} /\ \A j \in Created : j \in Run /\ j < f /\ run[j].task \in Task
           /\ run'[f].task = t /\ Live(f)' /\ ~run'[f].complete /\ ~run'[f].approval /\ Kind(f)' = task[t].kind
           /\ t = Root => run'[f].tree = f
           /\ t # Root => Created # {} /\ run'[f].par = MostRecent /\ run'[f].tree = run[MostRecent].tree
           /\ \A j \in Created : run'[j] = run[j] /\ (Live(j)' <=> Live(j)) /\ Kind(j)' = Kind(j)
           /\ \A u \in Task : /\ task'[u].kind = task[u].kind /\ task'[u].ver = task[u].ver
                              /\ u # t => task'[u].st = task[u].st
           /\ task'[t].st = "active" /\ Ready(t) /\ \A u \in Task : ~Ready(u)'
           /\ session' = {f} /\ boot' = {} /\ \A j \in Created' : call'[j].pc = "none" /\ acall'[j] # "merge"
           /\ acall'[f] = "none" /\ UNCHANGED <<call, acall, head, cleared, merged>> /\ ~Pending
           /\ \A j \in Created' : Active(j)' <=> j = f
<1> USE DEF Inv
<1>1. PICK f \in Run : /\ f = FreshRun /\ run' = [run EXCEPT ![f] = Born(t, f)] /\ session' = session \cup {f}
  BY DispatchIs
<1>2. PICK b : b = Born(t, f)
  OBVIOUS
<1>3. /\ task[t].st = "ready" /\ task' = TaskTo(t, "active") /\ boot = {}
      /\ UNCHANGED <<call, acall, retrying, boot, head, cleared, merged, upsets>>
  BY DEF Dispatch, calls, git
<1>4. /\ b \in RunRow /\ b.task = t /\ b.stage = "work" /\ b.term = "none" /\ ~b.complete /\ ~b.approval
      /\ t = Root => b.tree = f
      /\ t # Root => Created # {} /\ b.par = MostRecent /\ b.tree = run[MostRecent].tree
  BY <1>1, <1>2, <1>3, BornIs
<1>5. f \notin Created /\ f \in Nat /\ \A j \in Run : j \in Created <=> j < f
  BY <1>1, FreshRunIs DEF Rows, Run
<1>6. run'[f] = b /\ \A j \in Run : j # f => run'[j] = run[j]
  BY <1>1, <1>2, <1>4, TypeIs
<1>7. Created' = Created \cup {f}
  BY <1>1, <1>4, <1>6 DEF Created
<1>8. /\ \A u \in Task : /\ task'[u].kind = task[u].kind /\ task'[u].ver = task[u].ver
                         /\ u # t => task'[u].st = task[u].st
      /\ task'[t].st = "active"
  <2>1. task[t] \in TaskRow /\ task' = [task EXCEPT ![t].st = "active"]
    BY <1>3, TypeIs DEF TaskTo
  <2> QED BY <2>1, TypeIs DEF TaskRow
<1>9. Ready(t) /\ \A u \in Task : ~Ready(u)'
  <2>1. Ready(t) /\ \A u \in Task : Ready(u) => u = t
    BY <1>3 DEF Ready, Orderly, OneToken
  <2> QED BY <1>8, <2>1 DEF Ready
<1>10. \A j \in Created : j \in Run /\ j # f /\ run'[j] = run[j] /\ run[j].task \in Task
  BY <1>5, <1>6, Kinds
<1>11. \A j \in Created : Kind(j)' = Kind(j) /\ (Live(j)' <=> Live(j))
  BY <1>8, <1>10 DEF Kind, Live, Open
<1>12. Kind(f)' = task[t].kind /\ Live(f)'
  BY <1>4, <1>6, <1>8 DEF Kind, Live, Open
<1>13. session = {} /\ ~Pending /\ \A j \in Created : call[j].pc = "none"
  <2>1. \A j \in Created : ~Active(j)
    BY <1>9 DEF Orderly, OneToken
  <2> QED BY <1>9, <2>1 DEF Active, Memory, Orderly, Still
<1>14. call[f].pc = "none" /\ acall[f] = "none"
  BY <1>1, <1>5 DEF Memory, RoutedBy
<1>15. \A j \in Created' : call'[j].pc = "none" /\ acall'[j] # "merge"
  BY <1>3, <1>7, <1>13, <1>14 DEF Pending
<1>16. session' = {f} /\ \A j \in Created' : Active(j)' <=> j = f
  BY <1>1, <1>13, <1>15 DEF Active
<1>17. \A j \in Created : j < f
  BY <1>5, <1>10
<1> QED BY <1>3, <1>4, <1>6, <1>7, <1>8, <1>9, <1>10, <1>11, <1>12, <1>13, <1>14, <1>15, <1>16, <1>17

\* A review or a fix joins the trunk behind everything that was done there.
LEMMA DispatchOrderly ==
  ASSUME Inv, Orderly, NEW t \in Task, Dispatch(t)
  PROVE  Orderly'
<1> USE DEF Inv
<1>1. PICK f \in Run :
        /\ Created' = Created \cup {f} /\ \A j \in Created : j \in Run /\ j < f /\ run[j].task \in Task
        /\ run'[f].task = t /\ Live(f)' /\ ~run'[f].complete /\ ~run'[f].approval /\ Kind(f)' = task[t].kind
        /\ t = Root => run'[f].tree = f
        /\ t # Root => Created # {} /\ run'[f].par = MostRecent /\ run'[f].tree = run[MostRecent].tree
        /\ \A j \in Created : run'[j] = run[j] /\ (Live(j)' <=> Live(j)) /\ Kind(j)' = Kind(j)
        /\ \A u \in Task : /\ task'[u].kind = task[u].kind /\ task'[u].ver = task[u].ver
                           /\ u # t => task'[u].st = task[u].st
        /\ task'[t].st = "active" /\ Ready(t) /\ \A u \in Task : ~Ready(u)'
        /\ session' = {f} /\ boot' = {} /\ \A j \in Created' : call'[j].pc = "none" /\ acall'[j] # "merge"
        /\ acall'[f] = "none" /\ UNCHANGED <<call, acall, head, cleared, merged>> /\ ~Pending
        /\ \A j \in Created' : Active(j)' <=> j = f
  BY Joins
<1>2. f \in Nat /\ \A j \in Created : j \in Nat /\ j # f /\ ~(f < j) /\ ~(f <= j)
  BY <1>1 DEF Run
<1>3. f \in Created' /\ \A j \in Created' : j = f \/ j \in Created
  BY <1>1
<1>4. \A j \in Created : Works(j)' <=> Works(j)
  BY <1>1 DEF Works
<1>5. \A u \in Task : (IsFollow(u)' <=> IsFollow(u)) /\ (u # t => (Undone(u)' <=> Undone(u)))
  BY <1>1 DEF IsFollow, Undone
<1>6. Undone(t)'
  BY <1>1 DEF Undone
<1>7. task[t].kind = "impl" <=> t = Root
  BY <1>1 DEF Rows, Tasks, Ready
<1>8. Last(f)'
  BY <1>1, <1>2, <1>3 DEF Last, RunsOf
<1>9. \A j \in Created : run[j].task # t /\ Last(j) => Last(j)'
  BY <1>1, <1>3 DEF Last, RunsOf
<1>10. \A j \in Created : Live(j) \/ (run[j].complete /\ Works(j)) => run[j].task # t /\ Last(j)
  BY <1>1 DEF Orderly, Lives
<1>11. \A k \in Created : Kind(k) = "review" => ~Live(k)
  BY <1>1 DEF Orderly, OneReview
<1>12. t = Root => /\ \A u \in Task : ~IsFollow(u)
                   /\ \A j \in Created : Kind(j) = "impl"
  <2>1. ASSUME t = Root, NEW u \in Task, IsFollow(u) PROVE FALSE
    <3>1. PICK i \in Created : Kind(i) = "impl" /\ run[i].complete
      BY <2>1 DEF Orderly, Preceded
    <3>2. run[i].task = Root /\ Works(i)
      BY <3>1, Kinds DEF Works
    <3> QED BY <1>10, <2>1, <3>1, <3>2
  <2>2. \A j \in Created : Kind(j) # "impl" => IsFollow(run[j].task)
    BY Kinds DEF IsFollow, FollowUps
  <2> QED BY <1>1, <2>1, <2>2
<1>13. t # Root => /\ Trunk' = Trunk /\ run'[f].tree = Trunk
                   /\ \A j \in Created : Works(j) => j <= run'[f].par
  <2> SUFFICES ASSUME t # Root
               PROVE  /\ Trunk' = Trunk /\ run'[f].tree = Trunk
                      /\ \A j \in Created : Works(j) => j <= run'[f].par
    OBVIOUS
  <2>1. RunsOf(Root)' = RunsOf(Root)
    BY <1>1, <1>3 DEF RunsOf
  <2>2. Trunk' = Trunk
    BY <2>1 DEF Trunk
  <2>3. PICK m : m = MostRecent
    OBVIOUS
  <2>4. /\ m \in Created /\ Kind(m) \in {"impl", "fix"} /\ run'[f].par = m /\ run'[f].tree = run[m].tree
        /\ \A j \in Created : Kind(j) \in {"impl", "fix"} => j <= m
    BY <1>1, <2>3, MostRecentIs
  <2>5. \A j \in Created : Works(j) => j <= m
    BY <2>4, Kinds DEF Works
  <2>6. PICK r : r = Trunk
    OBVIOUS
  <2>7. /\ r \in Created /\ Kind(r) = "impl" /\ run[r].tree = r
        /\ Kind(m) = "impl" => m <= r
        /\ Kind(m) # "impl" => run[m].tree = r
    BY <2>4, <2>6, TrunkIs DEF Orderly
  <2>8. Kind(m) = "impl" => m = r
    <3>1. r <= m
      BY <2>5, <2>7 DEF Works
    <3> QED BY <1>2, <2>4, <2>7, <3>1
  <2> QED BY <2>2, <2>4, <2>5, <2>6, <2>7, <2>8
<1>14. t = Root \/ t # Root
  OBVIOUS
<1>15. OneToken' /\ BootDead'
  BY <1>1 DEF OneToken, BootDead
<1>16. Sessions'
  BY <1>1, <1>3 DEF Sessions
<1>17. Lives'
  <2>1. ASSUME NEW j \in Created
        PROVE  /\ Live(j)' => Last(j)' /\ ~Ready(run[j].task)' /\ (IsFollow(run[j].task)' => Undone(run[j].task)')
               /\ Active(j)' => Last(j)'
               /\ run'[j].complete /\ Works(j)' => Last(j)' /\ ~Ready(run[j].task)'
    <3>1. PICK u \in Task : u = run[j].task /\ u = run'[j].task
      BY <1>1
    <3>2. (Live(j) \/ (run[j].complete /\ Works(j))) => u # t /\ Last(j)'
      BY <1>9, <1>10, <3>1
    <3>3. Live(j) => (IsFollow(u) => Undone(u))
      BY <3>1 DEF Orderly, Lives
    <3>4. ~Ready(u)' /\ (IsFollow(u)' <=> IsFollow(u)) /\ (u # t => (Undone(u)' <=> Undone(u)))
      BY <1>1, <1>5
    <3>5. (Ready(run[j].task)' <=> Ready(u)') /\ (IsFollow(run[j].task)' <=> IsFollow(u)')
          /\ (Undone(run[j].task)' <=> Undone(u)')
      BY <3>1 DEF Ready, IsFollow, Undone
    <3>6. ~Active(j)'
      BY <1>1, <1>2, <1>3
    <3> QED BY <1>1, <1>4, <3>2, <3>3, <3>4, <3>5, <3>6
  <2>2. Last(f)' /\ ~Ready(run[f].task)' /\ Undone(run[f].task)' /\ ~run'[f].complete
    BY <1>1, <1>6, <1>8 DEF Ready, Undone
  <2> QED BY <1>3, <2>1, <2>2 DEF Lives
<1>18. Preceded'
  <2>1. Preceded
    BY DEF Orderly
  <2> QED BY <1>1, <1>3, <1>5, <2>1 DEF Preceded
<1>19. Shape'
  <2>1. CASE t = Root
    <3>1. \A i \in Created' : Kind(i)' = "impl"
      BY <1>1, <1>3, <1>7, <1>12, <2>1
    <3> QED BY <3>1 DEF Shape
  <2>2. CASE t # Root
    <3>1. Shape
      BY DEF Orderly
    <3>2. Trunk' = Trunk /\ run'[f].tree = Trunk /\ Kind(f)' # "impl" /\ \A j \in Created : Works(j) => j <= run'[f].par
      BY <1>1, <1>7, <1>13, <2>2
    <3>3. ASSUME NEW i \in Created, NEW j \in Created
          PROVE  /\ Kind(i)' # "impl" /\ Kind(j)' = "impl" => j < i
                 /\ Kind(i)' # "impl" => run'[i].tree = Trunk'
                 /\ Kind(i)' = "fix" /\ Works(j)' /\ j < i => j <= run'[i].par
                 /\ Kind(i)' = "review" /\ (Live(i)' \/ Active(i)') /\ Works(j)' => j <= run'[i].par
      <4>1. ~Active(i)' /\ (Kind(i) = "review" => ~Live(i))
        BY <1>1, <1>2, <1>3, <1>11
      <4> QED BY <1>1, <1>4, <3>1, <3>2, <4>1 DEF Shape
    <3>4. ASSUME NEW i \in Created
          PROVE  /\ Kind(i)' # "impl" => run'[i].tree = Trunk'
                 /\ ~(f < i)
                 /\ ~(Kind(i)' = "review" /\ (Live(i)' \/ Active(i)'))
      <4>1. ~Active(i)' /\ (Kind(i) = "review" => ~Live(i))
        BY <1>1, <1>2, <1>3, <1>11
      <4> QED BY <1>1, <1>2, <3>3, <4>1
    <3>5. ASSUME NEW j \in Created
          PROVE  /\ Kind(j)' = "impl" => j < f
                 /\ Works(j)' => j <= run'[f].par
      BY <1>1, <1>4, <3>2
    <3>6. ~(f < f) /\ (Kind(f)' = "review" => ~Works(f)')
      BY <1>2 DEF Works
    <3> QED BY <1>3, <3>2, <3>3, <3>4, <3>5, <3>6 DEF Shape
  <2> QED BY <1>14, <2>1, <2>2
<1>20. OneReview'
  BY <1>1, <1>3, <1>11 DEF OneReview
<1>21. Calls'
  <2>1. \A j \in Created' : CallKnown(j, call[j])'
    BY <1>1 DEF CallKnown
  <2>2. Kind(f)' = "impl" => \A u \in Task : ~IsFollow(u)'
    BY <1>1, <1>5, <1>7, <1>12
  <2>3. Undone(run[f].task)'
    BY <1>1, <1>6 DEF Undone
  <2> QED BY <1>1, <2>1, <2>2, <2>3 DEF Calls
<1>22. \A j \in Created' : ~Approved(j)'
  <2>1. \A j \in Created : Approved(j)' <=> Approved(j)
    BY <1>1 DEF Approved
  <2> QED BY <1>1, <1>3, <2>1 DEF Approved, Pending
<1>23. ~Pending'
  BY <1>1, <1>22 DEF Pending
<1>24. Still'
  BY <1>23 DEF Still
<1>25. Approvals'
  <2>1. Approvals
    BY DEF Orderly
  <2>2. ASSUME NEW j \in Created
        PROVE  Offered(j)' /\ (acall'[j] # "none" => Works(j)' /\ run'[j].complete)
    <3>1. Offered(j) /\ (acall[j] # "none" => Works(j) /\ run[j].complete)
      BY <2>1 DEF Approvals
    <3> QED BY <1>1, <1>4, <3>1 DEF Offered
  <2>3. Offered(f)' /\ acall'[f] = "none"
    BY <1>1 DEF Offered
  <2> QED BY <1>3, <1>22, <2>2, <2>3 DEF Approvals
<1>26. MergeBoot'
  BY <1>1 DEF MergeBoot
<1>27. Commits'
  <2>1. Commits
    BY DEF Orderly
  <2>2. ASSUME NEW k \in Created', Kind(k)' = "review", Live(k)' \/ Active(k)'
        PROVE  task'[run'[k].task].ver = head'[Trunk']
    <3>1. k = f
      BY <1>1, <1>3, <1>11, <2>2
    <3>2. task[t].kind = "review" /\ t # Root
      BY <1>1, <1>7, <2>2, <3>1
    <3>3. task[t].ver = head[Trunk]
      BY <1>1, <2>1, <3>2 DEF Commits
    <3> QED BY <1>1, <1>13, <3>1, <3>2, <3>3
  <2>3. merged' \subseteq cleared'
    BY <1>1, <2>1 DEF Commits
  <2> QED BY <1>1, <1>23, <2>2, <2>3 DEF Commits
<1> QED BY <1>15, <1>16, <1>17, <1>18, <1>19, <1>20, <1>21, <1>24, <1>25, <1>26, <1>27 DEF Orderly

--------------------------------------------------------------------------------
(* It is orderly until an operator retries.                                    *)

LEMMA InitOrderly ==
  ASSUME Inv, Init
  PROVE  Orderly /\ retrying = {}
<1>1. /\ session = {} /\ boot = {} /\ merged = {} /\ retrying = {} /\ Created = {}
      /\ \A t \in Task : task[t].kind = "none" \/ t = Root
      /\ \A t \in Task : task[t].kind \notin FollowUps
  BY DEF Init, Created, NoRun, NoTask, FollowUps
<1>2. \A t \in Task : task[t].kind # "review"
  BY <1>1 DEF FollowUps
<1>3. \A t, u \in Task : Ready(t) /\ Ready(u) => t = u
  BY DEF Init, Ready, NoTask
<1>4. OneToken /\ Sessions /\ Lives /\ Preceded /\ Shape /\ OneReview /\ BootDead
  BY <1>1, <1>3 DEF OneToken, Sessions, Lives, Preceded, IsFollow, Shape, OneReview, BootDead
<1>5. ~Pending
  BY <1>1 DEF Pending
<1>6. Calls /\ Still /\ Approvals /\ MergeBoot /\ Commits
  BY <1>1, <1>2, <1>5 DEF Calls, Still, Approvals, MergeBoot, Commits
<1> QED BY <1>1, <1>4, <1>6 DEF Orderly

LEMMA StutterOrderly ==
  ASSUME Orderly, UNCHANGED vars
  PROVE  Orderly'
<1> USE DEF Orderly
<1>1. /\ UNCHANGED <<run, task, session, call, acall, boot, head, cleared, merged>> /\ Created' = Created
      /\ Trunk' = Trunk /\ \A t : RunsOf(t)' = RunsOf(t)
  BY DEF vars, Created, Trunk, RunsOf
<1>2. \A i : (Live(i)' <=> Live(i)) /\ (Active(i)' <=> Active(i)) /\ Kind(i)' = Kind(i) /\ (Last(i)' <=> Last(i))
             /\ (Approved(i)' <=> Approved(i)) /\ (Offered(i)' <=> Offered(i)) /\ (Passing(i)' <=> Passing(i))
             /\ (CallKnown(i, call[i])' <=> CallKnown(i, call[i]))
             /\ (Harmless(i)' <=> Harmless(i)) /\ (Works(i)' <=> Works(i))
  BY <1>1 DEF Live, Open, Active, Kind, Last, Approved, Offered, Passing, CallKnown, Harmless, Owned, Works
<1>3. \A t : (Ready(t)' <=> Ready(t)) /\ (Undone(t)' <=> Undone(t)) /\ (IsFollow(t)' <=> IsFollow(t))
  BY <1>1 DEF Ready, Undone, IsFollow
<1>4. Pending' <=> Pending
  BY <1>1, <1>2 DEF Pending
<1>5. OneToken' /\ Sessions' /\ Lives' /\ Preceded'
  BY <1>1, <1>2, <1>3 DEF OneToken, Sessions, Lives, Preceded
<1>6. Shape' /\ OneReview' /\ BootDead' /\ Calls'
  BY <1>1, <1>2, <1>3 DEF Shape, OneReview, BootDead, Calls
<1>7. Still' /\ Approvals' /\ MergeBoot' /\ Commits'
  BY <1>1, <1>2, <1>3, <1>4 DEF Still, Approvals, MergeBoot, Commits
<1> QED BY <1>5, <1>6, <1>7

LEMMA StepOrderly ==
  ASSUME Inv, Orderly, Next, retrying = {}
  PROVE  Orderly' \/ \E i \in Run : RetryAsked(i)
<1>1. ASSUME NEW t \in Task, Dispatch(t) PROVE Orderly'
  BY <1>1, DispatchOrderly
<1>2. ASSUME NEW i \in Run, Complete(i) \/ Die(i) \/ StaleSlot(i) \/ Reconcile(i) PROVE Orderly'
  BY <1>2, CompleteOrderly, DieOrderly, StaleSlotOrderly, ReconcileOrderly
<1>3. ASSUME NEW i \in Run, Route(i) \/ Verify(i) \/ retryFinalFixVerify(i) \/ dispatchReview(i) PROVE Orderly'
  BY <1>3, RouteOrderly, VerifyOrderly, dispatchReviewOrderly
<1>4. ASSUME NEW i \in Run,
             AdvanceUnreviewed(i) \/ ShipUnreviewed(i) \/ AdvanceReviewed(i) \/ ShipReviewed(i) \/ Throw(i)
      PROVE  Orderly'
  BY <1>4, AdvanceUnreviewedOrderly, ShipUnreviewedOrderly, AdvanceReviewedOrderly, ShipReviewedOrderly, ThrowOrderly
<1>5. ASSUME NEW i \in Run,
             \/ cancelRun(i) \/ rejectRun(i) \/ approveRun(i) \/ MergeApproved(i) \/ finalizeSuccessfulMerge(i)
      PROVE  Orderly'
  BY <1>5, cancelRunOrderly, rejectRunOrderly, approveRunOrderly, MergeApprovedOrderly, finalizeSuccessfulMergeOrderly
<1>6. ASSUME Crash PROVE Orderly'
  BY <1>6, CrashOrderly
<1>7. \A i \in Run : ~RetryWritten(i)
  BY DEF RetryWritten
<1> QED BY <1>1, <1>2, <1>3, <1>4, <1>5, <1>6, <1>7 DEF Next

\* What has happened stays so, and a retry that is under way has been asked for.
RetriesTold == retrying # {} => Happened("retry")

LEMMA Told ==
  ASSUME TypeOK, NEW what \in {"crash", "cancel", "reject", "retry"}, upsets' = upsets \/ Upset(what)
  PROVE  /\ Happened("retry") => Happened("retry")'
         /\ Upset("retry") => Happened("retry")'
<1>1. upsets \in Seq({"crash", "cancel", "reject", "retry"}) /\ Len(upsets) \in Nat
  BY DEF TypeOK
<1>2. CASE upsets' = upsets
  <2>1. ~Upset("retry")
    <3>1. Len(Append(upsets, "retry")) = Len(upsets) + 1
      BY <1>1
    <3> QED BY <1>1, <1>2, <3>1 DEF Upset
  <2> QED BY <1>2, <2>1 DEF Happened
<1>3. ASSUME NEW w \in {"crash", "cancel", "reject", "retry"}, upsets' = Append(upsets, w)
      PROVE  /\ Happened("retry") => Happened("retry")'
             /\ w = "retry" => Happened("retry")'
  <2>1. /\ Len(upsets') = Len(upsets) + 1 /\ upsets'[Len(upsets) + 1] = w
        /\ \A n \in 1 .. Len(upsets) : upsets'[n] = upsets[n]
    BY <1>1, <1>3
  <2>2. 1 .. Len(upsets) \subseteq 1 .. Len(upsets') /\ Len(upsets) + 1 \in 1 .. Len(upsets')
    BY <1>1, <2>1
  <2> QED BY <2>1, <2>2 DEF Happened
<1> QED BY <1>2, <1>3 DEF Upset

LEMMA RetriesAreTold ==
  ASSUME TypeOK, RetriesTold, [Next]_vars
  PROVE  /\ RetriesTold'
         /\ Happened("retry") => Happened("retry")'
         /\ \A i \in Run : RetryAsked(i) => Happened("retry")'
<1>1. CASE \E i \in Run : RetryAsked(i)
  <2>1. Upset("retry")
    BY <1>1 DEF RetryAsked
  <2> QED BY <2>1, Told DEF RetriesTold
<1>2. CASE \A i \in Run : ~RetryAsked(i)
  <2>1. retrying' \subseteq retrying /\ \E what \in {"crash", "cancel", "reject", "retry"} : upsets' = upsets \/ Upset(what)
    <3>1. CASE UNCHANGED vars
      BY <3>1 DEF vars
    <3>2. ASSUME NEW t \in Task, Dispatch(t) PROVE UNCHANGED <<retrying, upsets>>
      BY <3>2 DEF Dispatch, calls
    <3>3. ASSUME NEW i \in Run, Complete(i) \/ Die(i) \/ StaleSlot(i) \/ Reconcile(i)
          PROVE  UNCHANGED <<retrying, upsets>>
      BY <3>3 DEF Complete, Die, StaleSlot, Reconcile, calls
    <3>4. ASSUME NEW i \in Run, Route(i) \/ Verify(i) \/ retryFinalFixVerify(i) \/ dispatchReview(i)
          PROVE  UNCHANGED <<retrying, upsets>>
      BY <3>4 DEF Route, Verify, retryFinalFixVerify, dispatchReview, calls
    <3>5. ASSUME NEW i \in Run,
                 AdvanceUnreviewed(i) \/ ShipUnreviewed(i) \/ AdvanceReviewed(i) \/ ShipReviewed(i) \/ Throw(i)
          PROVE  UNCHANGED <<retrying, upsets>>
      BY <3>5 DEF AdvanceUnreviewed, ShipUnreviewed, AdvanceReviewed, ShipReviewed, Throw, calls
    <3>6. ASSUME NEW i \in Run, approveRun(i) \/ MergeApproved(i) \/ finalizeSuccessfulMerge(i)
          PROVE  UNCHANGED <<retrying, upsets>>
      BY <3>6 DEF approveRun, MergeApproved, finalizeSuccessfulMerge
    <3>7. ASSUME NEW i \in Run, cancelRun(i) \/ rejectRun(i)
          PROVE  retrying' = retrying /\ (Upset("cancel") \/ Upset("reject"))
      BY <3>7 DEF cancelRun, rejectRun, calls
    <3>8. ASSUME NEW i \in Run, RetryWritten(i) PROVE retrying' \subseteq retrying /\ upsets' = upsets
      BY <3>8 DEF RetryWritten
    <3>9. ASSUME Crash PROVE retrying' = {} /\ Upset("crash")
      BY <3>9 DEF Crash
    <3> QED BY <1>2, <3>1, <3>2, <3>3, <3>4, <3>5, <3>6, <3>7, <3>8, <3>9 DEF Next
  <2>2. Happened("retry") => Happened("retry")'
    BY <2>1, Told
  <2> QED BY <1>2, <2>1, <2>2 DEF RetriesTold
<1> QED BY <1>1, <1>2

LineageInv == Inv /\ RetriesTold /\ (Happened("retry") \/ Orderly)

LEMMA LineageInvariance == Spec => []LineageInv
<1>1. Init => LineageInv
  BY InvInit, InitOrderly DEF LineageInv, RetriesTold
<1>2. LineageInv /\ [Next]_vars => LineageInv'
  <2> SUFFICES ASSUME LineageInv, [Next]_vars PROVE LineageInv'
    OBVIOUS
  <2>1. Inv /\ RetriesTold /\ TypeOK
    BY DEF LineageInv, Inv
  <2>2. Inv'
    BY <2>1, InvNext, InvStutter
  <2>3. /\ RetriesTold'
        /\ Happened("retry") => Happened("retry")'
        /\ \A i \in Run : RetryAsked(i) => Happened("retry")'
    BY <2>1, RetriesAreTold
  <2>4. Happened("retry")' \/ Orderly'
    <3>1. CASE Happened("retry")
      BY <2>3, <3>1
    <3>2. CASE ~Happened("retry")
      <4>1. Orderly /\ retrying = {}
        BY <2>1, <3>2 DEF LineageInv, RetriesTold
      <4>2. CASE Next
        BY <2>1, <2>3, <4>1, <4>2, StepOrderly
      <4> QED BY <4>1, <4>2, StutterOrderly
    <3> QED BY <3>1, <3>2
  <2> QED BY <2>2, <2>3, <2>4 DEF LineageInv
<1> QED BY <1>1, <1>2, PTL DEF Spec

\* Two steps of a lineage never wait or work at a time (onReviewResult, dispatchReview,
\* dispatchVerificationFix), however calls, crashes, cancels, rejections and approvals meet, until
\* an operator retries a run.
THEOREM StepsFollowOneAnother == Spec => []OneFollowUp
<1>1. LineageInv => OneFollowUp
  <2> SUFFICES ASSUME Orderly, NEW t \in Task, NEW u \in Task, FollowUp(t), FollowUp(u) PROVE t = u
    BY DEF LineageInv, OneFollowUp
  <2>1. \A x \in Task : FollowUp(x) => Ready(x) \/ \E i \in Created : run[i].task = x /\ Active(i)
    BY DEF FollowUp, Ready, RunsOf, Active
  <2> QED BY <2>1 DEF Orderly, OneToken
<1> QED BY <1>1, LineageInvariance, PTL

\* Nobody works in a worktree while its branch is merged, though approveRun looks at the
\* descendants only once, before its awaits: while an approval is open or merged no task of the
\* lineage is ready and no call is left that would make one so.
THEOREM MergesAreQuiet == Spec => []QuietMerge
<1>1. LineageInv => QuietMerge
  <2> SUFFICES ASSUME Inv, Orderly, NEW i \in Run, acall[i] = "merge" PROVE session = {}
    BY DEF LineageInv, QuietMerge
  <2>1. Pending
    BY DEF Inv, Memory, Pending
  <2> QED BY <2>1 DEF Orderly, Still
<1> QED BY <1>1, LineageInvariance, PTL

\* What reaches the base branch has passed a review of that very commit, or went to its approval
\* because nobody was there to review (runReviewCompletion, mergeViaLocalBranch): a review is
\* always about the commit its worktree is at, and what is offered stays there until it is merged.
THEOREM MergesAreCleared == Spec => []MergedCleared
<1>1. LineageInv => MergedCleared
  BY DEF LineageInv, MergedCleared, Orderly, Commits
<1> QED BY <1>1, LineageInvariance, PTL

--------------------------------------------------------------------------------
(* Implementations and fixes form one line, whatever operators do.             *)

FixesFollow == \A i, j \in Created : Kind(i) = "fix" /\ Works(j) /\ j < i => j <= run[i].par
OneLineOfWork ==
  \A i, j \in Created : Works(i) /\ Works(j) /\ run[i].par = run[j].par /\ run[i].par # 0 => i = j

LEMMA FixesFollowStep ==
  ASSUME Inv, FixesFollow, [Next]_vars
  PROVE  FixesFollow'
<1>1. ASSUME Created' = Created,
             \A i \in Created : run'[i].par = run[i].par /\ Kind(i)' = Kind(i)
      PROVE  FixesFollow'
  BY <1>1 DEF FixesFollow, Works
<1>2. CASE UNCHANGED vars
  BY <1>1, <1>2 DEF vars, Created, Kind
<1>3. CASE Kept
  BY <1>1, <1>3, Frame
<1>4. ASSUME NEW i \in Run, Complete(i) PROVE FixesFollow'
  <2>1. /\ \A j \in Run : /\ run'[j].par = run[j].par /\ run'[j].task = run[j].task
                          /\ run'[j].stage = run[j].stage
        /\ task' = task
    BY <1>4, CompleteIs
  <2> QED BY <1>1, <2>1 DEF Created, Kind
<1>5. ASSUME NEW t \in Task, Dispatch(t) PROVE FixesFollow'
  <2>1. PICK f \in Run : f = FreshRun /\ run' = [run EXCEPT ![f] = Born(t, f)]
    BY <1>5, DispatchIs
  <2>2. PICK b : b = Born(t, f)
    OBVIOUS
  <2>3. task[t].st = "ready" /\ task' = TaskTo(t, "active")
    BY <1>5 DEF Dispatch
  <2>4. b.task = t /\ b.stage = "work" /\ (t # Root => Created # {} /\ b.par = MostRecent)
    BY <2>1, <2>2, <2>3, BornIs DEF Inv
  <2>5. f \in Nat /\ f \notin Created /\ \A j \in Run : j \in Nat /\ (j \in Created <=> j < f)
    BY <2>1, FreshRunIs DEF Inv, Rows, Run
  <2>6. run'[f] = b /\ \A j \in Created : j \in Run /\ j # f /\ run'[j] = run[j] /\ run[j].task \in Task
    BY <2>1, <2>2, <2>5, TypeIs, Kinds DEF Inv
  <2>7. Created' = Created \cup {f}
    <3>1. \A j \in Run : j # f => run'[j] = run[j]
      BY <2>1, TypeIs DEF Inv
    <3> QED BY <2>1, <2>4, <2>6, <3>1 DEF Created
  <2>8. \A u \in Task : task'[u].kind = task[u].kind
    BY <2>3, TypeIs DEF Inv, TaskTo, TaskRow
  <2>9. Kind(f)' = task[t].kind /\ \A j \in Created : Kind(j)' = Kind(j) /\ (Works(j)' <=> Works(j))
    BY <2>4, <2>6, <2>8 DEF Kind, Works
  <2>10. task[t].kind = "fix" => \A j \in Created : Works(j) => j <= b.par
    <3>1. task[t].kind = "fix" => t # Root
      BY <2>3 DEF Inv, Rows, Tasks
    <3>2. Created # {} => \A j \in Created : Works(j) => j <= MostRecent
      BY MostRecentIs, Kinds DEF Inv, Works
    <3> QED BY <2>4, <3>1, <3>2
  <2>11. ASSUME NEW j \in Created PROVE ~(f < j)
    <3>1. j \in Nat /\ f \in Nat /\ j < f
      BY <2>5, <2>6
    <3> QED BY <3>1
  <2> QED BY <2>5, <2>6, <2>7, <2>9, <2>10, <2>11 DEF FixesFollow
<1>6. ASSUME Next, \A t \in Task : ~Dispatch(t), \A i \in Run : ~Complete(i) PROVE Kept
  <2>1. ASSUME NEW i \in Run, Die(i) \/ StaleSlot(i) \/ Reconcile(i) PROVE Kept
    BY <2>1, DieInv, StaleSlotInv, ReconcileInv
  <2>2. ASSUME NEW i \in Run, Route(i) \/ Verify(i) \/ retryFinalFixVerify(i) \/ dispatchReview(i) PROVE Kept
    BY <2>2, RouteInv, VerifyInv, dispatchReviewInv
  <2>3. ASSUME NEW i \in Run,
               AdvanceUnreviewed(i) \/ ShipUnreviewed(i) \/ AdvanceReviewed(i) \/ ShipReviewed(i) \/ Throw(i)
        PROVE  Kept
    BY <2>3, UnreviewedInv, AdvanceReviewedInv, ShipReviewedInv, ThrowInv
  <2>4. ASSUME NEW i \in Run,
               \/ cancelRun(i) \/ rejectRun(i) \/ RetryAsked(i) \/ RetryWritten(i)
               \/ approveRun(i) \/ MergeApproved(i) \/ finalizeSuccessfulMerge(i)
        PROVE  Kept
    BY <2>4, cancelRunInv, rejectRunInv, RetryInv, ApprovalInv, finalizeSuccessfulMergeInv
  <2>5. ASSUME Crash PROVE Kept
    BY <2>5, CrashInv
  <2> QED BY <1>6, <2>1, <2>2, <2>3, <2>4, <2>5 DEF Next
<1> QED BY <1>2, <1>3, <1>4, <1>5, <1>6

\* The implementation and its fixes form one line, each going on from the newest before it: no two
\* of them have the same parent, whatever operators do.  The merge of an approval relies on it
\* when it takes the branch that they share (Chain of Approval_proofs).
THEOREM WorkIsOneLine == Spec => []OneLineOfWork
<1>1. Init => FixesFollow
  BY DEF Init, FixesFollow, Created, NoRun
<1>2. Inv /\ FixesFollow /\ [Next]_vars => FixesFollow'
  BY FixesFollowStep
<1>3. Inv /\ FixesFollow => OneLineOfWork
  <2> SUFFICES ASSUME Inv, FixesFollow, NEW i \in Created, NEW j \in Created, Works(i), Works(j), j < i,
                      run[i].par = run[j].par, run[i].par # 0
               PROVE  FALSE
    <3>1. \A i, j \in Created : i \in Nat /\ j \in Nat /\ (i = j \/ j < i \/ i < j)
      BY DEF Created, Run
    <3> QED BY <3>1 DEF OneLineOfWork
  <2>1. Kind(i) = "fix" /\ Kind(j) = "fix"
    BY Kinds DEF Inv, Works
  <2>2. j <= run[i].par /\ run[j].par < j /\ j \in Nat /\ run[j].par \in Nat
    BY <2>1, Kinds DEF Inv, FixesFollow, Created, Run
  <2> QED BY <2>2
<1> QED BY <1>1, <1>2, <1>3, Invariance, PTL DEF Spec
================================================================================
