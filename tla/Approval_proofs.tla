--------------------------- MODULE Approval_proofs ---------------------------
(***************************************************************************)
(* For every forest of runs, any number of calls and every bound: the types, *)
(* and, when the runs of a lineage follow one another, that no work is lost,  *)
(* that a run is done only with its work on the base branch, that rows and    *)
(* git agree once nothing is under way, and that the approvals implement      *)
(* Landing.                                                                  *)
(***************************************************************************)
EXTENDS Approval, WellFoundedInduction, TLAPS

--------------------------------------------------------------------------------
(* Lineages.                                                                   *)

\* A set of runs that has their parents.
Upward(S) == \A q \in S : Parent[q] \in S \cup {0}

LEMMA ParentBelow == \A r \in Run : Parent[r] \in 0 .. MaxRuns /\ Parent[r] < r /\ r \in Nat \ {0}
BY ApprovalBoundsAssumption, ParentAssumption DEF Run

\* The ancestors of a run are the least such set it is in.
LEMMA AncestorsLeast ==
  ASSUME NEW r \in Run
  PROVE  /\ r \in Ancestors[r] /\ Ancestors[r] \subseteq Run /\ Upward(Ancestors[r])
         /\ \A S \in SUBSET Run : r \in S /\ Upward(S) => Ancestors[r] \subseteq S
<1>1. Ancestors[r] = {s \in Run : \A S \in SUBSET Run : r \in S /\ Upward(S) => s \in S}
  BY DEF Ancestors, Upward
<1> HIDE DEF Ancestors
<1>2. ASSUME NEW q \in Ancestors[r], Parent[q] # 0
      PROVE  Parent[q] \in Ancestors[r]
  <2>1. q \in Run /\ Parent[q] \in Run
    BY <1>1, <1>2, ParentBelow, ApprovalBoundsAssumption DEF Run
  <2>2. ASSUME NEW S \in SUBSET Run, r \in S, Upward(S)
        PROVE  Parent[q] \in S
    BY <1>1, <1>2, <2>2 DEF Upward
  <2> QED BY <1>1, <2>1, <2>2
<1>3. Upward(Ancestors[r])
  BY <1>2 DEF Upward
<1> QED BY <1>1, <1>3

\* They are the run and the ancestors of its parent.
LEMMA AncestorsAbove ==
  ASSUME NEW r \in Run
  PROVE  /\ \A s \in Ancestors[r] : Ancestors[s] \subseteq Ancestors[r]
         /\ Parent[r] = 0 => Ancestors[r] = {r}
         /\ Parent[r] # 0 => Parent[r] \in Run /\ Ancestors[r] = {r} \cup Ancestors[Parent[r]]
<1>1. \A s \in Ancestors[r] : Ancestors[s] \subseteq Ancestors[r]
  BY AncestorsLeast
<1>2. CASE Parent[r] = 0
  <2>1. {r} \in SUBSET Run /\ Upward({r})
    BY <1>2 DEF Upward
  <2> QED BY <1>1, <1>2, <2>1, AncestorsLeast
<1>3. CASE Parent[r] # 0
  <2>1. Parent[r] \in Run
    BY <1>3, ParentBelow, ApprovalBoundsAssumption DEF Run
  <2> DEFINE S == {r} \cup Ancestors[Parent[r]]
  <2>2. S \in SUBSET Run /\ r \in S /\ Upward(S)
    BY <2>1, AncestorsLeast DEF Upward
  <2>3. Ancestors[r] \subseteq S
    BY <2>2, AncestorsLeast
  <2>4. Parent[r] \in Ancestors[r]
    BY <1>3, AncestorsLeast DEF Upward
  <2> QED BY <1>1, <1>3, <2>1, <2>3, <2>4, AncestorsLeast
<1> QED BY <1>1, <1>2, <1>3

\* Sets of runs have a first and a last.
LEMMA FirstRun ==
  ASSUME NEW S \in SUBSET Run, S # {}
  PROVE  \E m \in S : \A k \in S : ~(k < m)
<1>1. S \subseteq Nat
  BY ApprovalBoundsAssumption DEF Run
<1>2. \E m \in S : \A k \in S : <<k, m>> \notin OpToRel(<, Nat)
  BY <1>1, NatLessThanWellFounded, WFMin
<1> QED BY <1>1, <1>2 DEF OpToRel

LEMMA LastRun ==
  ASSUME NEW S \in SUBSET Run, S # {}
  PROVE  \E m \in S : \A k \in S : ~(m < k)
<1> DEFINE Flip(k) == MaxRuns + 1 - k
           T == {Flip(k) : k \in S}
<1>1. \A k \in Run : k \in Nat /\ Flip(k) \in Run /\ Flip(Flip(k)) = k
  BY ApprovalBoundsAssumption DEF Run
<1>2. PICK m \in T : \A k \in T : ~(k < m)
  <2>1. T \in SUBSET Run /\ T # {}
    BY <1>1
  <2> HIDE DEF T
  <2> QED BY <2>1, FirstRun
<1>3. PICK j \in S : m = Flip(j)
  OBVIOUS
<1>4. ASSUME NEW k \in S
      PROVE  ~(j < k)
  <2>1. ~(Flip(k) < Flip(j))
    BY <1>2, <1>3
  <2> QED BY <1>1, <2>1, ApprovalBoundsAssumption
<1> QED BY <1>4

\* A lineage has one root, and all its runs know it.
LEMMA OneRoot ==
  ASSUME NEW r \in Run, NEW u \in Ancestors[r], NEW v \in Ancestors[r], Parent[u] = 0, Parent[v] = 0
  PROVE  u = v
<1> DEFINE S == {q \in Ancestors[r] : v \in Ancestors[q]}
<1>1. ASSUME NEW q \in S, Parent[q] # 0
      PROVE  Parent[q] \in S
  BY <1>1, AncestorsLeast, AncestorsAbove DEF Upward
<1>2. S \in SUBSET Run /\ r \in S /\ Upward(S)
  BY <1>1, AncestorsLeast DEF Upward
<1>3. u \in S
  BY <1>2, AncestorsLeast
<1> QED BY <1>3, AncestorsLeast, AncestorsAbove

LEMMA TreeIsRoot ==
  ASSUME NEW r \in Run
  PROVE  Tree(r) \in Roots /\ Tree(r) \in Ancestors[r] /\ Tree(r) \in Run
<1>1. PICK m \in Ancestors[r] : \A k \in Ancestors[r] : ~(k < m)
  BY AncestorsLeast, FirstRun
<1>2. Parent[m] = 0
  BY <1>1, AncestorsLeast, ParentBelow DEF Upward
<1>3. Tree(r) \in Ancestors[r] /\ Parent[Tree(r)] = 0
  BY <1>2 DEF Tree
<1> QED BY <1>3, AncestorsLeast DEF Roots

LEMMA SameTree ==
  ASSUME NEW r \in Run
  PROVE  /\ \A s \in Ancestors[r] : Tree(s) = Tree(r)
         /\ Parent[r] # 0 => Tree(Parent[r]) = Tree(r)
         /\ r \in Roots => Tree(r) = r
<1>1. ASSUME NEW s \in Ancestors[r]
      PROVE  Tree(s) = Tree(r)
  <2>1. s \in Run
    BY AncestorsLeast
  <2>2. Tree(s) \in Roots /\ Tree(s) \in Ancestors[r] /\ Tree(r) \in Roots /\ Tree(r) \in Ancestors[r]
    BY <2>1, TreeIsRoot, AncestorsAbove
  <2> QED BY <2>2, OneRoot DEF Roots
<1>2. Parent[r] # 0 => Parent[r] \in Ancestors[r]
  BY AncestorsLeast DEF Upward
<1>3. r \in Roots => Tree(r) \in {r}
  BY TreeIsRoot, AncestorsAbove DEF Roots
<1> QED BY <1>1, <1>2, <1>3

\* What was dispatched for a run is not a root.
LEMMA DescendantsBelow ==
  ASSUME NEW r \in Run, NEW s \in Descendants(r)
  PROVE  s \in Run /\ s \notin Roots /\ Tree(s) = Tree(r)
<1>1. s \in Run /\ s # r /\ r \in Ancestors[s]
  BY DEF Descendants
<1> QED BY <1>1, AncestorsAbove, SameTree DEF Roots

\* A lineage is a chain: a run is dispatched for another one when no other is.
Chain == \A r, s \in Run : Parent[r] = Parent[s] /\ Parent[r] # 0 => r = s

\* Then of two of its runs one is above the other.
LEMMA ChainCompares ==
  ASSUME Chain, NEW r \in Run, NEW s \in Run, Tree(r) = Tree(s)
  PROVE  r = s \/ r \in Descendants(s) \/ s \in Descendants(r)
<1> DEFINE Common == Ancestors[r] \cap Ancestors[s]
<1>1. Common \in SUBSET Run /\ Common # {}
  BY AncestorsLeast, TreeIsRoot
<1>2. PICK m \in Common : \A k \in Common : ~(m < k)
  <2> HIDE DEF Common
  <2> QED BY <1>1, LastRun
<1>3. ASSUME NEW x \in Run, m \in Ancestors[x], m # x
      PROVE  \E q \in Ancestors[x] : Parent[q] = m
  <2>1. SUFFICES ASSUME \A q \in Ancestors[x] : Parent[q] # m
                 PROVE  FALSE
    OBVIOUS
  <2> DEFINE S == Ancestors[x] \ {m}
  <2>2. S \in SUBSET Run /\ x \in S /\ Upward(S)
    BY <1>3, <2>1, AncestorsLeast DEF Upward
  <2> QED BY <1>3, <2>2, AncestorsLeast
<1>4. m = r \/ m = s
  <2>1. SUFFICES ASSUME m # r, m # s
                 PROVE  FALSE
    OBVIOUS
  <2>2. m \in Run /\ m # 0
    BY <1>1, <1>2, ParentBelow
  <2>3. PICK p \in Ancestors[r] : Parent[p] = m
    BY <1>2, <1>3, <2>1
  <2>4. PICK q \in Ancestors[s] : Parent[q] = m
    BY <1>2, <1>3, <2>1
  <2>5. p = q /\ p \in Run
    BY <2>2, <2>3, <2>4, AncestorsLeast DEF Chain
  <2>6. p \in Common /\ m < p
    BY <2>3, <2>4, <2>5, ParentBelow
  <2> QED BY <1>2, <2>6
<1> QED BY <1>2, <1>4 DEF Descendants

--------------------------------------------------------------------------------
(* Types.                                                                      *)

CallRecord == [pc : {"idle", "policy", "clean", "rebase", "relink", "context", "check",
                     "ahead", "head", "merge", "record", "push", "rollback", "kill", "branch",
                     "finish"},
               kind : Kinds, run : Run, path : BOOLEAN, seen : Commit, pre : Commit,
               kills : SUBSET Run, ok : BOOLEAN]
ScanRecord == [next : 0 .. MaxRuns + 1, rows : [Run -> Row], closed : SUBSET Run]

Rebases == 0 .. MaxRebases

\* Commits are closed under union, and hold pieces and merges.
LEMMA CommitTypes ==
  /\ {} \in Commit /\ Genesis \in Commit
  /\ \A a, b \in Commit : a \cup b \in Commit
  /\ \A t \in Roots, n \in 1 .. MaxCommits, g \in Rebases : {<<t, n, g>>} \in Commit
  /\ \A k \in 0 .. MaxMerges : {<<0, k, 0>>} \in Commit
BY ApprovalBoundsAssumption DEF Commit, Genesis, Piece, MergeCommit, Rebases

LEMMA RowTypes ==
  ASSUME NEW row \in Row
  PROVE  Done(row) \in Row /\ Failed(row) \in Row
BY DEF Row, Done, Failed

LEMMA RunExists == 1 \in Run
BY ApprovalBoundsAssumption DEF Run

LEMMA RestTypes == Idle \in CallRecord /\ Resting \in ScanRecord
<1>1. 1 \in Run /\ {} \in Commit /\ 0 \in 0 .. MaxRuns + 1
  BY RunExists, CommitTypes, ApprovalBoundsAssumption
<1>2. Idle \in CallRecord
  BY <1>1 DEF Idle, CallRecord, Kinds
<1>3. [stage |-> "done", term |-> "none", pending |-> FALSE, commit |-> {}] \in Row
  BY <1>1 DEF Row
<1> QED BY <1>1, <1>2, <1>3 DEF Resting, ScanRecord

\* The variables' types, one by one.
LEMMA Typed ==
  TypeOK <=> /\ run \in [Run -> Row] /\ branch \in [Roots -> Commit] /\ tree \subseteq Roots
             /\ base \in Commit /\ call \in [Calls -> CallRecord] /\ scan \in ScanRecord
             /\ made \in [Roots -> 0 .. MaxCommits] /\ rebased \in [Roots -> Rebases]
             /\ merges \in 0 .. MaxMerges /\ crashes \in 0 .. MaxCrashes
BY DEF TypeOK, CallRecord, ScanRecord, Rebases

\* ... and after a step.
LEMMA TypedAfter ==
  ASSUME /\ run' \in [Run -> Row] /\ branch' \in [Roots -> Commit] /\ tree' \subseteq Roots
         /\ base' \in Commit /\ call' \in [Calls -> CallRecord] /\ scan' \in ScanRecord
         /\ made' \in [Roots -> 0 .. MaxCommits] /\ rebased' \in [Roots -> Rebases]
         /\ merges' \in 0 .. MaxMerges /\ crashes' \in 0 .. MaxCrashes
  PROVE  TypeOK'
BY DEF TypeOK, CallRecord, ScanRecord, Rebases

LEMMA TypeInit == Init => TypeOK
<1>1. SUFFICES ASSUME Init PROVE TypeOK
  OBVIOUS
<1>2. run \in [Run -> Row]
  <2>1. PICK asked \in SUBSET Run :
          run = [r \in Run |->
                   LET waits == Descendants(r) # {} /\ r \notin asked
                       spent == Parent[r] # 0 /\ Parent[r] \in asked
                   IN  [stage |-> IF r \in asked \/ waits THEN "ship" ELSE "work",
                        term |-> IF spent THEN "failed" ELSE "none",
                        pending |-> r \in asked,
                        commit |-> IF r \in asked \/ waits THEN Genesis \cup {<<Tree(r), 1, 0>>} ELSE {}]]
    BY <1>1 DEF Init
  <2>2. ASSUME NEW r \in Run
        PROVE  Genesis \cup {<<Tree(r), 1, 0>>} \in Commit
    <3>1. Tree(r) \in Roots /\ 1 \in 1 .. MaxCommits /\ 0 \in Rebases
      BY TreeIsRoot, ApprovalBoundsAssumption DEF Rebases
    <3>2. {<<Tree(r), 1, 0>>} \in Commit
      BY <3>1, CommitTypes
    <3> QED BY <3>2, CommitTypes
  <2>3. ASSUME NEW r \in Run
        PROVE  run[r] \in Row
    <3> DEFINE C == IF r \in asked \/ (Descendants(r) # {} /\ r \notin asked)
                    THEN Genesis \cup {<<Tree(r), 1, 0>>} ELSE {}
               G == IF r \in asked \/ (Descendants(r) # {} /\ r \notin asked) THEN "ship" ELSE "work"
               T == IF Parent[r] # 0 /\ Parent[r] \in asked THEN "failed" ELSE "none"
               P == r \in asked
    <3>1. run[r] = [stage |-> G, term |-> T, pending |-> P, commit |-> C]
      BY <2>1
    <3>2. C \in Commit /\ G \in {"work", "ship", "done"} /\ T \in {"none", "failed"} /\ P \in BOOLEAN
      BY <2>2, CommitTypes
    <3> HIDE DEF C, G, T, P
    <3> QED BY <3>1, <3>2 DEF Row
  <2> QED BY <2>1, <2>3
<1>3. made \in [Roots -> 0 .. MaxCommits]
  BY <1>1, ApprovalBoundsAssumption DEF Init
<1>4. branch \in [Roots -> Commit]
  <2> DEFINE B(t) == Genesis \cup {<<t, n, 0>> : n \in 1 .. made[t]}
  <2>1. ASSUME NEW t \in Roots
        PROVE  B(t) \in Commit
    <3>1. made[t] \in 0 .. MaxCommits
      BY <1>3
    <3>2. \A n \in 1 .. made[t] : <<t, n, 0>> \in Piece
      BY <3>1, ApprovalBoundsAssumption DEF Piece
    <3> QED BY <3>2, CommitTypes DEF Commit
  <2>2. branch = [t \in Roots |-> branch[t]] /\ \A t \in Roots : branch[t] = B(t)
    BY <1>1 DEF Init
  <2> HIDE DEF B
  <2>3. \A t \in Roots : branch[t] \in Commit
    BY <2>1, <2>2
  <2> QED BY <2>2, <2>3
<1>5. /\ tree = Roots /\ base = Genesis /\ call = [c \in Calls |-> Idle] /\ scan = Resting
      /\ rebased = [t \in Roots |-> 0] /\ merges = 0 /\ crashes = 0
  BY <1>1 DEF Init
<1>6. /\ tree \subseteq Roots /\ base \in Commit /\ call \in [Calls -> CallRecord] /\ scan \in ScanRecord
      /\ rebased \in [Roots -> Rebases] /\ merges \in 0 .. MaxMerges /\ crashes \in 0 .. MaxCrashes
  BY <1>5, CommitTypes, RestTypes, ApprovalBoundsAssumption DEF Rebases
<1> QED BY <1>2, <1>3, <1>4, <1>6, Typed

\* A call that a step changes is another call record, its run is a run, its lineage
\* has a root.
LEMMA CallTypes ==
  ASSUME TypeOK, NEW c \in Calls
  PROVE  /\ call[c] \in CallRecord /\ call[c].run \in Run
         /\ Tree(call[c].run) \in Roots /\ Tree(call[c].run) \in Run
         /\ run[call[c].run] \in Row /\ branch[Tree(call[c].run)] \in Commit
         /\ made[Tree(call[c].run)] \in 0 .. MaxCommits /\ rebased[Tree(call[c].run)] \in Rebases
         /\ \A pc \in {"idle", "policy", "clean", "rebase", "relink", "context", "check",
                       "ahead", "head", "merge", "record", "push", "rollback", "kill", "branch",
                       "finish"} :
              [call[c] EXCEPT !.pc = pc] \in CallRecord
<1>1. call[c] \in CallRecord /\ call[c].run \in Run
  BY Typed DEF CallRecord
<1>2. Tree(call[c].run) \in Roots /\ Tree(call[c].run) \in Run
  BY <1>1, TreeIsRoot
<1>3. \A pc \in {"idle", "policy", "clean", "rebase", "relink", "context", "check",
                 "ahead", "head", "merge", "record", "push", "rollback", "kill", "branch", "finish"} :
        [call[c] EXCEPT !.pc = pc] \in CallRecord
  BY <1>1 DEF CallRecord
<1> QED BY <1>1, <1>2, <1>3, Typed

\* A call goes on, returns, starts.
LEMMA GoesTypes ==
  ASSUME TypeOK, NEW c \in Calls,
         NEW pc \in {"idle", "policy", "clean", "rebase", "relink", "context", "check",
                     "ahead", "head", "merge", "record", "push", "rollback", "kill", "branch",
                     "finish"}
  PROVE  /\ Goes(c, pc) => call' = [call EXCEPT ![c] = [call[c] EXCEPT !.pc = pc]]
         /\ Goes(c, pc) \/ Returns(c) => call' \in [Calls -> CallRecord]
<1>1. Goes(c, pc) => call' = [call EXCEPT ![c] = [call[c] EXCEPT !.pc = pc]]
  BY DEF Goes
<1> DEFINE k == [call[c] EXCEPT !.pc = pc]
<1>2. k \in CallRecord
  BY CallTypes
<1>3. call \in [Calls -> CallRecord] /\ Idle \in CallRecord
  BY RestTypes, Typed
<1> HIDE DEF k
<1>4. call' = [call EXCEPT ![c] = k] \/ call' = [call EXCEPT ![c] = Idle] => call' \in [Calls -> CallRecord]
  BY <1>2, <1>3
<1> QED BY <1>1, <1>4 DEF Returns, k

LEMMA TypeOfRuns ==
  ASSUME TypeOK, NEW r \in Run,
         Work(r) \/ AskApproval(r) \/ Conclude(r) \/ Reject(r)
  PROVE  TypeOK'
<1>1. run[r] \in Row /\ Tree(r) \in Roots /\ branch[Tree(r)] \in Commit
  BY TreeIsRoot, Typed
<1>2. CASE Work(r)
  <2> DEFINE t == Tree(r)
  <2>1. /\ made[t] \in 0 .. MaxCommits /\ made[t] < MaxCommits /\ rebased[t] \in Rebases
        /\ made' = [made EXCEPT ![t] = made[t] + 1]
        /\ branch' = [branch EXCEPT ![t] = branch[t] \cup {<<t, made[t] + 1, rebased[t]>>}]
        /\ UNCHANGED <<run, tree, base, call, scan, merges, rebased, crashes>>
    BY <1>1, <1>2, Typed DEF Work
  <2>2. made[t] + 1 \in 1 .. MaxCommits /\ made[t] + 1 \in 0 .. MaxCommits
    BY <2>1, ApprovalBoundsAssumption
  <2>3. {<<t, made[t] + 1, rebased[t]>>} \in Commit
    BY <1>1, <2>1, <2>2, CommitTypes
  <2>4. branch[t] \cup {<<t, made[t] + 1, rebased[t]>>} \in Commit
    BY <1>1, <2>3, CommitTypes
  <2> QED BY <1>1, <2>1, <2>2, <2>4, Typed, TypedAfter
<1>3. CASE AskApproval(r)
  <2>1. run' = [run EXCEPT ![r] = [run[r] EXCEPT !.stage = "ship", !.pending = TRUE, !.commit = branch[Tree(r)]]]
    BY <1>1, <1>3, Typed DEF AskApproval
  <2>2. [run[r] EXCEPT !.stage = "ship", !.pending = TRUE, !.commit = branch[Tree(r)]] \in Row
    BY <1>1 DEF Row
  <2>3. UNCHANGED <<branch, tree, base, call, scan, made, merges, rebased, crashes>>
    BY <1>3 DEF AskApproval
  <2> QED BY <2>1, <2>2, <2>3, Typed, TypedAfter
<1>4. CASE Conclude(r)
  <2> DEFINE p == Parent[r]
             R == [run EXCEPT ![r] = Done(@)]
             q == [R[p] EXCEPT !.pending = TRUE, !.commit = branch[Tree(r)]]
  <2>1. /\ p # 0 /\ run' = [R EXCEPT ![p] = q]
        /\ UNCHANGED <<branch, tree, base, call, scan, made, merges, rebased, crashes>>
    BY <1>4 DEF Conclude
  <2>2. p \in Run /\ Done(run[r]) \in Row
    BY <1>1, <2>1, ParentBelow, RowTypes, ApprovalBoundsAssumption DEF Run
  <2>3. R \in [Run -> Row]
    BY <2>2, Typed
  <2>4. R[p] \in Row
    BY <2>2, <2>3
  <2>5. q \in Row
    BY <1>1, <2>4 DEF Row
  <2> QED BY <2>1, <2>2, <2>3, <2>5, Typed, TypedAfter
<1>5. CASE Reject(r)
  <2>1. run' = [run EXCEPT ![r] = Failed(run[r])]
        /\ UNCHANGED <<branch, tree, base, call, scan, made, merges, rebased, crashes>>
    BY <1>5 DEF Reject
  <2> QED BY <1>1, <2>1, RowTypes, Typed, TypedAfter
<1> QED BY <1>2, <1>3, <1>4, <1>5

LEMMA TypeOfApprovals ==
  ASSUME TypeOK, NEW c \in Calls, NEW r \in Run,
         Approve(c, r) \/ ApproveUnattended(c, r) \/ ApproveRebase(c, r)
  PROVE  TypeOK'
<1>1. run[r].commit \in Commit
  BY Typed DEF Row
<1>2. /\ [Idle EXCEPT !.pc = "context", !.run = r, !.seen = run[r].commit] \in CallRecord
      /\ [Idle EXCEPT !.pc = "policy", !.kind = "unattended", !.run = r] \in CallRecord
      /\ [Idle EXCEPT !.pc = "rebase", !.kind = "rebase", !.run = r, !.seen = run[r].commit] \in CallRecord
  BY <1>1, RestTypes DEF CallRecord, Kinds
<1>3. UNCHANGED <<run, branch, tree, base, scan, made, merges, rebased, crashes>>
  BY DEF Approve, ApproveUnattended, ApproveRebase
<1>4. call' \in [Calls -> CallRecord]
  BY <1>2, Typed DEF Approve, ApproveUnattended, ApproveRebase
<1> QED BY <1>3, <1>4, Typed, TypedAfter

\* The row that Policy, Relink and Context write has the lineage's commit.
LEMMA Recommitted ==
  ASSUME NEW row \in Row, NEW b \in Commit
  PROVE  [row EXCEPT !.commit = b] \in Row
BY DEF Row

LEMMA TypeOfChecks ==
  ASSUME TypeOK, NEW c \in Calls,
         \/ Policy(c) \/ PolicyAllows(c) \/ PolicyStops(c) \/ Relink(c) \/ Context(c)
         \/ Check(c) \/ Ahead(c) \/ PreMergeHead(c)
  PROVE  TypeOK'
<1> DEFINE r == call[c].run
           t == Tree(r)
<1>1. /\ call[c] \in CallRecord /\ r \in Run /\ run[r] \in Row /\ run[r].commit \in Commit
      /\ branch[t] \in Commit /\ [run[r] EXCEPT !.commit = branch[t]] \in Row
  <2>1. call[c] \in CallRecord /\ r \in Run /\ run[r] \in Row /\ branch[t] \in Commit
    BY CallTypes
  <2> QED BY <2>1, Recommitted DEF Row
<1> HIDE DEF r, t
<1>2. UNCHANGED <<branch, tree, base, scan, made, merges, rebased, crashes>>
  BY DEF Policy, PolicyAllows, PolicyStops, Relink, Context, Check, Ahead, PreMergeHead
<1>3. CASE Policy(c)
  <2> DEFINE row == IF t \in tree THEN [run[r] EXCEPT !.commit = branch[t]] ELSE run[r]
  <2>1. row \in Row
    BY <1>1
  <2>2. PICK ok \in BOOLEAN : /\ run' = [run EXCEPT ![r] = row]
                              /\ call' = [call EXCEPT ![c] = [call[c] EXCEPT !.pc = "clean", !.ok = ok]]
    <3>1. PICK passed \in BOOLEAN :
            call' = [call EXCEPT ![c].pc = "clean",
                       ![c].ok = passed /\ row.stage = "ship" /\ row.pending /\ row.term = "none"
                                 /\ Barring(r) = {} /\ t \in tree]
      BY <1>3 DEF Policy, r, t
    <3>2. run' = [run EXCEPT ![r] = row]
      BY <1>3 DEF Policy, r, t
    <3> DEFINE ok == passed /\ row.stage = "ship" /\ row.pending /\ row.term = "none"
                     /\ Barring(r) = {} /\ t \in tree
    <3>3. ok \in BOOLEAN /\ call' = [call EXCEPT ![c] = [call[c] EXCEPT !.pc = "clean", !.ok = ok]]
      BY <1>1, <3>1, Typed DEF CallRecord
    <3> QED BY <3>2, <3>3
  <2>3. [call[c] EXCEPT !.pc = "clean", !.ok = ok] \in CallRecord
    BY <1>1 DEF CallRecord
  <2> HIDE DEF row
  <2> QED BY <1>2, <2>1, <2>2, <2>3, Typed, TypedAfter
<1>4. CASE PolicyAllows(c)
  <2>1. PICK again \in BOOLEAN : run' = [run EXCEPT ![r] = [run[r] EXCEPT !.pending = again]]
    BY <1>1, <1>4, Typed DEF PolicyAllows, Row, r
  <2>2. call' = [call EXCEPT ![c] = [call[c] EXCEPT !.pc = "context", !.seen = run[r].commit]]
    BY <1>4, Typed DEF PolicyAllows, r
  <2>3. [run[r] EXCEPT !.pending = again] \in Row
    BY <1>1 DEF Row
  <2>4. [call[c] EXCEPT !.pc = "context", !.seen = run[r].commit] \in CallRecord
    BY <1>1 DEF CallRecord
  <2> QED BY <1>2, <2>1, <2>2, <2>3, <2>4, Typed, TypedAfter
<1>5. CASE PolicyStops(c)
  <2>1. run' = [run EXCEPT ![r] = [run[r] EXCEPT !.pending = TRUE]] /\ Returns(c)
    BY <1>5 DEF PolicyStops, r
  <2>2. [run[r] EXCEPT !.pending = TRUE] \in Row
    BY <1>1 DEF Row
  <2>3. call' \in [Calls -> CallRecord]
    BY <2>1, RestTypes, Typed DEF Returns
  <2> QED BY <1>2, <2>1, <2>2, <2>3, Typed, TypedAfter
<1>6. CASE Relink(c)
  <2> DEFINE row == IF t \in tree THEN [run[r] EXCEPT !.commit = branch[t]] ELSE run[r]
  <2>1. row \in Row /\ row.commit \in Commit
    BY <1>1 DEF Row
  <2>2. /\ run' = [run EXCEPT ![r] = row]
        /\ \/ call' = [call EXCEPT ![c] = [call[c] EXCEPT !.pc = "context", !.seen = row.commit]]
           \/ Returns(c)
    BY <1>6, Typed DEF Relink, r, t
  <2>3. [call[c] EXCEPT !.pc = "context", !.seen = row.commit] \in CallRecord
    BY <1>1, <2>1 DEF CallRecord
  <2> HIDE DEF row
  <2>4. call' \in [Calls -> CallRecord]
    BY <2>2, <2>3, RestTypes, Typed DEF Returns
  <2> QED BY <1>2, <2>1, <2>2, <2>4, Typed, TypedAfter
<1>7. CASE Context(c)
  <2>1. \/ /\ run' = [run EXCEPT ![r] = [run[r] EXCEPT !.commit = branch[t]]]
           /\ call' = [call EXCEPT ![c] = [call[c] EXCEPT !.pc = "check", !.path = TRUE, !.seen = branch[t]]]
        \/ Goes(c, "check") /\ UNCHANGED run
    BY <1>7, Typed DEF Context, r, t
  <2>2. [call[c] EXCEPT !.pc = "check", !.path = TRUE, !.seen = branch[t]] \in CallRecord
    BY <1>1 DEF CallRecord
  <2>3. call' \in [Calls -> CallRecord]
    BY <2>1, <2>2, GoesTypes, Typed
  <2> QED BY <1>1, <1>2, <2>1, <2>3, Typed, TypedAfter
<1>8. CASE Check(c) \/ Ahead(c)
  <2>1. (Goes(c, "ahead") \/ Goes(c, "head")) /\ UNCHANGED run
    BY <1>8 DEF Check, Ahead
  <2> QED BY <1>2, <2>1, GoesTypes, Typed, TypedAfter
<1>9. CASE PreMergeHead(c)
  <2> DEFINE strict == call[c].kind = "unattended"
             pre == IF strict THEN base ELSE {}
             seen == IF strict THEN call[c].seen ELSE {}
  <2>1. call' = [call EXCEPT ![c] = [call[c] EXCEPT !.pc = "merge", !.pre = pre, !.seen = seen]] /\ UNCHANGED run
    BY <1>9, Typed DEF PreMergeHead
  <2>2. pre \in Commit /\ seen \in Commit
    BY <1>1, CommitTypes, Typed DEF CallRecord
  <2> HIDE DEF pre, seen
  <2>3. [call[c] EXCEPT !.pc = "merge", !.pre = pre, !.seen = seen] \in CallRecord
    BY <1>1, <2>2 DEF CallRecord
  <2> QED BY <1>2, <2>1, <2>3, Typed, TypedAfter
<1> QED BY <1>3, <1>4, <1>5, <1>6, <1>7, <1>8, <1>9

LEMMA FinalizesTypes ==
  ASSUME TypeOK, NEW c \in Calls, Finalizes(c)
  PROVE  /\ call' \in [Calls -> CallRecord]
         /\ call' = [call EXCEPT ![c] = [call[c] EXCEPT !.pc = "kill", !.kills = Sharing(c), !.seen = {}, !.pre = {}]]
<1>1. Sharing(c) \in SUBSET Run
  BY DEF Sharing, LineageOf
<1>2. call' = [call EXCEPT ![c] = [call[c] EXCEPT !.pc = "kill", !.kills = Sharing(c), !.seen = {}, !.pre = {}]]
  BY Typed DEF Finalizes
<1>3. [call[c] EXCEPT !.pc = "kill", !.kills = Sharing(c), !.seen = {}, !.pre = {}] \in CallRecord
  <2>1. call[c] \in CallRecord /\ {} \in Commit
    BY CallTypes, CommitTypes
  <2> QED BY <1>1, <2>1 DEF CallRecord
<1> QED BY <1>2, <1>3, Typed

LEMMA TypeOfMerge ==
  ASSUME TypeOK, NEW c \in Calls,
         \/ Rebase(c) \/ GitMerge(c) \/ Record(c) \/ PushDone(c) \/ PushFails(c) \/ Rollback(c)
         \/ RollbackFails(c) \/ GitFails(c)
  PROVE  TypeOK'
<1> DEFINE r == call[c].run
           t == Tree(r)
<1>1. /\ call[c] \in CallRecord /\ r \in Run /\ run[r] \in Row /\ t \in Roots
      /\ branch[t] \in Commit /\ made[t] \in 0 .. MaxCommits /\ rebased[t] \in Rebases
      /\ call[c].pre \in Commit /\ call[c].seen \in Commit
  <2>1. /\ call[c] \in CallRecord /\ r \in Run /\ run[r] \in Row /\ t \in Roots
        /\ branch[t] \in Commit /\ made[t] \in 0 .. MaxCommits /\ rebased[t] \in Rebases
    BY CallTypes
  <2> QED BY <2>1 DEF CallRecord
<1>2. CASE Rebase(c)
  <2> DEFINE kept == {n \in 1 .. made[t] : (\E g \in 0 .. MaxRebases : <<t, n, g>> \in branch[t])
                                           /\ ~\E g \in 0 .. MaxRebases : <<t, n, g>> \in base}
             top == {<<t, n, rebased[t] + 1>> : n \in kept}
  <2>1. /\ tree' = tree \cup {t} /\ Goes(c, "relink")
        /\ UNCHANGED <<run, base, scan, made, merges, crashes>>
        /\ \/ UNCHANGED <<branch, rebased>>
           \/ /\ rebased[t] < MaxRebases /\ rebased' = [rebased EXCEPT ![t] = rebased[t] + 1]
              /\ branch' = [branch EXCEPT ![t] = base \cup top]
    BY <1>2 DEF Rebase
  <2>2. ASSUME rebased[t] < MaxRebases
        PROVE  rebased[t] + 1 \in Rebases /\ base \cup top \in Commit
    <3>1. rebased[t] + 1 \in 0 .. MaxRebases
      BY <1>1, <2>2, ApprovalBoundsAssumption DEF Rebases
    <3>2. kept \subseteq 1 .. MaxCommits
      BY <1>1, ApprovalBoundsAssumption
    <3> HIDE DEF kept
    <3>3. top \subseteq Piece
      BY <1>1, <3>1, <3>2 DEF Piece
    <3>4. top \in Commit
      BY <3>3 DEF Commit
    <3> QED BY <3>1, <3>4, CommitTypes, Typed DEF Rebases
  <2> HIDE DEF top, t
  <2>3. branch' \in [Roots -> Commit] /\ rebased' \in [Roots -> Rebases]
    BY <2>1, <2>2, Typed
  <2> QED BY <1>1, <2>1, <2>3, GoesTypes, Typed, TypedAfter
<1>3. CASE GitMerge(c)
  <2>1. /\ \/ UNCHANGED <<base, merges>>
           \/ /\ merges < MaxMerges /\ merges' = merges + 1
              /\ base' = base \cup branch[t] \cup {<<0, merges + 1, 0>>}
        /\ Goes(c, "record") /\ UNCHANGED <<run, branch, tree, scan, made, rebased, crashes>>
    BY <1>3 DEF GitMerge
  <2>2. merges < MaxMerges => merges + 1 \in 0 .. MaxMerges
    BY Typed, ApprovalBoundsAssumption
  <2>3. merges < MaxMerges => base \cup branch[t] \cup {<<0, merges + 1, 0>>} \in Commit
    BY <1>1, <2>2, CommitTypes, Typed
  <2> QED BY <2>1, <2>2, <2>3, GoesTypes, Typed, TypedAfter
<1>4. CASE Record(c)
  <2>1. /\ run' = run \/ run' = [run EXCEPT ![r] = [run[r] EXCEPT !.commit = base]]
        /\ Goes(c, "push") \/ Finalizes(c)
        /\ UNCHANGED <<branch, tree, base, scan, made, merges, rebased, crashes>>
    BY <1>4 DEF Record
  <2>2. [run[r] EXCEPT !.commit = base] \in Row
    BY <1>1, Recommitted, Typed
  <2>3. run' \in [Run -> Row]
    BY <1>1, <2>1, <2>2, Typed
  <2>4. call' \in [Calls -> CallRecord]
    BY <2>1, GoesTypes, FinalizesTypes
  <2> QED BY <2>1, <2>3, <2>4, Typed, TypedAfter
<1>5. CASE PushDone(c)
  BY <1>5, FinalizesTypes, Typed, TypedAfter DEF PushDone
<1>6. CASE PushFails(c)
  BY <1>6, GoesTypes, Typed, TypedAfter DEF PushFails
<1>7. CASE Rollback(c)
  <2>1. /\ run' = [run EXCEPT ![r] = [run[r] EXCEPT !.commit = call[c].seen]]
        /\ Returns(c) /\ base' = call[c].pre
        /\ UNCHANGED <<branch, tree, scan, made, merges, rebased, crashes>>
    BY <1>7 DEF Rollback
  <2>2. [run[r] EXCEPT !.commit = call[c].seen] \in Row
    BY <1>1, Recommitted
  <2> QED BY <1>1, <2>1, <2>2, GoesTypes, Typed, TypedAfter
<1>8. CASE GitFails(c)
  BY <1>8, GoesTypes, Typed, TypedAfter DEF GitFails
<1>9. CASE RollbackFails(c)
  <2>1. /\ crashes < MaxCrashes /\ crashes' = crashes + 1 /\ Returns(c)
        /\ UNCHANGED <<run, branch, tree, base, scan, made, merges, rebased>>
    BY <1>9 DEF RollbackFails
  <2>2. crashes' \in 0 .. MaxCrashes
    BY <2>1, Typed, ApprovalBoundsAssumption
  <2> QED BY <2>1, <2>2, GoesTypes, Typed, TypedAfter
<1> QED BY <1>2, <1>3, <1>4, <1>5, <1>6, <1>7, <1>8, <1>9

LEMMA TypeOfFinalize ==
  ASSUME TypeOK, NEW c \in Calls, Kill(c) \/ RemoveTree(c) \/ DropBranch(c) \/ Finish(c)
  PROVE  TypeOK'
<1>1. CASE Kill(c)
  <2>1. PICK s \in call[c].kills : /\ run' = [run EXCEPT ![s] = Done(run[s])]
                                   /\ call' = [call EXCEPT ![c] = [call[c] EXCEPT !.kills = @ \ {s}]]
    BY <1>1 DEF Kill
  <2>2. call[c] \in CallRecord
    BY CallTypes
  <2>3. s \in Run /\ [call[c] EXCEPT !.kills = @ \ {s}] \in CallRecord
    BY <2>2 DEF CallRecord
  <2>4. Done(run[s]) \in Row
    BY <2>3, RowTypes, Typed
  <2>5. UNCHANGED <<branch, tree, base, scan, made, merges, rebased, crashes>>
    BY <1>1 DEF Kill
  <2> QED BY <2>1, <2>3, <2>4, <2>5, Typed, TypedAfter
<1>2. CASE RemoveTree(c)
  <2>1. /\ tree' \subseteq tree /\ Goes(c, "branch")
        /\ UNCHANGED <<run, branch, base, scan, made, merges, rebased, crashes>>
    BY <1>2 DEF RemoveTree
  <2> QED BY <2>1, GoesTypes, Typed, TypedAfter
<1>3. CASE Finish(c)
  <2> DEFINE r == call[c].run
             R == [run EXCEPT ![r] = Done(@)]
  <2>1. /\ Returns(c)
        /\ UNCHANGED <<branch, tree, base, scan, made, merges, rebased, crashes>>
        /\ run' = [s \in Run |->
                     IF s \in Ancestors[r] /\ Open(R[s]) THEN Done(R[s])
                     ELSE IF s \in Ancestors[r] /\ R[s].stage = "done" THEN [R[s] EXCEPT !.pending = FALSE]
                     ELSE R[s]]
    BY <1>3 DEF Finish
  <2>2. R \in [Run -> Row]
    BY CallTypes, RowTypes, Typed
  <2> HIDE DEF R
  <2>3. ASSUME NEW s \in Run
        PROVE  R[s] \in Row /\ Done(R[s]) \in Row /\ [R[s] EXCEPT !.pending = FALSE] \in Row
    <3>1. R[s] \in Row
      BY <2>2
    <3>2. [R[s] EXCEPT !.pending = FALSE] \in Row
      BY <3>1 DEF Row
    <3> QED BY <3>1, <3>2, RowTypes
  <2>4. run' \in [Run -> Row]
    BY <2>1, <2>3
  <2>5. call' \in [Calls -> CallRecord]
    BY <2>1, GoesTypes
  <2> QED BY <2>1, <2>4, <2>5, Typed, TypedAfter
<1>4. CASE DropBranch(c)
  <2>1. /\ branch' \in {branch, [branch EXCEPT ![Tree(call[c].run)] = {}]} /\ Goes(c, "finish")
        /\ UNCHANGED <<run, tree, base, scan, made, merges, rebased, crashes>>
    BY <1>4 DEF DropBranch
  <2>2. branch' \in [Roots -> Commit] /\ call' \in [Calls -> CallRecord]
    BY <2>1, CommitTypes, GoesTypes, Typed
  <2> QED BY <2>1, <2>2, Typed, TypedAfter
<1> QED BY <1>1, <1>2, <1>3, <1>4

LEMMA TypeOfScan ==
  ASSUME TypeOK, StartScan \/ ScanRun \/ EndScan \/ Crash
  PROVE  TypeOK'
<1>1. CASE StartScan
  <2>1. /\ scan' = [next |-> 1, rows |-> run, closed |-> {}]
        /\ run' = [r \in Run |-> IF run[r].pending /\ run[r].stage = "done" THEN [run[r] EXCEPT !.pending = FALSE] ELSE run[r]]
        /\ UNCHANGED <<branch, tree, base, call, made, merges, rebased, crashes>>
    BY <1>1 DEF StartScan
  <2>2. \A r \in Run : run[r] \in Row /\ [run[r] EXCEPT !.pending = FALSE] \in Row
    BY Typed DEF Row
  <2>3. run' \in [Run -> Row]
    BY <2>1, <2>2
  <2>4. scan' \in ScanRecord
    BY <2>1, Typed, ApprovalBoundsAssumption DEF ScanRecord
  <2> QED BY <2>1, <2>3, <2>4, Typed, TypedAfter
<1>2. CASE ScanRun
  <2> DEFINE r == scan.next
  <2>1. /\ r \in Run
        /\ UNCHANGED <<branch, tree, base, call, made, merges, rebased, crashes>>
        /\ \/ /\ run' = [s \in Run |-> IF s = r \/ (s \in Ancestors[r] /\ Live(s)) THEN Done(run[s]) ELSE run[s]]
              /\ scan' = [scan EXCEPT !.next = r + 1, !.closed = @ \cup {r}]
           \/ scan' = [scan EXCEPT !.next = r + 1] /\ UNCHANGED run
    BY <1>2 DEF ScanRun
  <2>2. \A s \in Run : run[s] \in Row /\ Done(run[s]) \in Row
    BY RowTypes, Typed
  <2>3. run' \in [Run -> Row]
    BY <2>1, <2>2, Typed
  <2>4. scan \in ScanRecord /\ r + 1 \in 0 .. MaxRuns + 1
    BY <2>1, Typed, ApprovalBoundsAssumption DEF Run
  <2>5. scan' \in ScanRecord
    <3>1. [scan EXCEPT !.next = r + 1] \in ScanRecord
      BY <2>4 DEF ScanRecord
    <3>2. scan.closed \cup {r} \in SUBSET Run
      BY <2>1, <2>4 DEF ScanRecord
    <3>3. [scan EXCEPT !.next = r + 1, !.closed = @ \cup {r}] \in ScanRecord
      BY <2>4, <3>2 DEF ScanRecord
    <3> QED BY <2>1, <3>1, <3>3
  <2> QED BY <2>1, <2>3, <2>5, Typed, TypedAfter
<1>3. CASE EndScan
  <2> DEFINE rows == scan.rows
             asks == {r \in Run : Open(rows[r]) /\ rows[r].stage = "ship" /\ rows[r].pending}
             below == (UNION {OpenBelow(r, rows) : r \in asks}) \ scan.closed
             still == {r \in Run \ (scan.closed \cup below) :
                         /\ Open(rows[r]) /\ ~rows[r].pending /\ rows[r].stage = "ship"
                         /\ OpenBelow(r, rows) = {}}
  <2>1. PICK orphans \in SUBSET still :
          run' = [r \in Run |-> IF r \in below THEN Done(run[r])
                                ELSE IF r \in orphans THEN Failed(run[r]) ELSE run[r]]
    BY <1>3 DEF EndScan
  <2> HIDE DEF below, still
  <2>2. \A s \in Run : run[s] \in Row /\ Done(run[s]) \in Row /\ Failed(run[s]) \in Row
    BY RowTypes, Typed
  <2>3. run' \in [Run -> Row]
    BY <2>1, <2>2
  <2>4. scan' = Resting /\ UNCHANGED <<branch, tree, base, call, made, merges, rebased, crashes>>
    BY <1>3 DEF EndScan
  <2> QED BY <2>3, <2>4, RestTypes, Typed, TypedAfter
<1>4. CASE Crash
  <2>1. /\ crashes < MaxCrashes /\ crashes' = crashes + 1 /\ call' = [c \in Calls |-> Idle] /\ scan' = Resting
        /\ UNCHANGED <<run, branch, tree, base, made, merges, rebased>>
    BY <1>4 DEF Crash
  <2>2. crashes' \in 0 .. MaxCrashes
    BY <2>1, Typed, ApprovalBoundsAssumption
  <2> QED BY <2>1, <2>2, RestTypes, Typed, TypedAfter
<1> QED BY <1>1, <1>2, <1>3, <1>4

LEMMA TypeStep ==
  ASSUME TypeOK, [Next]_vars
  PROVE  TypeOK'
<1>1. CASE \E r \in Run : Work(r) \/ AskApproval(r) \/ Conclude(r) \/ Reject(r)
  BY <1>1, TypeOfRuns
<1>2. CASE \E c \in Calls, r \in Run : Approve(c, r) \/ ApproveUnattended(c, r) \/ ApproveRebase(c, r)
  BY <1>2, TypeOfApprovals
<1>3. CASE \E c \in Calls : Steps(c)
  BY <1>3, TypeOfChecks, TypeOfMerge, TypeOfFinalize DEF Steps
<1>4. CASE StartScan \/ ScanRun \/ EndScan \/ Crash
  BY <1>4, TypeOfScan
<1>5. CASE UNCHANGED vars
  BY <1>5, Typed, TypedAfter DEF vars
<1> QED BY <1>1, <1>2, <1>3, <1>4, <1>5 DEF Next, Operator

\* The rows, branches, calls and passes of every reachable state have their types.
\* (The rows of runs, and what approveRun() and reconcileSinglePass() suspend.)
THEOREM TypeCorrect == Spec => []TypeOK
<1> QED BY TypeInit, TypeStep, PTL DEF Spec

--------------------------------------------------------------------------------
(* What is kept, on the way to NoWorkLost and DoneMeansLanded.                 *)

\* A commit has the n-th piece of a lineage, some piece of it, all of its work.
Has(b, t, n) == \E g \in Rebases : <<t, n, g>> \in b
Touched(b, t) == \E n \in 1 .. MaxCommits : Has(b, t, n)
Names(b, t) == b = {} \/ Touched(b, t)
LandedOn(b, md, t) == md[t] > 0 /\ \A n \in 1 .. md[t] : Has(b, t, n)

\* No run of a lineage is at work.
AtRest(rn, t) == \A s \in LineageOf(t) : Open(rn[s]) => rn[s].stage # "work"
IsDone(row) == row.stage = "done" /\ row.term = "none"

\* A base branch b is sound beside the branches: the two have all that was made; a
\* branch has another lineage's work only from the base; a lineage of which the base has
\* anything is there with all of it and at rest; and so is that of a root that is done.
SoundFor(b, br, md, rn, t) ==
  /\ \A n \in 1 .. md[t] : Has(b, t, n) \/ Has(br[t], t, n)
  /\ \A u \in Roots \ {t}, n \in 1 .. MaxCommits, g \in Rebases : <<u, n, g>> \in br[t] => <<u, n, g>> \in b
  /\ Touched(b, t) => LandedOn(b, md, t) /\ AtRest(rn, t)
  /\ IsDone(rn[t]) => LandedOn(b, md, t)
SoundOn(b, br, md, rn) == \A t \in Roots : SoundFor(b, br, md, rn, t)

\* A branch is deleted only after work on it, and has some of it until then.
BranchOK(b, md, t) == (b = {} => md[t] > 0) /\ (md[t] > 0 => Names(b, t))

\* A run that others were dispatched for is past its work, and so is one that asks; past
\* its work there is some, and the recorded commit is of it.
RowOK(row, r, md) ==
  /\ Descendants(r) # {} => row.stage # "work"
  /\ row.stage # "work" => md[Tree(r)] > 0
  /\ row.pending => row.stage # "work"
  /\ Names(row.commit, Tree(r))

Merging == {"record", "push", "rollback", "kill", "branch", "finish"}
Cleared(k) == k.pc \in {"context", "check", "ahead", "head", "merge"} \cup Merging \/ (k.pc = "clean" /\ k.ok)

\* A call that was cleared has a lineage at rest, and one that has merged has it on the
\* base branch.
CallOK(k, b, rn) ==
  /\ rn[k.run].stage # "work"
  /\ Names(k.seen, Tree(k.run))
  /\ Cleared(k) => AtRest(rn, Tree(k.run)) /\ \A s \in Descendants(k.run) : ~Open(rn[s])
  /\ k.pc \in Merging => Touched(b, Tree(k.run))
  /\ k.kills \subseteq LineageOf(Tree(k.run))
  /\ k.pc \in {"push", "rollback"} => Push
  /\ k.pc \in {"policy", "clean", "rollback"} => k.kind = "unattended"

\* A call that may reset the base branch to the head it read before its merge.
Guarded(k) == Push /\ k.kind = "unattended" /\ k.pc \in {"merge", "record", "push", "rollback"}

Active(c) == call[c].pc # "idle"
Alone ==
  "unattended" \notin Overlap =>
    \A c \in Calls : Active(c) /\ call[c].kind = "unattended" =>
      scan.next = 0 /\ \A d \in Calls : Active(d) => d = c

Kept ==
  /\ TypeOK /\ Alone
  /\ \A r \in Run : RowOK(run[r], r, made)
  /\ scan.next # 0 => \A r \in Run : RowOK(scan.rows[r], r, made)
  /\ \A t \in Roots : BranchOK(branch[t], made, t)
  /\ SoundOn(base, branch, made, run)
  /\ \A c \in Calls : Active(c) => CallOK(call[c], base, run)
  /\ \A c \in Calls : Guarded(call[c]) => SoundOn(call[c].pre, branch, made, run)

\* What may be rolled back has the checkout for itself.
RollbackAlone == ~Push \/ "unattended" \notin Overlap

--------------------------------------------------------------------------------
(* What steps do to the parts.                                                 *)

\* Runs are never opened, nor put to work, again.
Falls(rn, rn2) ==
  \A r \in Run : /\ Open(rn2[r]) => Open(rn[r])
                 /\ rn2[r].stage = "work" => rn[r].stage = "work"

LEMMA LineageRuns == \A t : LineageOf(t) \subseteq Run
BY DEF LineageOf

LEMMA RestFalls ==
  ASSUME NEW rn, NEW rn2, Falls(rn, rn2), NEW t, AtRest(rn, t)
  PROVE  AtRest(rn2, t)
BY LineageRuns DEF AtRest, Falls

LEMMA SoundFalls ==
  ASSUME NEW b, NEW br, NEW md, NEW rn, NEW rn2, SoundOn(b, br, md, rn), Falls(rn, rn2),
         \A t \in Roots : IsDone(rn2[t]) => IsDone(rn[t]) \/ LandedOn(b, md, t)
  PROVE  SoundOn(b, br, md, rn2)
BY RestFalls DEF SoundOn, SoundFor

LEMMA CallFalls ==
  ASSUME NEW k, NEW b, NEW b2, NEW rn, NEW rn2, CallOK(k, b, rn), Falls(rn, rn2), b \subseteq b2, k.run \in Run
  PROVE  CallOK(k, b2, rn2)
<1>1. rn2[k.run].stage # "work"
  BY DEF CallOK, Falls
<1>2. Cleared(k) => AtRest(rn2, Tree(k.run)) /\ \A s \in Descendants(k.run) : ~Open(rn2[s])
  BY RestFalls, DescendantsBelow DEF CallOK, Falls
<1>3. k.pc \in Merging => Touched(b2, Tree(k.run))
  BY DEF CallOK, Touched, Has
<1> QED BY <1>1, <1>2, <1>3 DEF CallOK

\* Rows that end.
LEMMA RowsEnd ==
  ASSUME NEW row, NEW r \in Run, NEW md, row \in Row, RowOK(row, r, md)
  PROVE  /\ md[Tree(r)] > 0 => RowOK(Done(row), r, md)
         /\ RowOK(Failed(row), r, md)
         /\ ~Open(Done(row)) /\ ~Open(Failed(row)) /\ Done(row).stage = "done"
         /\ IsDone(Done(row)) /\ ~IsDone(Failed(row)) /\ Failed(row).stage = row.stage
         /\ Done(row).commit = row.commit
BY DEF Row, RowOK, Done, Failed, Open, IsDone

\* All of a lineage's work is some of it.
LEMMA LandedTouches ==
  ASSUME NEW b, NEW md \in [Roots -> 0 .. MaxCommits], NEW t \in Roots, LandedOn(b, md, t)
  PROVE  Touched(b, t)
<1>1. 1 \in 1 .. md[t] /\ 1 \in 1 .. MaxCommits
  BY ApprovalBoundsAssumption DEF LandedOn
<1> QED BY <1>1 DEF LandedOn, Touched

\* With a rollback possible, its call is alone.
LEMMA NobodyGuarded ==
  ASSUME Kept, RollbackAlone
  PROVE  /\ scan.next # 0 => \A d \in Calls : ~Guarded(call[d])
         /\ \A c, d \in Calls : Guarded(call[d]) /\ Active(c) => d = c
BY DEF Kept, RollbackAlone, Guarded, Alone, Active

\* A step that starts nothing leaves what is alone alone.
LEMMA StillAlone ==
  ASSUME Alone,
         \A c \in Calls : \/ call'[c] = call[c] \/ call'[c].pc = "idle"
                          \/ Active(c) /\ call'[c].kind = call[c].kind,
         scan'.next # 0 => scan.next # 0
  PROVE  Alone'
<1>1. \A c \in Calls : call'[c].pc # "idle" => Active(c) /\ call'[c].kind = call[c].kind
  BY DEF Active
<1> QED BY <1>1 DEF Alone, Active

\* A step that merges nothing, deletes nothing and commits nothing.
LEMMA RowStep ==
  ASSUME Kept, TypeOK', Alone', branch' = branch, base' = base, made' = made, Falls(run, run'),
         \A r \in Run : RowOK(run'[r], r, made),
         \A t \in Roots : IsDone(run'[t]) =>
           IsDone(run[t]) \/ (LandedOn(base, made, t) /\ \A c \in Calls : ~Guarded(call[c])),
         scan'.next # 0 => \A r \in Run : RowOK(scan'.rows[r], r, made),
         \A c \in Calls :
           \/ call'[c] = call[c] \/ call'[c].pc = "idle"
           \/ /\ CallOK(call'[c], base, run')
              /\ Guarded(call'[c]) => (Guarded(call[c]) /\ call'[c].pre = call[c].pre) \/ call'[c].pre = base
  PROVE  Kept' /\ Falls(run, run')
<1>1. SoundOn(base, branch, made, run')
  BY SoundFalls DEF Kept
<1>2. ASSUME NEW c \in Calls, Guarded(call[c])
      PROVE  SoundOn(call[c].pre, branch, made, run')
  BY <1>2, SoundFalls DEF Kept
<1>3. ASSUME NEW c \in Calls, Guarded(call'[c])
      PROVE  SoundOn(call'[c].pre, branch, made, run')
  BY <1>1, <1>2, <1>3 DEF Guarded
<1>4. ASSUME NEW c \in Calls, call'[c].pc # "idle"
      PROVE  CallOK(call'[c], base, run')
  <2>1. CASE call'[c] = call[c]
    BY <1>4, <2>1, CallFalls, CallTypes DEF Kept, Active
  <2>2. CASE call'[c] # call[c]
    BY <1>4, <2>2
  <2> QED BY <2>1, <2>2
<1> QED BY <1>1, <1>3, <1>4 DEF Kept, Active

\* More of a base branch has no less.
LEMMA MoreLanded ==
  ASSUME NEW b, NEW b2, b \subseteq b2, NEW t
  PROVE  /\ \A n : Has(b, t, n) => Has(b2, t, n)
         /\ Touched(b, t) => Touched(b2, t)
         /\ \A md : LandedOn(b, md, t) => LandedOn(b2, md, t)
BY DEF Has, Touched, LandedOn

\* A session at work commits: the base has nothing of its lineage yet.
LEMMA SoundAfterWork ==
  ASSUME NEW b, NEW br \in [Roots -> Commit], NEW md \in [Roots -> 0 .. MaxCommits], NEW rn,
         SoundOn(b, br, md, rn), NEW t \in Roots, ~AtRest(rn, t), NEW g \in Rebases
  PROVE  SoundOn(b, [br EXCEPT ![t] = br[t] \cup {<<t, md[t] + 1, g>>}], [md EXCEPT ![t] = md[t] + 1], rn)
<1> DEFINE br2 == [br EXCEPT ![t] = br[t] \cup {<<t, md[t] + 1, g>>}]
           md2 == [md EXCEPT ![t] = md[t] + 1]
<1>1. /\ br2[t] = br[t] \cup {<<t, md[t] + 1, g>>} /\ md2[t] = md[t] + 1 /\ md[t] \in Nat
      /\ \A u \in Roots : u # t => br2[u] = br[u] /\ md2[u] = md[u]
  BY ApprovalBoundsAssumption
<1> HIDE DEF br2, md2
<1>2. ~Touched(b, t) /\ ~IsDone(rn[t])
  BY LandedTouches DEF SoundOn, SoundFor
<1>3. SoundFor(b, br2, md2, rn, t)
  <2>1. ASSUME NEW n \in 1 .. md2[t]
        PROVE  Has(b, t, n) \/ Has(br2[t], t, n)
    <3>1. CASE n = md[t] + 1
      BY <1>1, <3>1 DEF Has
    <3>2. CASE n # md[t] + 1
      <4>1. n \in 1 .. md[t]
        BY <1>1, <3>2
      <4>2. Has(b, t, n) \/ Has(br[t], t, n)
        BY <4>1 DEF SoundOn, SoundFor
      <4> QED BY <1>1, <4>2 DEF Has
    <3> QED BY <3>1, <3>2
  <2>2. ASSUME NEW u \in Roots \ {t}, NEW n \in 1 .. MaxCommits, NEW h \in Rebases, <<u, n, h>> \in br2[t]
        PROVE  <<u, n, h>> \in b
    <3>1. <<u, n, h>> # <<t, md[t] + 1, g>>
      OBVIOUS
    <3> QED BY <1>1, <2>2, <3>1 DEF SoundOn, SoundFor
  <2> QED BY <1>2, <2>1, <2>2 DEF SoundFor
<1>4. ASSUME NEW u \in Roots, u # t
      PROVE  SoundFor(b, br2, md2, rn, u)
  BY <1>1, <1>4 DEF SoundOn, SoundFor, LandedOn
<1>5. SoundOn(b, br2, md2, rn)
  BY <1>3, <1>4 DEF SoundOn
<1> QED BY <1>5 DEF br2, md2

\* A merge brings the branch and a merge commit.
Merged(b, bt, b2) == b \cup bt \subseteq b2 /\ \E k : b2 \subseteq b \cup bt \cup {<<0, k, 0>>}

\* The merge of a branch brings all of its lineage's work, and nobody else's.
LEMMA SoundAfterMerge ==
  ASSUME NEW b, NEW br, NEW md \in [Roots -> 0 .. MaxCommits], NEW rn, SoundOn(b, br, md, rn),
         NEW t \in Roots, AtRest(rn, t), md[t] > 0,
         NEW b2, Merged(b, br[t], b2)
  PROVE  /\ SoundOn(b2, br, md, rn) /\ Touched(b2, t)
         /\ \A u \in Roots : Touched(b2, u) => u = t \/ Touched(b, u)
<1> PICK k : b \cup br[t] \subseteq b2 /\ b2 \subseteq b \cup br[t] \cup {<<0, k, 0>>}
  BY DEF Merged
<1>1. b \subseteq b2
  OBVIOUS
<1>2. LandedOn(b2, md, t)
  <2>1. ASSUME NEW n \in 1 .. md[t]
        PROVE  Has(b2, t, n)
    <3>1. Has(b, t, n) \/ Has(br[t], t, n)
      BY DEF SoundOn, SoundFor
    <3> QED BY <3>1 DEF Has
  <2> QED BY <2>1 DEF LandedOn
<1>3. ASSUME NEW u \in Roots
      PROVE  SoundFor(b2, br, md, rn, u) /\ (Touched(b2, u) => u = t \/ Touched(b, u))
  <2>1. SoundFor(b, br, md, rn, u)
    BY DEF SoundOn
  <2>2. \A n \in 1 .. md[u] : Has(b2, u, n) \/ Has(br[u], u, n)
    BY <1>1, <2>1, MoreLanded DEF SoundFor
  <2>3. IsDone(rn[u]) => LandedOn(b2, md, u)
    BY <1>1, <2>1, MoreLanded DEF SoundFor
  <2>4. ASSUME Touched(b2, u), u # t
        PROVE  Touched(b, u)
    <3>1. PICK n \in 1 .. MaxCommits, g \in Rebases : <<u, n, g>> \in b2
      BY <2>4 DEF Touched, Has
    <3>2. <<u, n, g>> # <<0, k, 0>>
      BY ParentBelow DEF Roots
    <3>3. <<u, n, g>> \in b
      BY <2>4, <3>1, <3>2 DEF SoundOn, SoundFor
    <3> QED BY <3>3 DEF Touched, Has
  <2>5. Touched(b2, u) => LandedOn(b2, md, u) /\ AtRest(rn, u)
    BY <1>1, <1>2, <2>1, <2>4, MoreLanded DEF SoundFor
  <2> QED BY <1>1, <2>1, <2>2, <2>3, <2>4, <2>5 DEF SoundFor
<1> QED BY <1>2, <1>3, LandedTouches DEF SoundOn

\* A rebase keeps what the base does not have.
LEMMA SoundAfterRebase ==
  ASSUME NEW b, NEW br \in [Roots -> Commit], NEW md \in [Roots -> 0 .. MaxCommits], NEW rn,
         SoundOn(b, br, md, rn), NEW t \in Roots, md[t] > 0, NEW g \in Rebases, NEW top,
         top = {<<t, n, g>> : n \in {m \in 1 .. md[t] : Has(br[t], t, m) /\ ~Has(b, t, m)}}
  PROVE  /\ SoundOn(b, [br EXCEPT ![t] = b \cup top], md, rn)
         /\ BranchOK(b \cup top, md, t)
<1> DEFINE br2 == [br EXCEPT ![t] = b \cup top]
<1>1. br2[t] = b \cup top /\ \A u \in Roots : u # t => br2[u] = br[u]
  OBVIOUS
<1>2. \A x \in top : \E n \in 1 .. md[t] : x = <<t, n, g>>
  OBVIOUS
<1>3. \A n \in 1 .. md[t] : Has(br[t], t, n) /\ ~Has(b, t, n) => <<t, n, g>> \in top
  OBVIOUS
<1> HIDE DEF br2
<1>4. ASSUME NEW n \in 1 .. md[t]
      PROVE  Has(b, t, n) \/ Has(b \cup top, t, n)
  <2>1. Has(b, t, n) \/ Has(br[t], t, n)
    BY DEF SoundOn, SoundFor
  <2>2. <<t, n, g>> \in top => Has(b \cup top, t, n)
    BY DEF Has
  <2> QED BY <1>3, <2>1, <2>2
<1>5. SoundFor(b, br2, md, rn, t)
  <2>1. ASSUME NEW u \in Roots \ {t}, NEW n \in 1 .. MaxCommits, NEW h \in Rebases, <<u, n, h>> \in br2[t]
        PROVE  <<u, n, h>> \in b
    BY <1>1, <1>2, <2>1
  <2> QED BY <1>1, <1>4, <2>1 DEF SoundOn, SoundFor
<1>6. ASSUME NEW u \in Roots, u # t
      PROVE  SoundFor(b, br2, md, rn, u)
  BY <1>1, <1>6 DEF SoundOn, SoundFor
<1>7. SoundOn(b, br2, md, rn)
  BY <1>5, <1>6 DEF SoundOn
<1>8. Touched(b \cup top, t)
  <2>1. 1 \in 1 .. md[t] /\ 1 \in 1 .. MaxCommits
    BY ApprovalBoundsAssumption
  <2>2. Has(b \cup top, t, 1)
    BY <1>4, <2>1, MoreLanded
  <2> QED BY <2>1, <2>2 DEF Touched
<1> QED BY <1>7, <1>8 DEF br2, BranchOK, Names

\* A branch is deleted once its work has landed.
LEMMA SoundAfterDelete ==
  ASSUME NEW b, NEW br \in [Roots -> Commit], NEW md, NEW rn, SoundOn(b, br, md, rn),
         NEW t \in Roots, LandedOn(b, md, t)
  PROVE  SoundOn(b, [br EXCEPT ![t] = {}], md, rn) /\ BranchOK({}, md, t)
<1> DEFINE br2 == [br EXCEPT ![t] = {}]
<1>1. br2[t] = {} /\ \A u \in Roots : u # t => br2[u] = br[u]
  OBVIOUS
<1> HIDE DEF br2
<1>2. SoundFor(b, br2, md, rn, t)
  BY <1>1 DEF SoundOn, SoundFor, LandedOn
<1>3. \A u \in Roots : u # t => SoundFor(b, br2, md, rn, u)
  BY <1>1 DEF SoundOn, SoundFor
<1> QED BY <1>2, <1>3 DEF br2, SoundOn, BranchOK, LandedOn, Names

--------------------------------------------------------------------------------
(* Every step keeps them.                                                      *)

LEMMA KeptInit ==
  ASSUME Init
  PROVE  Kept
<1>0. TypeOK
  BY TypeInit
<1>1. PICK asked \in SUBSET Run :
        run = [r \in Run |->
                 LET waits == Descendants(r) # {} /\ r \notin asked
                     spent == Parent[r] # 0 /\ Parent[r] \in asked
                 IN  [stage |-> IF r \in asked \/ waits THEN "ship" ELSE "work",
                      term |-> IF spent THEN "failed" ELSE "none",
                      pending |-> r \in asked,
                      commit |-> IF r \in asked \/ waits THEN Genesis \cup {<<Tree(r), 1, 0>>} ELSE {}]]
  BY DEF Init
<1>2. ASSUME NEW r \in Run
      PROVE  /\ run[r].stage = IF r \in asked \/ Descendants(r) # {} THEN "ship" ELSE "work"
             /\ run[r].pending = (r \in asked)
             /\ run[r].commit = IF r \in asked \/ Descendants(r) # {}
                                THEN Genesis \cup {<<Tree(r), 1, 0>>} ELSE {}
  <2>1. run[r].stage = IF r \in asked \/ (Descendants(r) # {} /\ r \notin asked) THEN "ship" ELSE "work"
    BY <1>1
  <2>2. run[r].pending = (r \in asked)
    BY <1>1
  <2>3. run[r].commit = IF r \in asked \/ (Descendants(r) # {} /\ r \notin asked)
                        THEN Genesis \cup {<<Tree(r), 1, 0>>} ELSE {}
    BY <1>1
  <2> QED BY <2>1, <2>2, <2>3
<1>3. /\ made = [t \in Roots |-> IF run[t].stage = "ship" THEN 1 ELSE 0]
      /\ branch = [t \in Roots |-> Genesis \cup {<<t, n, 0>> : n \in 1 .. made[t]}]
      /\ base = Genesis /\ call = [c \in Calls |-> Idle] /\ scan = Resting
  BY DEF Init
<1>4. 1 \in 1 .. MaxCommits /\ 0 \in Rebases
  BY ApprovalBoundsAssumption DEF Rebases
<1>5. ASSUME NEW r \in Run
      PROVE  RowOK(run[r], r, made)
  <2>1. run[r].stage # "work" => run[Tree(r)].stage = "ship"
    <3>1. Tree(r) = r \/ r \in Descendants(Tree(r))
      BY TreeIsRoot DEF Descendants
    <3> QED BY <1>2, <3>1, TreeIsRoot
  <2>2. run[r].stage # "work" => made[Tree(r)] > 0
    BY <1>3, <2>1, TreeIsRoot
  <2>3. Names(run[r].commit, Tree(r))
    BY <1>2, <1>4 DEF Names, Touched, Has
  <2> QED BY <1>2, <2>2, <2>3 DEF RowOK
<1>6. ASSUME NEW t \in Roots
      PROVE  /\ made[t] \in {0, 1} /\ <<0, 0, 0>> \in branch[t] /\ (made[t] = 1 => <<t, 1, 0>> \in branch[t])
             /\ \A x \in branch[t] : x = <<0, 0, 0>> \/ x = <<t, 1, 0>>
             /\ run[t].stage # "done" /\ t # 0
  <2>1. made[t] \in {0, 1} /\ branch[t] = Genesis \cup {<<t, n, 0>> : n \in 1 .. made[t]}
    BY <1>3
  <2>2. \A n \in 1 .. made[t] : n = 1
    BY <2>1
  <2>3. made[t] = 1 => 1 \in 1 .. made[t]
    OBVIOUS
  <2>4. run[t].stage # "done" /\ t # 0
    BY <1>2, ParentBelow DEF Roots
  <2> QED BY <2>1, <2>2, <2>3, <2>4 DEF Genesis
<1>7. ASSUME NEW t \in Roots
      PROVE  BranchOK(branch[t], made, t) /\ SoundFor(base, branch, made, run, t)
  <2>0. made[t] = 1 => Has(branch[t], t, 1)
    BY <1>4, <1>6 DEF Has
  <2>1. BranchOK(branch[t], made, t)
    <3>1. branch[t] # {} /\ (made[t] > 0 => made[t] = 1)
      <4>1. made[t] \in {0, 1} /\ <<0, 0, 0>> \in branch[t]
        BY <1>6
      <4> QED BY <4>1
    <3> QED BY <1>4, <2>0, <3>1 DEF BranchOK, Names, Touched
  <2>2. \A n \in 1 .. made[t] : Has(branch[t], t, n)
    <3>1. ASSUME NEW n \in 1 .. made[t]
          PROVE  n = 1 /\ made[t] = 1
      <4>1. made[t] \in {0, 1}
        BY <1>6
      <4> QED BY <4>1
    <3> QED BY <2>0, <3>1
  <2>3. ASSUME NEW u \in Roots \ {t}, NEW n \in 1 .. MaxCommits, NEW g \in Rebases, <<u, n, g>> \in branch[t]
        PROVE  <<u, n, g>> \in base
    BY <1>6, <2>3
  <2>4. ~Touched(base, t)
    <3>1. \A n \in 1 .. MaxCommits, g \in Rebases : <<t, n, g>> # <<0, 0, 0>>
      BY <1>6
    <3> QED BY <1>3, <3>1 DEF Touched, Has, Genesis
  <2> QED BY <1>6, <2>1, <2>2, <2>3, <2>4 DEF SoundFor, IsDone
<1>8. /\ scan.next = 0
      /\ \A c \in Calls : call[c].pc = "idle" /\ ~Guarded(call[c])
  BY <1>3 DEF Resting, Idle, Guarded
<1>9. Alone
  BY <1>8 DEF Alone, Active
<1> QED BY <1>0, <1>5, <1>7, <1>8, <1>9 DEF Kept, SoundOn, Active

\* A run that may be approved has nobody at work in its lineage, nor anything open below.
LEMMA ApproveClears ==
  ASSUME Chain, Kept, NEW r \in Run, run[r].stage # "work", Barring(r) = {}
  PROVE  AtRest(run, Tree(r)) /\ \A s \in Descendants(r) : ~Open(run[s])
<1>1. \A s \in Descendants(r) : ~Open(run[s])
  BY DEF Barring, Live
<1>2. ASSUME NEW s \in LineageOf(Tree(r)), Open(run[s])
      PROVE  run[s].stage # "work"
  <2>1. s \in Run /\ Tree(s) = Tree(r)
    BY DEF LineageOf
  <2>2. s = r \/ s \in Descendants(r) \/ r \in Descendants(s)
    BY <2>1, ChainCompares
  <2> QED BY <1>1, <1>2, <2>1, <2>2 DEF Kept, RowOK
<1> QED BY <1>1, <1>2 DEF AtRest

LEMMA KeptWork ==
  ASSUME Kept, RollbackAlone, NEW r \in Run, Work(r), TypeOK'
  PROVE  Kept' /\ Falls(run, run')
<1> DEFINE t == Tree(r)
<1>1. /\ t \in Roots /\ r \in LineageOf(t) /\ Open(run[r]) /\ run[r].stage = "work"
      /\ made' = [made EXCEPT ![t] = made[t] + 1]
      /\ branch' = [branch EXCEPT ![t] = branch[t] \cup {<<t, made[t] + 1, rebased[t]>>}]
      /\ UNCHANGED <<run, base, call, scan>>
  BY TreeIsRoot DEF Work, Live, LineageOf
<1>2. /\ branch \in [Roots -> Commit] /\ made \in [Roots -> 0 .. MaxCommits] /\ rebased[t] \in Rebases
      /\ made[t] < MaxCommits
  BY <1>1, Typed DEF Kept, Work
<1> HIDE DEF t
<1>3. ~AtRest(run, t)
  BY <1>1 DEF AtRest
<1>4. SoundOn(base', branch', made', run')
  BY <1>1, <1>2, <1>3, SoundAfterWork DEF Kept
<1>5. \A c \in Calls : Guarded(call'[c]) => SoundOn(call'[c].pre, branch', made', run')
  BY <1>1, <1>2, <1>3, SoundAfterWork DEF Kept
<1>6. made' \in [Roots -> Nat] /\ \A u \in Roots : made[u] \in Nat /\ made'[u] \in Nat /\ (made[u] > 0 => made'[u] > 0)
  BY <1>1, <1>2, ApprovalBoundsAssumption
<1>7. \A q \in Run : \A row : RowOK(row, q, made) => RowOK(row, q, made')
  BY <1>6, TreeIsRoot DEF RowOK
<1>8. \A u \in Roots : BranchOK(branch'[u], made', u)
  <2>1. ASSUME NEW u \in Roots, u # t
        PROVE  BranchOK(branch'[u], made', u)
    BY <1>1, <1>2, <2>1 DEF Kept, BranchOK
  <2>2. BranchOK(branch'[t], made', t)
    <3>1. branch'[t] = branch[t] \cup {<<t, made[t] + 1, rebased[t]>>} /\ made[t] + 1 \in 1 .. MaxCommits
      BY <1>1, <1>2, ApprovalBoundsAssumption
    <3> QED BY <1>2, <3>1 DEF BranchOK, Names, Touched, Has
  <2> QED BY <2>1, <2>2
<1>9. \A c \in Calls : Active(c)' => CallOK(call'[c], base', run')
  BY <1>1 DEF Kept, Active
<1>10. Alone'
  BY <1>1 DEF Kept, Alone, Active
<1>11. Falls(run, run')
  BY <1>1 DEF Falls
<1> QED BY <1>1, <1>4, <1>5, <1>7, <1>8, <1>9, <1>10, <1>11 DEF Kept

\* One row changes, and the others do not.
LEMMA OneRow ==
  ASSUME Kept, NEW r \in Run, NEW row, run' = [run EXCEPT ![r] = row], RowOK(row, r, made),
         Open(row) => Open(run[r]), row.stage = "work" => run[r].stage = "work"
  PROVE  /\ Falls(run, run') /\ \A q \in Run : RowOK(run'[q], q, made)
         /\ \A t \in Roots : IsDone(run'[t]) => IsDone(run[t]) \/ (t = r /\ IsDone(row))
<1>1. run'[r] = row /\ \A q \in Run : q # r => run'[q] = run[q]
  BY Typed DEF Kept
<1> QED BY <1>1 DEF Kept, Falls, Roots

LEMMA SameRows ==
  ASSUME Kept, run' = run
  PROVE  /\ Falls(run, run') /\ \A q \in Run : RowOK(run'[q], q, made)
         /\ \A t \in Roots : IsDone(run'[t]) => IsDone(run[t])
BY DEF Kept, Falls

\* An operator's or a session's step changes one row, and no call.
LEMMA KeptAskReject ==
  ASSUME Kept, NEW r \in Run, AskApproval(r) \/ Reject(r), TypeOK'
  PROVE  Kept' /\ Falls(run, run')
<1>1. UNCHANGED <<branch, base, call, scan, made>> /\ Alone'
  BY DEF AskApproval, Reject, Kept, Alone, Active
<1>2. run[r] \in Row /\ RowOK(run[r], r, made) /\ Tree(r) \in Roots
  BY TreeIsRoot, Typed DEF Kept
<1>3. PICK row : /\ run' = [run EXCEPT ![r] = row] /\ RowOK(row, r, made) /\ ~IsDone(row)
                 /\ Open(row) => Open(run[r])
                 /\ row.stage = "work" => run[r].stage = "work"
  <2>1. CASE AskApproval(r)
    <3> DEFINE row == [run[r] EXCEPT !.stage = "ship", !.pending = TRUE, !.commit = branch[Tree(r)]]
    <3>1. run' = [run EXCEPT ![r] = row] /\ Open(run[r]) /\ made[Tree(r)] > 0
      BY <1>2, <2>1, Typed DEF AskApproval, Live, Kept
    <3>2. row.stage = "ship" /\ row.commit = branch[Tree(r)]
      BY <1>2 DEF Row
    <3>3. Names(branch[Tree(r)], Tree(r))
      BY <1>2, <3>1 DEF Kept, BranchOK
    <3> QED BY <3>1, <3>2, <3>3 DEF RowOK, IsDone
  <2>2. CASE Reject(r)
    <3>1. run' = [run EXCEPT ![r] = Failed(run[r])]
      BY <2>2 DEF Reject
    <3> QED BY <1>2, <3>1, RowsEnd
  <2> QED BY <2>1, <2>2
<1>4. /\ Falls(run, run') /\ \A q \in Run : RowOK(run'[q], q, made)
      /\ \A t \in Roots : IsDone(run'[t]) => IsDone(run[t])
  BY <1>3, OneRow
<1>5. scan'.next # 0 => \A q \in Run : RowOK(scan'.rows[q], q, made)
  BY <1>1 DEF Kept
<1> QED BY <1>1, <1>4, <1>5, RowStep

LEMMA KeptConclude ==
  ASSUME Kept, NEW r \in Run, Conclude(r), TypeOK'
  PROVE  Kept' /\ Falls(run, run')
<1> DEFINE p == Parent[r]
           R == [run EXCEPT ![r] = Done(@)]
           q == [run[p] EXCEPT !.pending = TRUE, !.commit = branch[Tree(r)]]
<1>1. /\ p # 0 /\ p \in Run /\ p # r /\ Open(run[p]) /\ run[p].stage = "ship" /\ Open(run[r])
      /\ r \notin Roots /\ Tree(p) = Tree(r) /\ Tree(r) \in Roots
  BY ParentBelow, SameTree, TreeIsRoot, ApprovalBoundsAssumption DEF Conclude, Live, Roots, Run
<1>2. /\ run \in [Run -> Row] /\ run[r] \in Row /\ run[p] \in Row
      /\ RowOK(run[r], r, made) /\ RowOK(run[p], p, made)
  BY <1>1, Typed DEF Kept
<1>3. run'[r] = Done(run[r]) /\ run'[p] = q /\ \A s \in Run : s # r /\ s # p => run'[s] = run[s]
  <2>1. run' = [R EXCEPT ![p] = [R[p] EXCEPT !.pending = TRUE, !.commit = branch[Tree(r)]]]
    BY DEF Conclude
  <2>2. R \in [Run -> {run[s] : s \in Run} \cup {Done(run[r])}] /\ R[p] = run[p] /\ R[r] = Done(run[r])
        /\ \A s \in Run : s # r => R[s] = run[s]
    BY <1>1, <1>2
  <2> HIDE DEF R
  <2> QED BY <1>1, <2>1, <2>2
<1>4. UNCHANGED <<branch, base, call, scan, made>> /\ Alone'
  BY DEF Conclude, Kept, Alone, Active
<1>5. made[Tree(r)] > 0 /\ Names(branch[Tree(r)], Tree(r))
  BY <1>1, <1>2 DEF RowOK, Kept, BranchOK
<1>6. RowOK(q, p, made) /\ q.stage = "ship" /\ ~IsDone(q)
  <2>1. q.stage = "ship" /\ q.commit = branch[Tree(r)]
    BY <1>1, <1>2 DEF Row
  <2> QED BY <1>1, <1>5, <2>1 DEF RowOK, IsDone
<1>7. RowOK(Done(run[r]), r, made) /\ Done(run[r]).stage = "done" /\ ~Open(Done(run[r]))
  BY <1>2, <1>5, RowsEnd
<1> HIDE DEF q, p
<1>8. Falls(run, run')
  BY <1>1, <1>3, <1>6, <1>7 DEF Falls
<1>9. \A s \in Run : RowOK(run'[s], s, made)
  BY <1>3, <1>6, <1>7 DEF Kept
<1>10. \A t \in Roots : IsDone(run'[t]) => IsDone(run[t])
  BY <1>1, <1>3, <1>6 DEF Roots
<1>11. scan'.next # 0 => \A s \in Run : RowOK(scan'.rows[s], s, made)
  BY <1>4 DEF Kept
<1> QED BY <1>4, <1>8, <1>9, <1>10, <1>11, RowStep

\* A call that starts leaves what is alone alone.
LEMMA StartsAlone ==
  ASSUME Kept, NEW c \in Calls, call[c].pc = "idle", NEW k, call' = [call EXCEPT ![c] = k],
         MayStart(k.kind), scan' = scan
  PROVE  Alone'
<1>1. call'[c] = k /\ \A d \in Calls : d # c => call'[d] = call[d]
  BY Typed DEF Kept
<1>2. \A d \in Calls : Active(d) => call[d].kind \in InFlight
  BY DEF InFlight, Active
<1>3. scan.next # 0 => "reconcile" \in InFlight
  BY DEF InFlight
<1>4. InFlight # {} => k.kind \in Overlap /\ InFlight \subseteq Overlap
  BY DEF MayStart
<1>5. ASSUME "unattended" \notin Overlap, NEW d \in Calls, call'[d].pc # "idle", call'[d].kind = "unattended"
      PROVE  scan.next = 0 /\ \A e \in Calls : call'[e].pc # "idle" => e = d
  <2>1. CASE d = c
    <3>1. InFlight = {}
      BY <1>1, <1>4, <1>5, <2>1
    <3> QED BY <1>1, <1>2, <1>3, <2>1, <3>1 DEF Active
  <2>2. CASE d # c
    <3>1. "unattended" \in InFlight
      BY <1>1, <1>2, <1>5, <2>2 DEF Active
    <3> QED BY <1>4, <1>5, <3>1
  <2> QED BY <2>1, <2>2
<1> QED BY <1>5 DEF Alone, Active

LEMMA KeptStarts ==
  ASSUME Chain, Kept, NEW c \in Calls, NEW r \in Run,
         Approve(c, r) \/ ApproveUnattended(c, r) \/ ApproveRebase(c, r), TypeOK'
  PROVE  Kept' /\ Falls(run, run')
<1>1. /\ call[c].pc = "idle" /\ UNCHANGED <<run, branch, base, scan, made>>
      /\ run[r].pending /\ RowOK(run[r], r, made) /\ run[r].stage # "work"
  BY DEF Approve, ApproveUnattended, ApproveRebase, MayApprove, Kept, RowOK
<1>2. Names(run[r].commit, Tree(r)) /\ Names({}, Tree(r))
  BY <1>1 DEF RowOK, Names
<1>3. PICK k : /\ call' = [call EXCEPT ![c] = k] /\ MayStart(k.kind)
               /\ CallOK(k, base, run) /\ ~Guarded(k)
  <2>1. CASE Approve(c, r)
    <3> DEFINE k == [Idle EXCEPT !.pc = "context", !.run = r, !.seen = run[r].commit]
    <3>1. /\ k.pc = "context" /\ k.run = r /\ k.seen = run[r].commit /\ k.kind = "approve" /\ k.kills = {}
          /\ call' = [call EXCEPT ![c] = k] /\ MayStart("approve")
      BY <2>1 DEF Approve, Idle
    <3> HIDE DEF k
    <3>2. AtRest(run, Tree(r)) /\ \A s \in Descendants(r) : ~Open(run[s])
      BY <1>1, <2>1, ApproveClears DEF Approve, MayApprove
    <3> QED BY <1>1, <1>2, <3>1, <3>2 DEF CallOK, Guarded, Merging
  <2>2. CASE ApproveUnattended(c, r)
    <3> DEFINE k == [Idle EXCEPT !.pc = "policy", !.kind = "unattended", !.run = r]
    <3>1. /\ k.pc = "policy" /\ k.run = r /\ k.seen = {} /\ k.kind = "unattended" /\ k.kills = {}
          /\ call' = [call EXCEPT ![c] = k] /\ MayStart("unattended")
      BY <2>2 DEF ApproveUnattended, Idle
    <3> HIDE DEF k
    <3> QED BY <1>1, <1>2, <3>1 DEF CallOK, Guarded, Merging, Cleared
  <2>3. CASE ApproveRebase(c, r)
    <3> DEFINE k == [Idle EXCEPT !.pc = "rebase", !.kind = "rebase", !.run = r, !.seen = run[r].commit]
    <3>1. /\ k.pc = "rebase" /\ k.run = r /\ k.seen = run[r].commit /\ k.kind = "rebase" /\ k.kills = {}
          /\ call' = [call EXCEPT ![c] = k] /\ MayStart("rebase")
      BY <2>3 DEF ApproveRebase, Idle
    <3> HIDE DEF k
    <3> QED BY <1>1, <1>2, <3>1 DEF CallOK, Guarded, Merging, Cleared
  <2> QED BY <2>1, <2>2, <2>3
<1>4. Alone'
  BY <1>1, <1>3, StartsAlone
<1>5. \A d \in Calls : call'[d] = call[d] \/ (CallOK(call'[d], base, run') /\ ~Guarded(call'[d]))
  BY <1>1, <1>3, Typed DEF Kept
<1>6. scan'.next # 0 => \A q \in Run : RowOK(scan'.rows[q], q, made)
  BY <1>1 DEF Kept
<1> QED BY <1>1, <1>4, <1>5, <1>6, SameRows, RowStep

\* A call goes on, and at most the pending approval and the commit of its run change.
LEMMA CallStep ==
  ASSUME Kept, TypeOK', NEW c \in Calls, Active(c), UNCHANGED <<branch, base, scan, made>>,
         NEW row, run' = [run EXCEPT ![call[c].run] = row],
         row.stage = run[call[c].run].stage, row.term = run[call[c].run].term,
         Names(row.commit, Tree(call[c].run)),
         NEW k, call' = [call EXCEPT ![c] = k],
         \/ k.pc = "idle"
         \/ /\ k.kind = call[c].kind /\ k.run = call[c].run /\ CallOK(k, base, run)
            /\ Guarded(k) => (Guarded(call[c]) /\ k.pre = call[c].pre) \/ k.pre = base
  PROVE  Kept' /\ Falls(run, run')
<1> DEFINE r == call[c].run
<1>1. r \in Run /\ CallOK(call[c], base, run) /\ RowOK(run[r], r, made)
  BY CallTypes DEF Kept
<1>2. RowOK(row, r, made) /\ (Open(row) => Open(run[r])) /\ (IsDone(row) => IsDone(run[r]))
  BY <1>1 DEF RowOK, CallOK, Open, IsDone
<1>3. /\ Falls(run, run') /\ \A q \in Run : RowOK(run'[q], q, made)
      /\ \A t \in Roots : IsDone(run'[t]) => IsDone(run[t])
  BY <1>1, <1>2, OneRow
<1>4. call'[c] = k /\ \A d \in Calls : d # c => call'[d] = call[d]
  BY Typed DEF Kept
<1>5. k.pc = "idle" \/ CallOK(k, base, run')
  BY <1>1, <1>3, CallFalls
<1>6. Alone'
  BY <1>4, StillAlone DEF Kept
<1>7. scan'.next # 0 => \A q \in Run : RowOK(scan'.rows[q], q, made)
  BY DEF Kept
<1> HIDE DEF r
<1>8. \A d \in Calls :
        \/ call'[d] = call[d] \/ call'[d].pc = "idle"
        \/ /\ CallOK(call'[d], base, run')
           /\ Guarded(call'[d]) => (Guarded(call[d]) /\ call'[d].pre = call[d].pre) \/ call'[d].pre = base
  BY <1>4, <1>5
<1> QED BY <1>3, <1>6, <1>7, <1>8, RowStep

\* The commit of a worktree is of its lineage.
LEMMA HeadNames ==
  ASSUME Kept, NEW c \in Calls, Active(c)
  PROVE  /\ Names(branch[Tree(call[c].run)], Tree(call[c].run))
         /\ made[Tree(call[c].run)] > 0 /\ call[c].run \in Run /\ Tree(call[c].run) \in Roots
         /\ run[call[c].run] \in Row /\ RowOK(run[call[c].run], call[c].run, made)
         /\ CallOK(call[c], base, run) /\ call[c] \in CallRecord
<1>1. /\ call[c].run \in Run /\ Tree(call[c].run) \in Roots /\ call[c] \in CallRecord
      /\ run[call[c].run] \in Row
  BY CallTypes DEF Kept
<1>2. CallOK(call[c], base, run) /\ RowOK(run[call[c].run], call[c].run, made)
  BY <1>1 DEF Kept
<1> QED BY <1>1, <1>2 DEF Kept, CallOK, RowOK, BranchOK

\* Up to the merge.
LEMMA KeptChecks ==
  ASSUME Chain, Kept, NEW c \in Calls, TypeOK',
         \/ Policy(c) \/ PolicyAllows(c) \/ PolicyStops(c) \/ Relink(c) \/ Context(c)
         \/ Check(c) \/ Ahead(c) \/ PreMergeHead(c)
  PROVE  Kept' /\ Falls(run, run')
<1> DEFINE k0 == call[c]
           r == k0.run
           t == Tree(r)
           clean == [k0 EXCEPT !.pc = "clean"]
<1>1. Active(c) /\ UNCHANGED <<branch, base, scan, made>>
  BY DEF Policy, PolicyAllows, PolicyStops, Relink, Context, Check, Ahead, PreMergeHead, Active
<1>2. /\ Names(branch[t], t) /\ made[t] > 0 /\ r \in Run /\ t \in Roots
      /\ run[r] \in Row /\ RowOK(run[r], r, made) /\ CallOK(k0, base, run) /\ k0 \in CallRecord
  BY <1>1, HeadNames
<1>3. Names(run[r].commit, t) /\ run[r].stage # "work" /\ Names(k0.seen, t) /\ k0.kills \subseteq LineageOf(t)
  BY <1>2 DEF RowOK, CallOK
<1>4. Barring(r) = {} => AtRest(run, t) /\ \A s \in Descendants(r) : ~Open(run[s])
  BY <1>2, <1>3, ApproveClears
<1> HIDE DEF k0, r, t
<1>5. run \in [Run -> Row] /\ call \in [Calls -> CallRecord]
  BY Typed DEF Kept
<1>6. \A b : LET row == [run[r] EXCEPT !.commit = b]
             IN  row.stage = run[r].stage /\ row.term = run[r].term /\ row.commit = b
  BY <1>2 DEF Row
<1>7. CASE Policy(c)
  <2> DEFINE row == IF t \in tree THEN [run[r] EXCEPT !.commit = branch[t]] ELSE run[r]
  <2>1. PICK passed \in BOOLEAN :
          call' = [call EXCEPT ![c].pc = "clean",
                     ![c].ok = passed /\ row.stage = "ship" /\ row.pending /\ row.term = "none"
                               /\ Barring(r) = {} /\ t \in tree]
    BY <1>7 DEF Policy, r, t, k0
  <2> DEFINE ok == passed /\ row.stage = "ship" /\ row.pending /\ row.term = "none"
                   /\ Barring(r) = {} /\ t \in tree
             k == [k0 EXCEPT !.pc = "clean", !.ok = ok]
  <2>2. call' = [call EXCEPT ![c] = k]
    BY <1>5, <2>1 DEF CallRecord, k0
  <2>3. run' = [run EXCEPT ![r] = row]
    BY <1>7 DEF Policy, r, t, k0
  <2>4. row.stage = run[r].stage /\ row.term = run[r].term /\ Names(row.commit, t)
    BY <1>2, <1>3, <1>6
  <2>5. ok => Barring(r) = {}
    OBVIOUS
  <2> HIDE DEF row, ok
  <2>6. /\ k.pc = "clean" /\ k.ok = ok /\ k.run = r /\ k.kind = k0.kind /\ k.seen = k0.seen
        /\ k.kills = k0.kills
    BY <1>2 DEF CallRecord, r
  <2> HIDE DEF k
  <2>7. CallOK(k, base, run)
    <3>1. k0.pc = "policy"
      BY <1>7 DEF Policy, k0
    <3> QED BY <1>2, <1>3, <1>4, <2>5, <2>6, <3>1 DEF CallOK, Cleared, Merging, t
  <2> QED BY <1>1, <2>2, <2>3, <2>4, <2>6, <2>7, CallStep DEF Guarded, r, t, k0
<1>8. CASE PolicyAllows(c)
  <2>1. PICK again \in BOOLEAN : run' = [run EXCEPT ![r] = [run[r] EXCEPT !.pending = again]]
    BY <1>2, <1>5, <1>8 DEF PolicyAllows, Row, r, k0
  <2> DEFINE row == [run[r] EXCEPT !.pending = again]
             k == [k0 EXCEPT !.pc = "context", !.seen = run[r].commit]
  <2>2. call' = [call EXCEPT ![c] = k] /\ Cleared(k0)
    BY <1>5, <1>8 DEF PolicyAllows, r, k0, Cleared
  <2>3. row.stage = run[r].stage /\ row.term = run[r].term /\ row.commit = run[r].commit
    BY <1>2 DEF Row
  <2>4. k.pc = "context" /\ k.run = r /\ k.kind = k0.kind /\ k.seen = run[r].commit /\ k.kills = k0.kills
    BY <1>2 DEF CallRecord, r
  <2> HIDE DEF k, row
  <2>5. CallOK(k, base, run)
    BY <1>2, <1>3, <2>2, <2>4 DEF CallOK, Cleared, Merging, r, t
  <2> QED BY <1>1, <1>3, <2>1, <2>2, <2>3, <2>4, <2>5, CallStep DEF Guarded, r, t, k0, row
<1>9. CASE PolicyStops(c)
  <2> DEFINE row == [run[r] EXCEPT !.pending = TRUE]
  <2>1. run' = [run EXCEPT ![r] = row] /\ call' = [call EXCEPT ![c] = Idle]
    BY <1>9 DEF PolicyStops, Returns, r, k0
  <2>2. row.stage = run[r].stage /\ row.term = run[r].term /\ row.commit = run[r].commit
    BY <1>2 DEF Row
  <2> HIDE DEF row
  <2> QED BY <1>1, <1>3, <2>1, <2>2, CallStep DEF Idle, r, t, k0
<1>10. CASE Relink(c)
  <2> DEFINE row == IF t \in tree THEN [run[r] EXCEPT !.commit = branch[t]] ELSE run[r]
             k == [k0 EXCEPT !.pc = "context", !.seen = row.commit]
  <2>1. /\ run' = [run EXCEPT ![r] = row]
        /\ \/ MayApprove(r) /\ call' = [call EXCEPT ![c] = k]
           \/ call' = [call EXCEPT ![c] = Idle]
    BY <1>5, <1>10 DEF Relink, Returns, r, t, k0
  <2>2. row.stage = run[r].stage /\ row.term = run[r].term /\ Names(row.commit, t)
    BY <1>2, <1>3, <1>6
  <2> HIDE DEF row
  <2>3. k.pc = "context" /\ k.run = r /\ k.kind = k0.kind /\ k.seen = row.commit /\ k.kills = k0.kills
    BY <1>2 DEF CallRecord, r
  <2> HIDE DEF k
  <2>4. MayApprove(r) => CallOK(k, base, run)
    BY <1>2, <1>3, <1>4, <2>2, <2>3 DEF CallOK, Merging, t, MayApprove
  <2>5. CASE MayApprove(r) /\ call' = [call EXCEPT ![c] = k]
    BY <1>1, <2>1, <2>2, <2>3, <2>4, <2>5, CallStep DEF Guarded, r, t, k0
  <2>6. CASE call' = [call EXCEPT ![c] = Idle]
    BY <1>1, <2>1, <2>2, <2>6, CallStep DEF Idle, r, t, k0
  <2> QED BY <2>1, <2>5, <2>6
<1>11. CASE Context(c)
  <2> DEFINE row == [run[r] EXCEPT !.commit = branch[t]]
             k == [k0 EXCEPT !.pc = "check", !.path = TRUE, !.seen = branch[t]]
             j == [k0 EXCEPT !.pc = "check"]
  <2>1. /\ \/ run' = [run EXCEPT ![r] = row] /\ call' = [call EXCEPT ![c] = k]
           \/ run' = run /\ call' = [call EXCEPT ![c] = j]
        /\ k0.pc = "context"
    BY <1>5, <1>11 DEF Context, Goes, r, t, k0
  <2>2. /\ k.pc = "check" /\ k.run = r /\ k.kind = k0.kind /\ k.seen = branch[t] /\ k.kills = k0.kills
        /\ j.pc = "check" /\ j.run = r /\ j.kind = k0.kind /\ j.seen = k0.seen /\ j.kills = k0.kills
    BY <1>2 DEF CallRecord, r
  <2>3. row.stage = run[r].stage /\ row.term = run[r].term /\ row.commit = branch[t]
    BY <1>6
  <2> HIDE DEF row, k, j
  <2>4. CallOK(k, base, run) /\ CallOK(j, base, run)
    BY <1>2, <1>3, <2>1, <2>2 DEF CallOK, Cleared, Merging, r, t
  <2>5. CASE run' = [run EXCEPT ![r] = row] /\ call' = [call EXCEPT ![c] = k]
    BY <1>1, <1>2, <2>2, <2>3, <2>4, <2>5, CallStep DEF Guarded, r, t, k0
  <2>6. CASE run' = run /\ call' = [call EXCEPT ![c] = j]
    <3>1. run' = [run EXCEPT ![r] = run[r]]
      BY <1>5, <2>6
    <3> QED BY <1>1, <1>3, <2>2, <2>4, <2>6, <3>1, CallStep DEF Guarded, r, t, k0
  <2> QED BY <2>1, <2>5, <2>6
<1>12. ASSUME NEW pc \in {"ahead", "head"}, k0.pc \in {"check", "ahead"}, Goes(c, pc), run' = run
       PROVE  Kept' /\ Falls(run, run')
  <2> DEFINE k == [k0 EXCEPT !.pc = pc]
  <2>1. run' = [run EXCEPT ![r] = run[r]] /\ call' = [call EXCEPT ![c] = k]
    BY <1>5, <1>12 DEF Goes, k0
  <2>2. k.pc = pc /\ k.run = r /\ k.kind = k0.kind /\ k.seen = k0.seen /\ k.kills = k0.kills
    BY <1>2 DEF CallRecord, r
  <2> HIDE DEF k
  <2>3. CallOK(k, base, run)
    BY <1>2, <1>3, <1>12, <2>2 DEF CallOK, Cleared, Merging, r, t
  <2>4. ~Guarded(k)
    BY <1>12, <2>2 DEF Guarded
  <2> QED BY <1>1, <1>3, <2>1, <2>2, <2>3, <2>4, CallStep DEF r, t, k0
<1>13. CASE Check(c) \/ Ahead(c)
  BY <1>12, <1>13 DEF Check, Ahead, k0
<1>14. CASE PreMergeHead(c)
  <2> DEFINE strict == k0.kind = "unattended"
             pre == IF strict THEN base ELSE {}
             seen == IF strict THEN k0.seen ELSE {}
             k == [k0 EXCEPT !.pc = "merge", !.pre = pre, !.seen = seen]
  <2>1. call' = [call EXCEPT ![c] = k] /\ k0.pc = "head" /\ run' = [run EXCEPT ![r] = run[r]]
    BY <1>5, <1>14 DEF PreMergeHead, k0, r
  <2>2. /\ k.pc = "merge" /\ k.run = r /\ k.kind = k0.kind /\ k.seen \in {k0.seen, {}} /\ k.kills = k0.kills
        /\ k.kind = "unattended" => k.pre = base
    BY <1>2 DEF CallRecord, r
  <2> HIDE DEF k
  <2>3. CallOK(k, base, run)
    BY <1>2, <1>3, <2>1, <2>2 DEF CallOK, Cleared, Merging, Names, r, t
  <2> QED BY <1>1, <1>3, <2>1, <2>2, <2>3, CallStep DEF Guarded, r, t, k0
<1> QED BY <1>7, <1>8, <1>9, <1>10, <1>11, <1>13, <1>14

\* Around the merge.
LEMMA KeptPushes ==
  ASSUME Kept, NEW c \in Calls, TypeOK',
         Record(c) \/ PushDone(c) \/ PushFails(c) \/ RollbackFails(c) \/ GitFails(c) \/ RemoveTree(c)
  PROVE  Kept' /\ Falls(run, run')
<1> DEFINE k0 == call[c]
           r == k0.run
           t == Tree(r)
           kill == [k0 EXCEPT !.pc = "kill", !.kills = Sharing(c), !.seen = {}, !.pre = {}]
<1>1. Active(c) /\ UNCHANGED <<branch, base, scan, made>>
  BY DEF Record, PushDone, PushFails, RollbackFails, GitFails, RemoveTree, Active
<1>2. /\ r \in Run /\ t \in Roots /\ run[r] \in Row /\ RowOK(run[r], r, made)
      /\ CallOK(k0, base, run) /\ k0 \in CallRecord
  BY <1>1, HeadNames
<1>3. Names(run[r].commit, t) /\ Names(k0.seen, t) /\ k0.kills \subseteq LineageOf(t)
  BY <1>2 DEF RowOK, CallOK
<1>4. Sharing(c) \subseteq LineageOf(t)
  BY DEF Sharing
<1> HIDE DEF k0, r, t
<1>5. run \in [Run -> Row] /\ call \in [Calls -> CallRecord]
  BY Typed DEF Kept
<1>6. /\ kill.pc = "kill" /\ kill.run = r /\ kill.kind = k0.kind /\ kill.seen = {} /\ kill.kills = Sharing(c)
      /\ Finalizes(c) => call' = [call EXCEPT ![c] = kill]
  <2>1. kill.pc = "kill" /\ kill.run = r /\ kill.kind = k0.kind /\ kill.seen = {} /\ kill.kills = Sharing(c)
    BY <1>2 DEF CallRecord, r
  <2> QED BY <1>5, <2>1 DEF Finalizes, k0
<1> HIDE DEF kill
<1>7. k0.pc \in Merging => CallOK(kill, base, run)
  BY <1>2, <1>4, <1>6 DEF CallOK, Cleared, Merging, Names, r, t
<1>8. CASE Record(c)
  <2> DEFINE k == [k0 EXCEPT !.pc = "push"]
  <2>1. /\ run' \in {run, [run EXCEPT ![r] = [run[r] EXCEPT !.commit = base]]} /\ k0.pc = "record"
        /\ \/ Push /\ call' = [call EXCEPT ![c] = k]
           \/ call' = [call EXCEPT ![c] = kill]
    BY <1>6, <1>8 DEF Record, Goes, r, k0
  <2>2. Names(base, t)
    BY <1>2, <2>1 DEF CallOK, Merging, Names, r, t
  <2>3. PICK row : /\ run' = [run EXCEPT ![r] = row]
                   /\ row.stage = run[r].stage /\ row.term = run[r].term /\ Names(row.commit, t)
    <3>1. CASE run' = run
      BY <1>3, <1>5, <3>1
    <3>2. CASE run' = [run EXCEPT ![r] = [run[r] EXCEPT !.commit = base]]
      <4>1. PICK row : row = [run[r] EXCEPT !.commit = base]
        OBVIOUS
      <4>2. row.stage = run[r].stage /\ row.term = run[r].term /\ row.commit = base
        BY <1>2, <4>1 DEF Row
      <4> QED BY <2>2, <3>2, <4>1, <4>2
    <3> QED BY <2>1, <3>1, <3>2
  <2>4. /\ k.pc = "push" /\ k.run = r /\ k.kind = k0.kind /\ k.seen = k0.seen /\ k.kills = k0.kills
        /\ k.pre = k0.pre
    BY <1>2 DEF CallRecord, r
  <2> HIDE DEF k
  <2>5. Push => CallOK(k, base, run)
    BY <1>2, <1>3, <2>1, <2>4 DEF CallOK, Cleared, Merging, r, t
  <2>6. CASE Push /\ call' = [call EXCEPT ![c] = k]
    BY <1>1, <2>1, <2>3, <2>4, <2>5, <2>6, CallStep DEF Guarded, r, t, k0
  <2>7. CASE call' = [call EXCEPT ![c] = kill]
    BY <1>1, <1>6, <1>7, <2>1, <2>3, <2>7, CallStep DEF Guarded, Merging, r, t, k0
  <2> QED BY <2>1, <2>6, <2>7
<1>9. CASE PushDone(c)
  <2>1. run' = [run EXCEPT ![r] = run[r]] /\ call' = [call EXCEPT ![c] = kill] /\ k0.pc \in Merging
    BY <1>5, <1>6, <1>9 DEF PushDone, Merging, k0
  <2> QED BY <1>1, <1>3, <1>6, <1>7, <2>1, CallStep DEF Guarded, r, t, k0
<1>10. CASE PushFails(c)
  <2> DEFINE k == [k0 EXCEPT !.pc = "rollback"]
  <2>1. /\ run' = [run EXCEPT ![r] = run[r]] /\ call' = [call EXCEPT ![c] = k] /\ k0.pc = "push"
        /\ k0.kind = "unattended"
    BY <1>5, <1>10 DEF PushFails, Goes, k0
  <2>2. /\ k.pc = "rollback" /\ k.run = r /\ k.kind = k0.kind /\ k.seen = k0.seen /\ k.kills = k0.kills
        /\ k.pre = k0.pre
    BY <1>2 DEF CallRecord, r
  <2> HIDE DEF k
  <2>3. CallOK(k, base, run)
    BY <1>2, <1>3, <2>1, <2>2 DEF CallOK, Cleared, Merging, r, t
  <2> QED BY <1>1, <1>3, <2>1, <2>2, <2>3, CallStep DEF Guarded, r, t, k0
<1>11. CASE GitFails(c) \/ RollbackFails(c)
  <2>1. run' = [run EXCEPT ![r] = run[r]] /\ call' = [call EXCEPT ![c] = Idle]
    BY <1>5, <1>11 DEF GitFails, RollbackFails, Returns
  <2> QED BY <1>1, <1>3, <2>1, CallStep DEF Idle, r, t, k0
<1>12. CASE RemoveTree(c)
  <2> DEFINE k == [k0 EXCEPT !.pc = "branch"]
  <2>1. run' = [run EXCEPT ![r] = run[r]] /\ call' = [call EXCEPT ![c] = k] /\ k0.pc = "kill"
    BY <1>5, <1>12 DEF RemoveTree, Goes, k0
  <2>2. k.pc = "branch" /\ k.run = r /\ k.kind = k0.kind /\ k.seen = k0.seen /\ k.kills = k0.kills
    BY <1>2 DEF CallRecord, r
  <2> HIDE DEF k
  <2>3. CallOK(k, base, run)
    BY <1>2, <1>3, <2>1, <2>2 DEF CallOK, Cleared, Merging, r, t
  <2> QED BY <1>1, <1>3, <2>1, <2>2, <2>3, CallStep DEF Guarded, r, t, k0
<1> QED BY <1>8, <1>9, <1>10, <1>11, <1>12

\* A call that has merged is about work that is on the base branch.
LEMMA MergedHasLanded ==
  ASSUME Kept, NEW c \in Calls, call[c].pc \in Merging
  PROVE  LandedOn(base, made, Tree(call[c].run)) /\ made[Tree(call[c].run)] > 0
<1>1. Active(c)
  BY DEF Merging, Active
<1>2. Tree(call[c].run) \in Roots /\ CallOK(call[c], base, run)
  BY <1>1, HeadNames
<1>3. Touched(base, Tree(call[c].run))
  BY <1>2 DEF CallOK
<1> QED BY <1>2, <1>3 DEF Kept, SoundOn, SoundFor, LandedOn

LEMMA KeptKill ==
  ASSUME Kept, RollbackAlone, NEW c \in Calls, Kill(c), TypeOK'
  PROVE  Kept' /\ Falls(run, run')
<1> DEFINE k0 == call[c]
           t == Tree(k0.run)
<1>1. /\ Active(c) /\ k0.pc = "kill" /\ k0.pc \in Merging /\ ~Guarded(k0)
      /\ UNCHANGED <<branch, base, scan, made>>
  BY DEF Kill, Active, Merging, Guarded
<1>2. LandedOn(base, made, t) /\ made[t] > 0 /\ CallOK(k0, base, run) /\ k0 \in CallRecord
  BY <1>1, MergedHasLanded, HeadNames
<1>3. PICK s \in k0.kills : /\ run' = [run EXCEPT ![s] = Done(run[s])]
                            /\ call' = [call EXCEPT ![c] = [k0 EXCEPT !.kills = @ \ {s}]]
  BY DEF Kill
<1> DEFINE k == [k0 EXCEPT !.kills = @ \ {s}]
<1>4. /\ k.pc = k0.pc /\ k.run = k0.run /\ k.kind = k0.kind /\ k.seen = k0.seen
      /\ k.kills = k0.kills \ {s}
  BY <1>2 DEF CallRecord
<1>5. s \in Run /\ Tree(s) = t /\ run[s] \in Row /\ RowOK(run[s], s, made)
  BY <1>2, Typed DEF CallOK, LineageOf, Kept
<1>6. RowOK(Done(run[s]), s, made) /\ ~Open(Done(run[s])) /\ Done(run[s]).stage = "done"
  BY <1>2, <1>5, RowsEnd
<1>7. /\ Falls(run, run') /\ \A q \in Run : RowOK(run'[q], q, made)
      /\ \A u \in Roots : IsDone(run'[u]) => IsDone(run[u]) \/ u = s
  BY <1>3, <1>5, <1>6, OneRow
<1>8. \A d \in Calls : ~Guarded(call[d])
  BY <1>1, NobodyGuarded
<1>9. \A u \in Roots : u = s => LandedOn(base, made, u)
  BY <1>2, <1>5, SameTree
<1>10. call'[c] = k /\ \A d \in Calls : d # c => call'[d] = call[d]
  BY <1>3, Typed DEF Kept
<1> HIDE DEF k
<1>11. CallOK(k, base, run')
  <2>1. CallOK(k, base, run)
    BY <1>1, <1>2, <1>4 DEF CallOK, Cleared
  <2> QED BY <1>2, <1>4, <1>7, <2>1, CallFalls DEF CallRecord
<1>12. Alone'
  BY <1>1, <1>4, <1>10, StillAlone DEF Kept
<1>13. scan'.next # 0 => \A q \in Run : RowOK(scan'.rows[q], q, made)
  BY <1>1 DEF Kept
<1>14. \A d \in Calls : call'[d] = call[d] \/ (CallOK(call'[d], base, run') /\ ~Guarded(call'[d]))
  BY <1>1, <1>4, <1>10, <1>11 DEF Guarded
<1> QED BY <1>1, <1>7, <1>8, <1>9, <1>12, <1>13, <1>14, RowStep

LEMMA KeptCrash ==
  ASSUME Kept, Crash, TypeOK'
  PROVE  Kept' /\ Falls(run, run')
<1>1. /\ UNCHANGED <<run, branch, base, made>>
      /\ scan'.next = 0 /\ \A c \in Calls : call'[c].pc = "idle"
  BY DEF Crash, Resting, Idle
<1>2. Alone'
  BY <1>1, StillAlone DEF Kept
<1> QED BY <1>1, <1>2, SameRows, RowStep

LEMMA KeptRebase ==
  ASSUME Kept, RollbackAlone, NEW c \in Calls, Rebase(c), TypeOK'
  PROVE  Kept' /\ Falls(run, run')
<1> DEFINE k0 == call[c]
           t == Tree(k0.run)
           k == [k0 EXCEPT !.pc = "relink"]
           kept == {n \in 1 .. made[t] : (\E g \in 0 .. MaxRebases : <<t, n, g>> \in branch[t])
                                         /\ ~\E g \in 0 .. MaxRebases : <<t, n, g>> \in base}
           top == {<<t, n, rebased[t] + 1>> : n \in kept}
<1>1. /\ Active(c) /\ ~Guarded(k0) /\ UNCHANGED <<run, base, scan, made>>
      /\ call' = [call EXCEPT ![c] = k]
      /\ \/ UNCHANGED <<branch, rebased>>
         \/ rebased[t] < MaxRebases /\ branch' = [branch EXCEPT ![t] = base \cup top]
  BY DEF Rebase, Goes, Active, Guarded
<1>2. t \in Roots /\ made[t] > 0 /\ k0 \in CallRecord /\ CallOK(k0, base, run)
  BY <1>1, HeadNames
<1>3. k.pc = "relink" /\ k.run = k0.run /\ k.kind = k0.kind /\ k.seen = k0.seen /\ k.kills = k0.kills
  BY <1>2 DEF CallRecord
<1>4. call'[c] = k /\ \A d \in Calls : d # c => call'[d] = call[d]
  BY <1>1, Typed DEF Kept
<1> HIDE DEF k
<1>5. CallOK(k, base, run)
  BY <1>2, <1>3 DEF CallOK, Cleared, Merging
<1>6. Alone'
  BY <1>1, <1>3, <1>4, StillAlone DEF Kept
<1>7. scan'.next # 0 => \A q \in Run : RowOK(scan'.rows[q], q, made)
  BY <1>1 DEF Kept
<1>8. \A d \in Calls : call'[d] = call[d] \/ (CallOK(call'[d], base, run') /\ ~Guarded(call'[d]))
  BY <1>1, <1>3, <1>4, <1>5 DEF Guarded
<1>9. CASE branch' = branch
  BY <1>1, <1>6, <1>7, <1>8, <1>9, SameRows, RowStep
<1>10. CASE rebased[t] < MaxRebases /\ branch' = [branch EXCEPT ![t] = base \cup top]
  <2>1. /\ branch \in [Roots -> Commit] /\ made \in [Roots -> 0 .. MaxCommits]
        /\ rebased[t] + 1 \in Rebases
    BY <1>2, <1>10, Typed, ApprovalBoundsAssumption DEF Kept, Rebases
  <2>2. kept = {n \in 1 .. made[t] : Has(branch[t], t, n) /\ ~Has(base, t, n)}
    BY DEF Has, Rebases
  <2>3. top = {<<t, n, rebased[t] + 1>> : n \in {m \in 1 .. made[t] : Has(branch[t], t, m) /\ ~Has(base, t, m)}}
    BY <2>2
  <2> HIDE DEF top, t
  <2>4. SoundOn(base, branch', made, run) /\ BranchOK(base \cup top, made, t)
    BY <1>2, <1>10, <2>1, <2>3, SoundAfterRebase DEF Kept
  <2>5. \A u \in Roots : BranchOK(branch'[u], made, u)
    BY <1>10, <2>1, <2>4 DEF Kept
  <2>6. \A d \in Calls : ~Guarded(call[d])
    BY <1>1, NobodyGuarded
  <2>7. \A d \in Calls : ~Guarded(call'[d])
    BY <1>8, <2>6
  <2>8. \A d \in Calls : Active(d)' => CallOK(call'[d], base, run)
    BY <1>1, <1>4, <1>5 DEF Kept, Active
  <2>9. Falls(run, run')
    BY <1>1 DEF Falls
  <2> QED BY <1>1, <1>6, <1>7, <2>4, <2>5, <2>7, <2>8, <2>9 DEF Kept
<1> QED BY <1>1, <1>9, <1>10

LEMMA KeptMerge ==
  ASSUME Kept, NEW c \in Calls, GitMerge(c), TypeOK'
  PROVE  Kept' /\ Falls(run, run')
<1> DEFINE k0 == call[c]
           t == Tree(k0.run)
           k == [k0 EXCEPT !.pc = "record"]
<1>1. /\ Active(c) /\ k0.pc = "merge" /\ UNCHANGED <<run, branch, scan, made>>
      /\ call' = [call EXCEPT ![c] = k]
      /\ base \cup branch[t] \subseteq base'
      /\ base' \subseteq base \cup branch[t] \cup {<<0, merges + 1, 0>>}
  BY DEF GitMerge, Goes, Active
<1>2. t \in Roots /\ made[t] > 0 /\ k0 \in CallRecord /\ CallOK(k0, base, run) /\ k0.run \in Run
  BY <1>1, HeadNames
<1>3. /\ k.pc = "record" /\ k.run = k0.run /\ k.kind = k0.kind /\ k.seen = k0.seen /\ k.kills = k0.kills
      /\ k.pre = k0.pre
  BY <1>2 DEF CallRecord
<1>4. call'[c] = k /\ \A d \in Calls : d # c => call'[d] = call[d]
  BY <1>1, Typed DEF Kept
<1> HIDE DEF k, t
<1>5. AtRest(run, t)
  BY <1>1, <1>2 DEF CallOK, Cleared, t
<1>6. SoundOn(base', branch, made, run) /\ Touched(base', t)
  <2>1. made \in [Roots -> 0 .. MaxCommits]
    BY Typed DEF Kept
  <2>2. SoundOn(base, branch, made, run)
    BY DEF Kept
  <2>3. Merged(base, branch[t], base')
    BY <1>1 DEF Merged
  <2>4. t \in Roots /\ made[t] > 0
    BY <1>2
  <2> QED BY <1>5, <2>1, <2>2, <2>3, <2>4, SoundAfterMerge
<1>7. Falls(run, run) /\ base \subseteq base'
  BY <1>1 DEF Falls
<1>8. CallOK(k, base', run)
  <2>1. CallOK(k0, base', run)
    BY <1>2, <1>7, CallFalls
  <2> QED BY <1>1, <1>3, <1>6, <2>1 DEF CallOK, Cleared, t
<1>9. \A d \in Calls : Active(d)' => CallOK(call'[d], base', run)
  <2>1. ASSUME NEW d \in Calls, d # c, call[d].pc # "idle"
        PROVE  CallOK(call[d], base', run)
    BY <1>7, <2>1, CallFalls, CallTypes DEF Kept, Active
  <2> QED BY <1>4, <1>8, <2>1 DEF Active
<1>10. \A d \in Calls : Guarded(call'[d]) => SoundOn(call'[d].pre, branch, made, run)
  BY <1>1, <1>3, <1>4 DEF Kept, Guarded
<1>11. Alone'
  BY <1>1, <1>3, <1>4, StillAlone DEF Kept
<1>12. Falls(run, run')
  BY <1>1 DEF Falls
<1> QED BY <1>1, <1>6, <1>9, <1>10, <1>11, <1>12 DEF Kept

LEMMA KeptRollback ==
  ASSUME Kept, RollbackAlone, NEW c \in Calls, Rollback(c), TypeOK'
  PROVE  Kept' /\ Falls(run, run')
<1> DEFINE k0 == call[c]
           r == k0.run
           row == [run[r] EXCEPT !.commit = k0.seen]
<1>1. /\ Active(c) /\ k0.pc = "rollback" /\ UNCHANGED <<branch, scan, made>>
      /\ base' = k0.pre /\ run' = [run EXCEPT ![r] = row] /\ call' = [call EXCEPT ![c] = Idle]
  BY DEF Rollback, Returns, Active
<1>2. /\ r \in Run /\ run[r] \in Row /\ RowOK(run[r], r, made) /\ k0 \in CallRecord /\ CallOK(k0, base, run)
  BY <1>1, HeadNames
<1>3. Guarded(k0)
  BY <1>1, <1>2 DEF CallOK, Guarded
<1>4. scan.next = 0 /\ \A d \in Calls : Active(d) => d = c
  BY <1>3, NobodyGuarded
<1>5. \A d \in Calls : call'[d].pc = "idle"
  BY <1>1, <1>4, Typed DEF Kept, Active, Idle
<1>6. row.stage = run[r].stage /\ row.term = run[r].term /\ row.pending = run[r].pending /\ row.commit = k0.seen
  BY <1>2 DEF Row
<1> HIDE DEF row
<1>7. RowOK(row, r, made) /\ (Open(row) => Open(run[r])) /\ (IsDone(row) => IsDone(run[r]))
  BY <1>2, <1>6 DEF RowOK, CallOK, Open, IsDone
<1>8. /\ Falls(run, run') /\ \A q \in Run : RowOK(run'[q], q, made)
      /\ \A t \in Roots : IsDone(run'[t]) => IsDone(run[t])
  BY <1>1, <1>2, <1>6, <1>7, OneRow
<1>9. SoundOn(base', branch, made, run')
  BY <1>1, <1>3, <1>8, SoundFalls DEF Kept
<1>10. Alone' /\ (\A d \in Calls : ~Guarded(call'[d]) /\ ~Active(d)') /\ scan'.next = 0
  BY <1>1, <1>4, <1>5 DEF Alone, Active, Guarded
<1> QED BY <1>1, <1>8, <1>9, <1>10 DEF Kept

\* Runs end, as runs of a lineage whose work is on the base branch, or by a refusal.
Ended(row, row2, r) ==
  \/ row2 = row \/ row2 = [row EXCEPT !.pending = FALSE] \/ row2 = Failed(row)
  \/ /\ row2 = Done(row) /\ made[Tree(r)] > 0
     /\ r \in Roots => LandedOn(base, made, r)

LEMMA RowsFall ==
  ASSUME Kept, \A r \in Run : Ended(run[r], run'[r], r)
  PROVE  /\ Falls(run, run') /\ \A r \in Run : RowOK(run'[r], r, made)
         /\ \A t \in Roots : IsDone(run'[t]) => IsDone(run[t]) \/ LandedOn(base, made, t)
<1>1. ASSUME NEW r \in Run
      PROVE  /\ Open(run'[r]) => Open(run[r]) /\ (run'[r].stage = "work" => run[r].stage = "work")
             /\ run'[r].stage = "work" => run[r].stage = "work"
             /\ RowOK(run'[r], r, made)
             /\ r \in Roots /\ IsDone(run'[r]) => IsDone(run[r]) \/ LandedOn(base, made, r)
  <2>1. run[r] \in Row /\ RowOK(run[r], r, made)
    BY Typed DEF Kept
  <2>2. CASE run'[r] = run[r]
    BY <2>1, <2>2
  <2>3. CASE run'[r] = [run[r] EXCEPT !.pending = FALSE]
    <3>1. /\ run'[r].stage = run[r].stage /\ run'[r].term = run[r].term
          /\ run'[r].commit = run[r].commit /\ run'[r].pending = FALSE
      BY <2>1, <2>3 DEF Row
    <3> QED BY <2>1, <3>1 DEF Open, RowOK, IsDone
  <2>4. CASE run'[r] = Failed(run[r])
    BY <2>1, <2>4, RowsEnd
  <2>5. CASE run'[r] = Done(run[r]) /\ made[Tree(r)] > 0 /\ (r \in Roots => LandedOn(base, made, r))
    BY <2>1, <2>5, RowsEnd
  <2> QED BY <2>2, <2>3, <2>4, <2>5 DEF Ended
<1> QED BY <1>1 DEF Falls, Roots

LEMMA KeptDrop ==
  ASSUME Kept, RollbackAlone, NEW c \in Calls, DropBranch(c), TypeOK'
  PROVE  Kept' /\ Falls(run, run')
<1> DEFINE k0 == call[c]
           t == Tree(k0.run)
           k == [k0 EXCEPT !.pc = "finish"]
<1>1. /\ Active(c) /\ k0.pc = "branch" /\ k0.pc \in Merging /\ ~Guarded(k0)
      /\ UNCHANGED <<run, base, scan, made>>
      /\ branch' \in {branch, [branch EXCEPT ![t] = {}]} /\ call' = [call EXCEPT ![c] = k]
  BY DEF DropBranch, Goes, Active, Merging, Guarded
<1>2. t \in Roots /\ branch \in [Roots -> Commit] /\ k0 \in CallRecord /\ CallOK(k0, base, run)
  BY <1>1, HeadNames, Typed DEF Kept
<1>3. LandedOn(base, made, t) /\ made[t] > 0
  BY <1>1, MergedHasLanded
<1>4. k.pc = "finish" /\ k.run = k0.run /\ k.kind = k0.kind /\ k.seen = k0.seen /\ k.kills = k0.kills
  BY <1>2 DEF CallRecord
<1>5. call'[c] = k /\ \A d \in Calls : d # c => call'[d] = call[d]
  BY <1>1, Typed DEF Kept
<1> HIDE DEF k, t
<1>6. CallOK(k, base, run) /\ ~Guarded(k)
  BY <1>1, <1>2, <1>4 DEF CallOK, Cleared, Merging, Guarded
<1>7. SoundOn(base, branch', made, run) /\ \A u \in Roots : BranchOK(branch'[u], made, u)
  <2>1. CASE branch' = branch
    BY <2>1 DEF Kept
  <2>2. CASE branch' = [branch EXCEPT ![t] = {}]
    <3>1. SoundOn(base, branch', made, run) /\ BranchOK({}, made, t)
      BY <1>2, <1>3, <2>2, SoundAfterDelete DEF Kept
    <3> QED BY <1>2, <2>2, <3>1 DEF Kept
  <2> QED BY <1>1, <2>1, <2>2
<1>8. \A d \in Calls : ~Guarded(call'[d])
  BY <1>1, <1>5, <1>6, NobodyGuarded
<1>9. \A d \in Calls : Active(d)' => CallOK(call'[d], base, run)
  BY <1>5, <1>6 DEF Kept, Active
<1>10. Alone'
  BY <1>1, <1>4, <1>5, StillAlone DEF Kept
<1>11. (\A r \in Run : RowOK(run[r], r, made)) /\ (scan.next # 0 => \A r \in Run : RowOK(scan.rows[r], r, made))
  BY DEF Kept
<1> QED BY <1>1, <1>7, <1>8, <1>9, <1>10, <1>11 DEF Kept, Falls

LEMMA KeptFinish ==
  ASSUME Kept, RollbackAlone, NEW c \in Calls, Finish(c), TypeOK'
  PROVE  Kept' /\ Falls(run, run')
<1> DEFINE k0 == call[c]
           r == k0.run
           t == Tree(r)
           R == [run EXCEPT ![r] = Done(@)]
<1>1. /\ Active(c) /\ k0.pc = "finish" /\ k0.pc \in Merging /\ ~Guarded(k0)
      /\ UNCHANGED <<branch, base, scan, made>> /\ call' = [call EXCEPT ![c] = Idle]
      /\ run' = [s \in Run |->
                   IF s \in Ancestors[r] /\ Open(R[s]) THEN Done(R[s])
                   ELSE IF s \in Ancestors[r] /\ R[s].stage = "done" THEN [R[s] EXCEPT !.pending = FALSE]
                   ELSE R[s]]
  BY DEF Finish, Returns, Active, Merging, Guarded
<1>2. r \in Run /\ t \in Roots /\ run \in [Run -> Row] /\ branch \in [Roots -> Commit]
  BY <1>1, HeadNames, Typed DEF Kept
<1>3. LandedOn(base, made, t) /\ made[t] > 0
  BY <1>1, MergedHasLanded
<1>4. R[r] = Done(run[r]) /\ \A s \in Run : s # r => R[s] = run[s]
  BY <1>2
<1> HIDE DEF R
<1>5. ASSUME NEW s \in Run
      PROVE  Ended(run[s], run'[s], s)
  <2>1. \/ s \in Ancestors[r] /\ Open(R[s]) /\ run'[s] = Done(R[s])
        \/ s \in Ancestors[r] /\ run'[s] = [R[s] EXCEPT !.pending = FALSE]
        \/ run'[s] = R[s]
    BY <1>1
  <2>2. s \in Ancestors[r] => made[Tree(s)] > 0 /\ (s \in Roots => LandedOn(base, made, s))
    BY <1>2, <1>3, SameTree
  <2>3. CASE s # r
    BY <1>4, <2>1, <2>2, <2>3 DEF Ended
  <2>4. CASE s = r
    <3>1. ~Open(Done(run[r])) /\ [Done(run[r]) EXCEPT !.pending = FALSE] = Done(run[r])
      <4>1. run[r] \in Row
        BY <1>2
      <4> QED BY <4>1 DEF Open, Done, Row
    <3>2. run'[s] = Done(run[s])
      BY <1>4, <2>1, <2>4, <3>1
    <3>3. s \in Ancestors[r]
      BY <1>2, <2>4, AncestorsLeast
    <3> QED BY <2>2, <3>2, <3>3 DEF Ended
  <2> QED BY <2>3, <2>4
<1>6. /\ Falls(run, run') /\ \A q \in Run : RowOK(run'[q], q, made)
      /\ \A u \in Roots : IsDone(run'[u]) => IsDone(run[u]) \/ LandedOn(base, made, u)
  BY <1>5, RowsFall
<1>7. call'[c] = Idle /\ Idle.pc = "idle" /\ \A d \in Calls : d # c => call'[d] = call[d]
  BY <1>1, Typed DEF Kept, Idle
<1>8. \A d \in Calls : ~Guarded(call[d])
  BY <1>1, NobodyGuarded
<1>9. Alone'
  BY <1>1, <1>7, StillAlone DEF Kept
<1>10. scan'.next # 0 => \A q \in Run : RowOK(scan'.rows[q], q, made)
  BY <1>1 DEF Kept
<1>11. \A d \in Calls : call'[d] = call[d] \/ call'[d].pc = "idle"
  BY <1>7
<1> QED BY <1>1, <1>6, <1>8, <1>9, <1>10, <1>11, RowStep

LEMMA KeptStartScan ==
  ASSUME Kept, StartScan, TypeOK'
  PROVE  Kept' /\ Falls(run, run')
<1>1. /\ scan.next = 0 /\ MayStart("reconcile") /\ scan'.next = 1 /\ scan'.rows = run
      /\ UNCHANGED <<branch, base, call, made>>
      /\ \A r \in Run : run'[r] = run[r] \/ run'[r] = [run[r] EXCEPT !.pending = FALSE]
  BY DEF StartScan
<1>2. Falls(run, run') /\ \A r \in Run : RowOK(run'[r], r, made)
  BY <1>1, RowsFall DEF Ended
<1>3. \A t \in Roots : IsDone(run'[t]) => IsDone(run[t])
  <2>1. ASSUME NEW t \in Roots
        PROVE  run'[t].stage = run[t].stage /\ run'[t].term = run[t].term
    <3>1. t \in Run /\ run[t] \in Row
      BY Typed DEF Kept, Roots
    <3> QED BY <1>1, <3>1 DEF Row
  <2> QED BY <2>1 DEF IsDone
<1>4. Alone'
  <2>1. ASSUME "unattended" \notin Overlap, NEW c \in Calls, Active(c), call[c].kind = "unattended"
        PROVE  FALSE
    <3>1. "unattended" \in InFlight
      BY <2>1 DEF InFlight, Active
    <3> QED BY <1>1, <2>1, <3>1 DEF MayStart
  <2> QED BY <1>1, <2>1 DEF Alone, Active
<1>5. \A r \in Run : RowOK(scan'.rows[r], r, made)
  BY <1>1 DEF Kept
<1> QED BY <1>1, <1>2, <1>3, <1>4, <1>5, RowStep

LEMMA KeptScan ==
  ASSUME Kept, RollbackAlone, ScanRun \/ EndScan, TypeOK'
  PROVE  Kept' /\ Falls(run, run')
<1>1. scan.next # 0 /\ UNCHANGED <<branch, base, call, made>>
  BY ParentBelow, ApprovalBoundsAssumption DEF ScanRun, EndScan
<1>2. \A d \in Calls : ~Guarded(call[d])
  BY <1>1, NobodyGuarded
<1>3. \A q \in Run : RowOK(scan.rows[q], q, made)
  BY <1>1 DEF Kept
<1>4. scan \in ScanRecord
  BY Typed DEF Kept
<1>5. scan'.next # 0 => scan'.rows = scan.rows
  <2>1. CASE ScanRun
    <3>1. \/ scan' = [scan EXCEPT !.next = scan.next + 1, !.closed = @ \cup {scan.next}]
          \/ scan' = [scan EXCEPT !.next = scan.next + 1]
      BY <2>1 DEF ScanRun
    <3> QED BY <1>4, <3>1 DEF ScanRecord
  <2>2. CASE EndScan
    <3>1. scan' = Resting /\ Resting.next = 0
      BY <2>2 DEF EndScan, Resting
    <3> QED BY <3>1
  <2> QED BY <2>1, <2>2
<1>6. Alone'
  BY <1>1, StillAlone DEF Kept
<1>7. ASSUME NEW s \in Run
      PROVE  Ended(run[s], run'[s], s)
  <2>1. CASE ScanRun
    <3> DEFINE r == scan.next
    <3>1. /\ r \in Run
          /\ \/ run'[s] = run[s]
             \/ Zombie(r) /\ s \in Ancestors[r] /\ run'[s] = Done(run[s])
      BY <2>1, AncestorsLeast DEF ScanRun
    <3>2. ASSUME Zombie(r), s \in Ancestors[r]
          PROVE  made[Tree(s)] > 0 /\ (s \in Roots => LandedOn(base, made, s))
      <4>1. Touched(scan.rows[r].commit, Tree(r)) /\ scan.rows[r].commit \subseteq base
        BY <1>3, <3>1, <3>2 DEF Zombie, RowOK, Names
      <4>2. Touched(base, Tree(r)) /\ Tree(r) \in Roots
        BY <3>1, <4>1, MoreLanded, TreeIsRoot
      <4>3. LandedOn(base, made, Tree(r))
        BY <4>2 DEF Kept, SoundOn, SoundFor
      <4>4. Tree(s) = Tree(r) /\ (s \in Roots => s = Tree(r))
        BY <3>1, <3>2, SameTree
      <4> QED BY <4>3, <4>4 DEF LandedOn
    <3> QED BY <3>1, <3>2 DEF Ended
  <2>2. CASE EndScan
    <3> DEFINE rows == scan.rows
               asks == {r \in Run : Open(rows[r]) /\ rows[r].stage = "ship" /\ rows[r].pending}
               below == (UNION {OpenBelow(r, rows) : r \in asks}) \ scan.closed
    <3>1. run'[s] = run[s] \/ run'[s] = Failed(run[s]) \/ (s \in below /\ run'[s] = Done(run[s]))
      BY <2>2 DEF EndScan
    <3>2. ASSUME s \in below
          PROVE  made[Tree(s)] > 0 /\ s \notin Roots
      <4>1. PICK r \in asks : s \in Descendants(r)
        BY <3>2 DEF OpenBelow
      <4>2. made[Tree(r)] > 0
        BY <1>3, <4>1 DEF RowOK
      <4> QED BY <4>1, <4>2, DescendantsBelow
    <3> HIDE DEF below
    <3> QED BY <3>1, <3>2 DEF Ended
  <2> QED BY <2>1, <2>2
<1>8. /\ Falls(run, run') /\ \A q \in Run : RowOK(run'[q], q, made)
      /\ \A u \in Roots : IsDone(run'[u]) => IsDone(run[u]) \/ LandedOn(base, made, u)
  BY <1>7, RowsFall
<1>9. scan'.next # 0 => \A q \in Run : RowOK(scan'.rows[q], q, made)
  BY <1>3, <1>5
<1> QED BY <1>1, <1>2, <1>6, <1>8, <1>9, RowStep

LEMMA KeptStep ==
  ASSUME Chain, RollbackAlone, Kept, [Next]_vars
  PROVE  Kept' /\ Falls(run, run')
<1>1. TypeOK'
  BY TypeStep DEF Kept
<1>2. CASE \E r \in Run : Work(r) \/ AskApproval(r) \/ Conclude(r) \/ Reject(r)
  BY <1>1, <1>2, KeptWork, KeptAskReject, KeptConclude
<1>3. CASE \E c \in Calls, r \in Run : Approve(c, r) \/ ApproveUnattended(c, r) \/ ApproveRebase(c, r)
  BY <1>1, <1>3, KeptStarts
<1>4. ASSUME NEW c \in Calls, Steps(c)
      PROVE  Kept' /\ Falls(run, run')
  BY <1>1, <1>4, KeptChecks, KeptPushes, KeptKill, KeptRebase, KeptMerge, KeptRollback, KeptDrop,
     KeptFinish DEF Steps
<1>5. CASE StartScan \/ ScanRun \/ EndScan \/ Crash
  BY <1>1, <1>5, KeptStartScan, KeptScan, KeptCrash
<1>6. CASE UNCHANGED vars
  BY <1>1, <1>6 DEF vars, Kept, Alone, Active, Falls
<1> QED BY <1>2, <1>3, <1>4, <1>5, <1>6 DEF Next, Operator

LEMMA KeptSafe ==
  ASSUME Kept
  PROVE  NoWorkLost /\ DoneMeansLanded
<1>1. \A t \in Roots : LandedOn(base, made, t) => Landed(t)
  BY DEF LandedOn, Landed, Has, Rebases
<1>2. ASSUME NEW t \in Roots, branch[t] = {}
      PROVE  LandedOn(base, made, t)
  BY <1>2 DEF Kept, SoundOn, SoundFor, BranchOK, LandedOn, Has
<1>3. ASSUME NEW t \in Roots, IsDone(run[t])
      PROVE  LandedOn(base, made, t)
  BY <1>3 DEF Kept, SoundOn, SoundFor
<1> QED BY <1>1, <1>2, <1>3 DEF NoWorkLost, DoneMeansLanded, IsDone

\* When the runs of a lineage follow one another, and a call that may reset the base branch
\* has the checkout for itself, a branch is deleted only with all its work on the base
\* branch, whatever else runs side by side and whenever the server stops.
\* (finalizeSuccessfulMerge after mergeViaLocalBranch, with its rollback.)
THEOREM DeletedHasLanded == Chain /\ RollbackAlone => (Spec => []NoWorkLost)
<1> SUFFICES ASSUME Chain, RollbackAlone PROVE Spec => []NoWorkLost
  OBVIOUS
<1>1. Kept /\ [Next]_vars => Kept'
  BY KeptStep
<1>2. Kept => NoWorkLost
  BY KeptSafe
<1> QED BY <1>1, <1>2, KeptInit, PTL DEF Spec

\* ... and a root run is done only with all the work of its lineage there.
\* (markDone in finalizeSuccessfulMerge and in reconcileSinglePass.)
THEOREM DoneHasLanded == Chain /\ RollbackAlone => (Spec => []DoneMeansLanded)
<1> SUFFICES ASSUME Chain, RollbackAlone PROVE Spec => []DoneMeansLanded
  OBVIOUS
<1>1. Kept /\ [Next]_vars => Kept'
  BY KeptStep
<1>2. Kept => DoneMeansLanded
  BY KeptSafe
<1> QED BY <1>1, <1>2, KeptInit, PTL DEF Spec

--------------------------------------------------------------------------------
(* What is kept besides, on the way to VerdictsAgree.                          *)

\* A lineage is closed: a run of it was merged, and nothing of it is open.
Closed(rn, t) ==
  /\ \E r \in LineageOf(t) : IsDone(rn[r])
  /\ \A s \in LineageOf(t) : ~Open(rn[s])

\* What is done asks for nothing.
Unasked == \A r \in Run : run[r].stage = "done" => ~run[r].pending

\* A lineage that the base branch has work of is closed, or its call has yet to close it.
OnBase ==
  \A t \in Roots : Touched(base, t) =>
    Closed(run, t) \/ \E c \in Calls : call[c].pc \in Merging /\ Tree(call[c].run) = t

\* A rollback leaves closed lineages on the base branch.
OnHead ==
  \A c \in Calls : Guarded(call[c]) => \A t \in Roots : Touched(call[c].pre, t) => Closed(run, t)

\* The run that the policy looks at is not done.
Examined ==
  \A c \in Calls : call[c].pc \in {"policy", "clean"} => run[call[c].run].stage # "done"

\* A reconcile has read no open row of a lineage that the base branch has work of.
Scanned ==
  scan.next # 0 =>
    /\ \A c \in Calls : ~Active(c)
    /\ \A t \in Roots : Touched(base, t) => \A s \in LineageOf(t) : ~Open(scan.rows[s])

Agreed == Kept /\ (crashes = 0 => Unasked /\ OnBase /\ OnHead /\ Examined /\ Scanned)

\* Only operators' approvals run beside one another.
ApprovesOverlap == Overlap \subseteq {"approve", "rebase"}

\* A done run stays done, and a closed lineage closed.
Stays(rn, rn2) == \A r \in Run : IsDone(rn[r]) => IsDone(rn2[r])

LEMMA ClosedStays ==
  ASSUME NEW rn, NEW rn2, Falls(rn, rn2), Stays(rn, rn2), NEW t, Closed(rn, t)
  PROVE  Closed(rn2, t)
BY LineageRuns DEF Closed, Falls, Stays

\* A row changes in one of these ways, none of which undoes what is done.
Moved(row, row2) ==
  \/ /\ row2.stage = row.stage /\ row2.term = row.term
     /\ row2.pending => row.pending \/ row.stage # "done"
  \/ Open(row) /\ row2.stage = "ship"
  \/ row2.stage = "done" /\ row2.term = "none" /\ ~row2.pending
  \/ row.stage # "done" /\ row2.stage = row.stage

LEMMA MovesStay ==
  ASSUME Unasked, \A r \in Run : Moved(run[r], run'[r])
  PROVE  Stays(run, run') /\ Unasked'
<1>1. ASSUME NEW r \in Run
      PROVE  /\ IsDone(run[r]) => IsDone(run'[r])
             /\ run'[r].stage = "done" => ~run'[r].pending
  <2>1. Moved(run[r], run'[r]) /\ (run[r].stage = "done" => ~run[r].pending)
    BY DEF Unasked
  <2> QED BY <2>1 DEF Moved, IsDone, Open
<1> QED BY <1>1 DEF Stays, Unasked

\* A row that a step does not change, or sets the commit of.
LEMMA SameMoves ==
  ASSUME NEW row \in Row
  PROVE  /\ Moved(row, row) /\ Moved(row, Done(row)) /\ Moved(row, [row EXCEPT !.pending = FALSE])
         /\ \A b : Moved(row, [row EXCEPT !.commit = b])
         /\ row.stage # "done" => Moved(row, Failed(row)) /\ \A p : Moved(row, [row EXCEPT !.pending = p])
BY DEF Row, Moved, Done, Failed

LEMMA OneMoves ==
  ASSUME Kept, NEW r \in Run, NEW row, run' = [run EXCEPT ![r] = row], Moved(run[r], row)
  PROVE  \A s \in Run : Moved(run[s], run'[s])
<1>1. ASSUME NEW s \in Run
      PROVE  Moved(run[s], run'[s])
  <2>1. run \in [Run -> Row] /\ run[s] \in Row
    BY Typed DEF Kept
  <2>2. CASE s = r
    BY <2>1, <2>2
  <2>3. CASE s # r
    BY <2>1, <2>3, SameMoves
  <2> QED BY <2>2, <2>3
<1> QED BY <1>1

LEMMA MovedByRuns ==
  ASSUME Kept, Unasked, NEW r \in Run, AskApproval(r) \/ Conclude(r) \/ Reject(r)
  PROVE  \A s \in Run : Moved(run[s], run'[s])
<1>1. run \in [Run -> Row] /\ run[r] \in Row
  BY Typed DEF Kept
<1>2. CASE AskApproval(r)
  <2> DEFINE row == [run[r] EXCEPT !.stage = "ship", !.pending = TRUE, !.commit = branch[Tree(r)]]
  <2>1. run' = [run EXCEPT ![r] = row] /\ Open(run[r])
    BY <1>1, <1>2 DEF AskApproval, Live
  <2>2. row.stage = "ship"
    BY <1>1 DEF Row
  <2> HIDE DEF row
  <2> QED BY <2>1, <2>2, OneMoves DEF Moved
<1>3. CASE Conclude(r)
  <2> DEFINE p == Parent[r]
             R == [run EXCEPT ![r] = Done(@)]
             row == [run[p] EXCEPT !.pending = TRUE, !.commit = branch[Tree(r)]]
  <2>1. p \in Run /\ p # r /\ run[p].stage = "ship"
    BY <1>3, ParentBelow, ApprovalBoundsAssumption DEF Conclude, Run
  <2>2. run' = [R EXCEPT ![p] = [R[p] EXCEPT !.pending = TRUE, !.commit = branch[Tree(r)]]]
    BY <1>3 DEF Conclude
  <2>3. R[p] = run[p] /\ R[r] = Done(run[r]) /\ (\A s \in Run : s # r => R[s] = run[s]) /\ DOMAIN R = Run
    BY <1>1, <2>1
  <2> HIDE DEF R
  <2>4. \A s \in Run : run'[s] = IF s = p THEN row ELSE IF s = r THEN Done(run[r]) ELSE run[s]
    BY <2>1, <2>2, <2>3
  <2>5. row.stage = "ship" /\ row.term = run[p].term
    BY <1>1, <2>1 DEF Row
  <2> HIDE DEF row, p
  <2>6. Moved(run[p], row)
    BY <2>1, <2>5 DEF Moved
  <2> QED BY <1>1, <2>4, <2>6, SameMoves
<1>4. CASE Reject(r)
  <2>1. run' = [run EXCEPT ![r] = Failed(run[r])] /\ run[r].stage # "done"
    BY <1>4 DEF Reject, Unasked
  <2> QED BY <1>1, <2>1, OneMoves, SameMoves
<1> QED BY <1>2, <1>3, <1>4

LEMMA MovedByCalls ==
  ASSUME Kept, Examined, NEW c \in Calls, Steps(c)
  PROVE  \A s \in Run : Moved(run[s], run'[s])
<1> DEFINE r == call[c].run
           t == Tree(r)
<1>1. /\ run \in [Run -> Row] /\ r \in Run /\ run[r] \in Row
      /\ \A s \in Run : Moved(run[s], run[s])
  BY CallTypes, SameMoves, Typed DEF Kept
<1>2. CASE run' = run
  BY <1>1, <1>2
<1>3. \A b : run' = [run EXCEPT ![r] = [run[r] EXCEPT !.commit = b]] => \A s \in Run : Moved(run[s], run'[s])
  BY <1>1, OneMoves, SameMoves
<1>4. CASE Policy(c) \/ Relink(c) \/ Context(c) \/ Record(c) \/ Rollback(c)
  <2>1. run' = run \/ \E b : run' = [run EXCEPT ![r] = [run[r] EXCEPT !.commit = b]]
    <3>1. CASE Policy(c) \/ Relink(c)
      <4> DEFINE row == IF t \in tree THEN [run[r] EXCEPT !.commit = branch[t]] ELSE run[r]
      <4>1. run' = [run EXCEPT ![r] = row]
        BY <3>1 DEF Policy, Relink
      <4> QED BY <1>1, <4>1
    <3>2. CASE Context(c) \/ Record(c) \/ Rollback(c)
      BY <3>2 DEF Context, Record, Rollback
    <3> QED BY <1>4, <3>1, <3>2
  <2> QED BY <1>2, <1>3, <2>1
<1>5. CASE PolicyAllows(c) \/ PolicyStops(c)
  <2>1. PICK b : run' = [run EXCEPT ![r] = [run[r] EXCEPT !.pending = b]]
    BY <1>5 DEF PolicyAllows, PolicyStops
  <2>2. call[c].pc = "clean" /\ Active(c)
    BY <1>5 DEF PolicyAllows, PolicyStops, Active
  <2>3. run[r].stage # "done"
    BY <2>2 DEF Examined
  <2> QED BY <1>1, <2>1, <2>3, OneMoves, SameMoves
<1>6. CASE Kill(c)
  <2>1. PICK s \in call[c].kills : run' = [run EXCEPT ![s] = Done(run[s])]
    BY <1>6 DEF Kill
  <2>2. call[c] \in CallRecord
    BY CallTypes DEF Kept
  <2>3. s \in Run /\ run[s] \in Row
    BY <1>1, <2>2 DEF CallRecord
  <2> QED BY <2>1, <2>3, OneMoves, SameMoves
<1>7. CASE Finish(c)
  <2> DEFINE R == [run EXCEPT ![r] = Done(@)]
  <2>1. run' = [s \in Run |->
                  IF s \in Ancestors[r] /\ Open(R[s]) THEN Done(R[s])
                  ELSE IF s \in Ancestors[r] /\ R[s].stage = "done" THEN [R[s] EXCEPT !.pending = FALSE]
                  ELSE R[s]]
    BY <1>7 DEF Finish
  <2>2. R[r] = Done(run[r]) /\ \A s \in Run : s # r => R[s] = run[s]
    BY <1>1
  <2> HIDE DEF R
  <2>3. ASSUME NEW s \in Run
        PROVE  Moved(run[s], run'[s])
    <3>1. run'[s] = Done(R[s]) \/ run'[s] = [R[s] EXCEPT !.pending = FALSE] \/ run'[s] = R[s]
      BY <2>1
    <3>2. run[s] \in Row
      BY <1>1
    <3>3. CASE s # r
      BY <2>2, <3>1, <3>2, <3>3, SameMoves
    <3>4. CASE s = r
      <4>1. [Done(run[s]) EXCEPT !.pending = FALSE] = Done(run[s]) /\ Done(Done(run[s])) = Done(run[s])
        BY <3>2 DEF Done, Row
      <4>2. R[s] = Done(run[s])
        BY <2>2, <3>4
      <4>3. run'[s] = Done(run[s])
        BY <3>1, <4>1, <4>2
      <4> QED BY <3>2, <4>3, SameMoves
    <3> QED BY <3>3, <3>4
  <2> QED BY <2>3
<1>8. CASE \/ Rebase(c) \/ Check(c) \/ Ahead(c) \/ PreMergeHead(c) \/ GitMerge(c) \/ PushDone(c)
           \/ PushFails(c) \/ RollbackFails(c) \/ GitFails(c) \/ RemoveTree(c) \/ DropBranch(c)
  <2>1. run' = run
    BY <1>8 DEF Rebase, Check, Ahead, PreMergeHead, GitMerge, PushDone, PushFails, RollbackFails,
                GitFails, RemoveTree, DropBranch
  <2> QED BY <1>2, <2>1
<1> QED BY <1>4, <1>5, <1>6, <1>7, <1>8 DEF Steps

LEMMA MovedByScan ==
  ASSUME Kept, StartScan \/ ScanRun
  PROVE  \A s \in Run : Moved(run[s], run'[s])
<1>1. ASSUME NEW s \in Run
      PROVE  run[s] \in Row
  BY Typed DEF Kept
<1>2. CASE StartScan
  <2>1. \A s \in Run : run'[s] = run[s] \/ run'[s] = [run[s] EXCEPT !.pending = FALSE]
    BY <1>2 DEF StartScan
  <2> QED BY <1>1, <2>1, SameMoves
<1>3. CASE ScanRun
  <2>1. \A s \in Run : run'[s] = run[s] \/ run'[s] = Done(run[s])
    BY <1>3 DEF ScanRun
  <2> QED BY <1>1, <2>1, SameMoves
<1> QED BY <1>2, <1>3

LEMMA AgreedInit ==
  ASSUME Init
  PROVE  Agreed
<1>1. Kept
  BY KeptInit
<1>2. base = Genesis /\ call = [c \in Calls |-> Idle] /\ scan = Resting
  BY DEF Init
<1>3. scan.next = 0 /\ \A c \in Calls : call[c].pc = "idle" /\ ~Guarded(call[c])
  BY <1>2 DEF Idle, Resting, Guarded
<1>4. \A t \in Roots : ~Touched(base, t)
  <2>1. ASSUME NEW t \in Roots, NEW n, NEW g
        PROVE  <<t, n, g>> # <<0, 0, 0>>
    BY ParentBelow DEF Roots
  <2> QED BY <1>2, <2>1 DEF Touched, Has, Genesis
<1>5. Unasked
  <2>1. PICK asked \in SUBSET Run :
          run = [r \in Run |->
                   LET waits == Descendants(r) # {} /\ r \notin asked
                       spent == Parent[r] # 0 /\ Parent[r] \in asked
                   IN  [stage |-> IF r \in asked \/ waits THEN "ship" ELSE "work",
                        term |-> IF spent THEN "failed" ELSE "none",
                        pending |-> r \in asked,
                        commit |-> IF r \in asked \/ waits THEN Genesis \cup {<<Tree(r), 1, 0>>} ELSE {}]]
    BY DEF Init
  <2>2. \A r \in Run : run[r].stage = IF r \in asked \/ (Descendants(r) # {} /\ r \notin asked)
                                      THEN "ship" ELSE "work"
    BY <2>1
  <2> QED BY <2>2 DEF Unasked
<1> QED BY <1>1, <1>3, <1>4, <1>5 DEF Agreed, OnBase, OnHead, Examined, Scanned, Active

\* While a reconcile is under way nothing starts; while the policy or an unattended merge
\* is, nothing else is.
LEMMA Exclusive ==
  ASSUME Kept, ApprovesOverlap
  PROVE  /\ \A c, d \in Calls : Active(c) /\ Active(d) /\ call[c].kind = "unattended" => d = c
         /\ \A c \in Calls : Active(c) /\ call[c].kind = "unattended" => scan.next = 0
         /\ \A c \in Calls : call[c].pc \in {"policy", "clean"} => Active(c) /\ call[c].kind = "unattended"
         /\ \A c \in Calls : Guarded(call[c]) => Active(c) /\ call[c].kind = "unattended"
         /\ RollbackAlone
<1>1. "unattended" \notin Overlap
  BY DEF ApprovesOverlap
<1>2. ASSUME NEW c \in Calls, call[c].pc \in {"policy", "clean"}
      PROVE  Active(c) /\ call[c].kind = "unattended"
  <2>1. Active(c)
    BY <1>2 DEF Active
  <2> QED BY <1>2, <2>1 DEF Kept, CallOK
<1>3. \A c \in Calls : Guarded(call[c]) => Active(c) /\ call[c].kind = "unattended"
  BY DEF Guarded, Active
<1> QED BY <1>1, <1>2, <1>3 DEF Kept, Alone, RollbackAlone

\* A finished call has closed its lineage.
LEMMA FinishCloses ==
  ASSUME Chain, Kept, NEW c \in Calls, Finish(c), Falls(run, run')
  PROVE  Closed(run', Tree(call[c].run))
<1> DEFINE r == call[c].run
           R == [run EXCEPT ![r] = Done(@)]
<1>1. /\ Active(c) /\ call[c].pc = "finish"
      /\ run' = [s \in Run |->
                   IF s \in Ancestors[r] /\ Open(R[s]) THEN Done(R[s])
                   ELSE IF s \in Ancestors[r] /\ R[s].stage = "done" THEN [R[s] EXCEPT !.pending = FALSE]
                   ELSE R[s]]
  BY DEF Finish, Active
<1>2. r \in Run /\ CallOK(call[c], base, run) /\ run \in [Run -> Row]
  BY <1>1, HeadNames, Typed DEF Kept
<1>3. R \in [Run -> Row] /\ R[r] = Done(run[r]) /\ Done(run[r]) \in Row
  BY <1>2, RowTypes
<1> HIDE DEF R
<1>4. IsDone(run'[r])
  <2>1. Done(run[r]).stage = "done" /\ Done(run[r]).term = "none" /\ ~Open(Done(run[r]))
    BY <1>2 DEF Done, Open, Row
  <2>2. LET row == Done(run[r]) IN [row EXCEPT !.pending = FALSE].stage = row.stage
                                   /\ [row EXCEPT !.pending = FALSE].term = row.term
    BY <1>3 DEF Row
  <2>3. run'[r] = Done(run[r]) \/ run'[r] = [Done(run[r]) EXCEPT !.pending = FALSE]
    BY <1>1, <1>2, <1>3, <2>1
  <2> QED BY <2>1, <2>2, <2>3 DEF IsDone
<1>5. ASSUME NEW s \in LineageOf(Tree(r))
      PROVE  ~Open(run'[s])
  <2>1. s \in Run /\ Tree(s) = Tree(r)
    BY DEF LineageOf
  <2>2. CASE s = r
    BY <1>4, <2>2 DEF IsDone, Open
  <2>3. CASE s \in Descendants(r)
    <3>1. ~Open(run[s])
      BY <1>1, <1>2, <2>3 DEF CallOK, Cleared, Merging
    <3> QED BY <2>1, <3>1 DEF Falls
  <2>4. CASE r \in Descendants(s)
    <3>1. s \in Ancestors[r] /\ R[s] \in Row
      BY <1>3, <2>1, <2>4 DEF Descendants
    <3>2. ~Open(Done(R[s])) /\ (~Open(R[s]) => ~Open([R[s] EXCEPT !.pending = FALSE]))
      BY <3>1 DEF Done, Open, Row
    <3> QED BY <1>1, <2>1, <3>1, <3>2
  <2> QED BY <1>2, <2>1, <2>2, <2>3, <2>4, ChainCompares
<1> QED BY <1>2, <1>4, <1>5 DEF Closed, LineageOf

\* A step that leaves the base branch alone.
LEMMA AgreedCalm ==
  ASSUME Agreed, crashes = 0, ApprovesOverlap, Kept', Falls(run, run'), Stays(run, run'), Unasked',
         base' = base, Examined', Scanned',
         \A c \in Calls : call[c].pc \in Merging =>
           \/ call'[c].pc \in Merging /\ call'[c].run = call[c].run
           \/ Closed(run', Tree(call[c].run)),
         \A c \in Calls : Guarded(call'[c]) =>
           \/ Guarded(call[c]) /\ call'[c].pre = call[c].pre
           \/ call[c].pc = "head" /\ call[c].kind = "unattended" /\ call'[c].pre = base
  PROVE  Agreed'
<1>1. \A t \in Roots : Closed(run, t) => Closed(run', t)
  BY ClosedStays
<1>2. OnBase'
  <2>1. ASSUME NEW t \in Roots, Touched(base, t), ~Closed(run', t)
        PROVE  \E c \in Calls : call'[c].pc \in Merging /\ Tree(call'[c].run) = t
    <3>1. PICK c \in Calls : call[c].pc \in Merging /\ Tree(call[c].run) = t
      BY <1>1, <2>1 DEF Agreed, OnBase
    <3> QED BY <2>1, <3>1
  <2> QED BY <2>1 DEF OnBase
<1>3. ASSUME NEW c \in Calls, Guarded(call'[c]), NEW t \in Roots, Touched(call'[c].pre, t)
      PROVE  Closed(run', t)
  <2>1. CASE Guarded(call[c]) /\ call'[c].pre = call[c].pre
    BY <1>1, <1>3, <2>1 DEF Agreed, OnHead
  <2>2. CASE call[c].pc = "head" /\ call[c].kind = "unattended" /\ call'[c].pre = base
    <3>1. ASSUME NEW d \in Calls, call[d].pc \in Merging
          PROVE  FALSE
      <4>1. Active(c) /\ Active(d) /\ d # c
        BY <2>2, <3>1 DEF Active, Merging
      <4> QED BY <2>2, <4>1, Exclusive DEF Agreed
    <3>2. Closed(run, t)
      BY <1>3, <2>2, <3>1 DEF Agreed, OnBase
    <3> QED BY <1>1, <3>2
  <2> QED BY <1>3, <2>1, <2>2
<1>4. OnHead'
  BY <1>3 DEF OnHead
<1> QED BY <1>2, <1>4 DEF Agreed

LEMMA AgreedRuns ==
  ASSUME Agreed, crashes = 0, ApprovesOverlap, NEW r \in Run,
         Work(r) \/ AskApproval(r) \/ Conclude(r) \/ Reject(r), Kept', Falls(run, run')
  PROVE  Agreed'
<1>1. UNCHANGED <<base, call, scan>>
  BY DEF Work, AskApproval, Conclude, Reject
<1>2. \A s \in Run : Moved(run[s], run'[s])
  <2>1. CASE Work(r)
    <3>1. run' = run
      BY <2>1 DEF Work
    <3>2. \A s \in Run : run[s] \in Row
      BY Typed DEF Agreed, Kept
    <3> QED BY <3>1, <3>2, SameMoves
  <2>2. CASE AskApproval(r) \/ Conclude(r) \/ Reject(r)
    BY <2>2, MovedByRuns DEF Agreed
  <2> QED BY <2>1, <2>2
<1>3. Stays(run, run') /\ Unasked'
  BY <1>2, MovesStay DEF Agreed
<1>4. ASSUME NEW c \in Calls, call[c].pc \in {"policy", "clean"}
      PROVE  run'[call[c].run].stage # "done"
  <2> DEFINE q == call[c].run
  <2>1. Active(c)
    BY <1>4 DEF Active
  <2>2. q \in Run /\ run[q].stage # "work" /\ run[q].stage # "done" /\ run \in [Run -> Row]
    BY <1>4, <2>1, HeadNames, Typed DEF CallOK, Agreed, Examined, Kept
  <2> HIDE DEF q
  <2>3. CASE Work(r)
    BY <2>2, <2>3 DEF Work, q
  <2>4. CASE AskApproval(r)
    <3>1. run' = [run EXCEPT ![r] = [run[r] EXCEPT !.stage = "ship", !.pending = TRUE, !.commit = branch[Tree(r)]]]
      BY <2>2, <2>4 DEF AskApproval
    <3>2. [run[r] EXCEPT !.stage = "ship", !.pending = TRUE, !.commit = branch[Tree(r)]].stage = "ship"
      BY <2>2 DEF Row
    <3>3. run'[q].stage \in {run[q].stage, "ship"}
      BY <2>2, <3>1, <3>2
    <3> QED BY <2>2, <3>3 DEF q
  <2>5. CASE Conclude(r)
    <3> DEFINE p == Parent[r]
               R == [run EXCEPT ![r] = Done(@)]
               row == [R[p] EXCEPT !.pending = TRUE, !.commit = branch[Tree(r)]]
    <3>1. p \in Run /\ p # r /\ run[p].stage = "ship" /\ q # r
      BY <2>2, <2>5, ParentBelow, ApprovalBoundsAssumption DEF Conclude, Run
    <3>2. run' = [R EXCEPT ![p] = row]
      BY <2>5 DEF Conclude
    <3>3. R[p] = run[p] /\ R[q] = run[q] /\ DOMAIN R = Run
      BY <2>2, <3>1
    <3>4. row.stage = "ship"
      <4>1. run[p] \in Row
        BY <2>2, <3>1
      <4> QED BY <3>1, <3>3, <4>1 DEF Row
    <3> HIDE DEF R, row
    <3>5. run'[q] = run[q] \/ run'[q] = row
      BY <2>2, <3>2, <3>3
    <3> QED BY <2>2, <3>4, <3>5 DEF q
  <2>6. CASE Reject(r)
    <3>1. run' = [run EXCEPT ![r] = Failed(run[r])] /\ Failed(run[r]).stage = run[r].stage
      <4>1. run[r] \in Row
        BY <2>2
      <4> QED BY <2>6, <4>1 DEF Reject, Failed, Row
    <3> QED BY <2>2, <3>1 DEF q
  <2> QED BY <2>3, <2>4, <2>5, <2>6
<1>5. Examined'
  BY <1>1, <1>4 DEF Examined
<1>6. Scanned'
  BY <1>1 DEF Agreed, Scanned, Active
<1> QED BY <1>1, <1>3, <1>5, <1>6, AgreedCalm

LEMMA AgreedStarts ==
  ASSUME Agreed, crashes = 0, ApprovesOverlap, NEW c \in Calls, NEW r \in Run,
         Approve(c, r) \/ ApproveUnattended(c, r) \/ ApproveRebase(c, r), Kept', Falls(run, run')
  PROVE  Agreed'
<1>1. /\ UNCHANGED <<run, base, scan>> /\ call[c].pc = "idle" /\ run[r].pending
      /\ \E kind \in Kinds \ {"reconcile"} : MayStart(kind)
  BY DEF Approve, ApproveUnattended, ApproveRebase, MayApprove, Kinds
<1>2. PICK k : /\ call' = [call EXCEPT ![c] = k] /\ k.run = r /\ k.pc \in {"context", "policy", "rebase"}
  <2> DEFINE k1 == [Idle EXCEPT !.pc = "context", !.run = r, !.seen = run[r].commit]
             k2 == [Idle EXCEPT !.pc = "policy", !.kind = "unattended", !.run = r]
             k3 == [Idle EXCEPT !.pc = "rebase", !.kind = "rebase", !.run = r, !.seen = run[r].commit]
  <2>1. \A k \in {k1, k2, k3} : k.run = r /\ k.pc \in {"context", "policy", "rebase"}
    BY DEF Idle
  <2>2. \E k \in {k1, k2, k3} : call' = [call EXCEPT ![c] = k]
    BY DEF Approve, ApproveUnattended, ApproveRebase
  <2> HIDE DEF k1, k2, k3
  <2> QED BY <2>1, <2>2
<1>3. call'[c] = k /\ \A d \in Calls : d # c => call'[d] = call[d]
  BY <1>2, Typed DEF Agreed, Kept
<1>4. Stays(run, run') /\ Unasked'
  BY <1>1 DEF Stays, Agreed, Unasked
<1>5. run[r].stage # "done"
  BY <1>1 DEF Agreed, Unasked
<1>6. Examined'
  BY <1>1, <1>2, <1>3, <1>5 DEF Agreed, Examined
<1>7. scan.next = 0
  <2>1. scan.next # 0 => "reconcile" \in InFlight
    BY DEF InFlight
  <2> QED BY <1>1, <2>1 DEF MayStart, ApprovesOverlap
<1>8. Scanned'
  BY <1>1, <1>7 DEF Scanned
<1>9. /\ \A d \in Calls : call[d].pc \in Merging => call'[d] = call[d]
      /\ \A d \in Calls : Guarded(call'[d]) => call'[d] = call[d]
  BY <1>1, <1>2, <1>3 DEF Merging, Guarded
<1> QED BY <1>1, <1>4, <1>6, <1>8, <1>9, AgreedCalm

\* How a step changes its call.
CallMoves(c, k) ==
  /\ call' = [call EXCEPT ![c] = k]
  /\ k.pc \in {"policy", "clean"} => Policy(c) /\ k.run = call[c].run
  /\ call[c].pc \in Merging => \/ k.pc \in Merging /\ k.run = call[c].run
                              \/ Finish(c) \/ Rollback(c) \/ RollbackFails(c)
  /\ Guarded(k) => \/ Guarded(call[c]) /\ k.pre = call[c].pre
                   \/ call[c].pc = "head" /\ call[c].kind = "unattended" /\ k.pre = base
  /\ GitMerge(c) => k.pc = "record" /\ k.run = call[c].run

LEMMA StepsMoveCalls ==
  ASSUME TypeOK, NEW c \in Calls, Steps(c)
  PROVE  \E k : CallMoves(c, k)
<1>1. call[c] \in CallRecord /\ call \in [Calls -> CallRecord]
  BY Typed
<1>2. \A pc : /\ [call[c] EXCEPT !.pc = pc].pc = pc /\ [call[c] EXCEPT !.pc = pc].run = call[c].run
              /\ [call[c] EXCEPT !.pc = pc].kind = call[c].kind /\ [call[c] EXCEPT !.pc = pc].pre = call[c].pre
  BY <1>1 DEF CallRecord
<1>3. CASE Policy(c)
  <2>1. PICK ok : call' = [call EXCEPT ![c] = [call[c] EXCEPT !.pc = "clean", !.ok = ok]]
    BY <1>1, <1>3 DEF Policy
  <2> DEFINE k == [call[c] EXCEPT !.pc = "clean", !.ok = ok]
  <2>2. k.pc = "clean" /\ k.run = call[c].run
    BY <1>1 DEF CallRecord
  <2>3. ~GitMerge(c) /\ call[c].pc = "policy"
    BY <1>3 DEF Policy, GitMerge
  <2> HIDE DEF k
  <2> QED BY <1>3, <2>1, <2>2, <2>3 DEF CallMoves, Guarded, Merging, k
<1>4. CASE PolicyAllows(c) \/ Relink(c) \/ Context(c)
  <2>1. PICK k : call' = [call EXCEPT ![c] = k] /\ k.pc \in {"context", "check", "idle"}
    <3> DEFINE k1 == [call[c] EXCEPT !.pc = "context", !.seen = run[call[c].run].commit]
               row == IF Tree(call[c].run) \in tree THEN [run[call[c].run] EXCEPT !.commit = branch[Tree(call[c].run)]]
                      ELSE run[call[c].run]
               k2 == [call[c] EXCEPT !.pc = "context", !.seen = row.commit]
               k3 == [call[c] EXCEPT !.pc = "check", !.path = TRUE, !.seen = branch[Tree(call[c].run)]]
               k4 == [call[c] EXCEPT !.pc = "check"]
    <3>1. k1.pc = "context" /\ k2.pc = "context" /\ k3.pc = "check" /\ k4.pc = "check" /\ Idle.pc = "idle"
      BY <1>1 DEF CallRecord, Idle
    <3>2. CASE PolicyAllows(c)
      <4>1. call' = [call EXCEPT ![c] = k1]
        BY <1>1, <3>2 DEF PolicyAllows
      <4> QED BY <3>1, <4>1
    <3>3. CASE Relink(c)
      <4>1. call' = [call EXCEPT ![c] = k2] \/ call' = [call EXCEPT ![c] = Idle]
        BY <1>1, <3>3 DEF Relink, Returns
      <4> QED BY <3>1, <4>1
    <3>4. CASE Context(c)
      <4>1. call' = [call EXCEPT ![c] = k3] \/ call' = [call EXCEPT ![c] = k4]
        BY <1>1, <3>4 DEF Context, Goes
      <4> QED BY <3>1, <4>1
    <3> QED BY <1>4, <3>2, <3>3, <3>4
  <2>2. ~GitMerge(c) /\ call[c].pc \notin Merging
    BY <1>4 DEF PolicyAllows, Relink, Context, GitMerge, Merging
  <2> QED BY <2>1, <2>2 DEF CallMoves, Guarded
<1>5. CASE PolicyStops(c) \/ GitFails(c) \/ Rollback(c) \/ RollbackFails(c) \/ Finish(c)
  <2>1. call' = [call EXCEPT ![c] = Idle] /\ Idle.pc = "idle"
    BY <1>5 DEF PolicyStops, GitFails, Rollback, RollbackFails, Finish, Returns, Idle
  <2>2. GitMerge(c) => GitFails(c)
    BY <1>5 DEF PolicyStops, Rollback, RollbackFails, Finish, GitMerge
  <2>3. ~(GitFails(c) /\ GitMerge(c))
    <3>1. GitMerge(c) => call' = [call EXCEPT ![c] = [call[c] EXCEPT !.pc = "record"]]
      BY DEF GitMerge, Goes
    <3>2. [call[c] EXCEPT !.pc = "record"].pc # Idle.pc
      BY <1>2, <2>1
    <3> QED BY <1>1, <2>1, <3>1, <3>2
  <2>4. call[c].pc \in Merging => Finish(c) \/ Rollback(c) \/ RollbackFails(c)
    BY <1>5 DEF PolicyStops, GitFails, Merging
  <2> QED BY <2>1, <2>2, <2>3, <2>4 DEF CallMoves, Guarded
<1>6. CASE Rebase(c) \/ Check(c) \/ Ahead(c) \/ GitMerge(c) \/ PushFails(c) \/ RemoveTree(c) \/ DropBranch(c)
  <2>1. PICK pc \in {"relink", "ahead", "head", "record", "rollback", "branch", "finish"} :
          /\ call' = [call EXCEPT ![c] = [call[c] EXCEPT !.pc = pc]]
          /\ call[c].pc \in Merging => pc \in Merging
          /\ GitMerge(c) => pc = "record"
          /\ pc = "record" => call[c].pc = "merge"
          /\ pc = "rollback" => call[c].pc = "push"
    BY <1>6 DEF Rebase, Check, Ahead, GitMerge, PushFails, RemoveTree, DropBranch, Goes, Merging
  <2> DEFINE k == [call[c] EXCEPT !.pc = pc]
  <2>2. k.pc = pc /\ k.run = call[c].run /\ k.kind = call[c].kind /\ k.pre = call[c].pre
    BY <1>2
  <2> HIDE DEF k
  <2> QED BY <2>1, <2>2 DEF CallMoves, Guarded, k
<1>7. CASE PreMergeHead(c)
  <2> DEFINE strict == call[c].kind = "unattended"
             pre == IF strict THEN base ELSE {}
             seen == IF strict THEN call[c].seen ELSE {}
             k == [call[c] EXCEPT !.pc = "merge", !.pre = pre, !.seen = seen]
  <2>1. call' = [call EXCEPT ![c] = k] /\ call[c].pc = "head"
    BY <1>1, <1>7 DEF PreMergeHead
  <2>2. k.pc = "merge" /\ k.run = call[c].run /\ k.kind = call[c].kind /\ (k.kind = "unattended" => k.pre = base)
    BY <1>1 DEF CallRecord
  <2>3. ~GitMerge(c)
    BY <2>1 DEF GitMerge
  <2> HIDE DEF k
  <2> QED BY <2>1, <2>2, <2>3 DEF CallMoves, Guarded, Merging, k
<1>8. CASE Record(c) \/ PushDone(c) \/ Kill(c)
  <2>1. PICK k : /\ call' = [call EXCEPT ![c] = k] /\ k.run = call[c].run
                 /\ k.pc = "kill" \/ (k.pc = "push" /\ call[c].pc = "record" /\ k.pre = call[c].pre /\ k.kind = call[c].kind)
    <3> DEFINE k1 == [call[c] EXCEPT !.pc = "kill", !.kills = Sharing(c), !.seen = {}, !.pre = {}]
               k2 == [call[c] EXCEPT !.pc = "push"]
    <3>1. /\ k1.pc = "kill" /\ k1.run = call[c].run /\ k2.pc = "push" /\ k2.run = call[c].run
          /\ k2.kind = call[c].kind /\ k2.pre = call[c].pre
      BY <1>1 DEF CallRecord
    <3>2. CASE Record(c)
      <4>1. /\ call' = [call EXCEPT ![c] = k1] \/ call' = [call EXCEPT ![c] = k2]
            /\ call[c].pc = "record"
        BY <1>1, <3>2 DEF Record, Goes, Finalizes
      <4> HIDE DEF k1, k2
      <4> QED BY <3>1, <4>1
    <3>3. CASE PushDone(c)
      <4>1. call' = [call EXCEPT ![c] = k1]
        BY <1>1, <3>3 DEF PushDone, Finalizes
      <4> HIDE DEF k1
      <4> QED BY <3>1, <4>1
    <3>4. CASE Kill(c)
      <4>1. PICK s \in call[c].kills : call' = [call EXCEPT ![c] = [call[c] EXCEPT !.kills = @ \ {s}]]
        BY <3>4 DEF Kill
      <4> DEFINE k == [call[c] EXCEPT !.kills = @ \ {s}]
      <4>2. k.pc = "kill" /\ k.run = call[c].run
        BY <1>1, <3>4 DEF Kill, CallRecord
      <4> HIDE DEF k
      <4> QED BY <4>1, <4>2 DEF k
    <3> QED BY <1>8, <3>2, <3>3, <3>4
  <2>2. ~GitMerge(c)
    BY <1>8 DEF Record, PushDone, Kill, GitMerge
  <2> QED BY <2>1, <2>2 DEF CallMoves, Guarded, Merging
<1> QED BY <1>3, <1>4, <1>5, <1>6, <1>7, <1>8 DEF Steps

\* The steps of a call, but for what they do to the base branch.
LEMMA StepsKeep ==
  ASSUME Agreed, crashes = 0, ApprovesOverlap, NEW c \in Calls, Steps(c)
  PROVE  Active(c) /\ Stays(run, run') /\ Unasked' /\ Examined' /\ scan.next = 0 /\ Scanned'
<1>1. Active(c) /\ scan' = scan
  BY DEF Active, Steps, Policy, PolicyAllows, PolicyStops, Rebase, Relink, Context, Check, Ahead,
         PreMergeHead, GitMerge, Record, PushDone, PushFails, Rollback, RollbackFails, GitFails, Kill,
         RemoveTree, DropBranch, Finish
<1>2. Stays(run, run') /\ Unasked'
  <2>1. \A s \in Run : Moved(run[s], run'[s])
    BY MovedByCalls DEF Agreed
  <2> QED BY <2>1, MovesStay DEF Agreed
<1>3. PICK k : CallMoves(c, k)
  BY StepsMoveCalls DEF Agreed, Kept
<1>4. call'[c] = k /\ \A d \in Calls : d # c => call'[d] = call[d]
  BY <1>3, Typed DEF CallMoves, Agreed, Kept
<1>5. ASSUME NEW d \in Calls, call'[d].pc \in {"policy", "clean"}
      PROVE  run'[call'[d].run].stage # "done"
  <2>1. CASE d = c
    <3>1. Policy(c) /\ k.run = call[c].run
      BY <1>3, <1>4, <1>5, <2>1 DEF CallMoves
    <3>2. run[k.run].stage # "done" /\ k.run \in Run /\ run[k.run] \in Row /\ run \in [Run -> Row]
      BY <1>1, <3>1, HeadNames, Typed DEF Policy, Agreed, Examined, Kept
    <3>3. \A b : [run[k.run] EXCEPT !.commit = b].stage = run[k.run].stage
      BY <3>2 DEF Row
    <3>4. run'[k.run].stage = run[k.run].stage
      BY <3>1, <3>2, <3>3 DEF Policy
    <3> QED BY <1>4, <2>1, <3>2, <3>4
  <2>2. CASE d # c
    <3>1. call[d].pc \in {"policy", "clean"}
      BY <1>4, <1>5, <2>2
    <3> QED BY <1>1, <2>2, <3>1, Exclusive DEF Agreed
  <2> QED BY <2>1, <2>2
<1>6. Examined'
  BY <1>5 DEF Examined
<1>7. scan.next = 0
  BY <1>1 DEF Agreed, Scanned
<1>8. Scanned'
  BY <1>1, <1>7 DEF Scanned
<1> QED BY <1>1, <1>2, <1>6, <1>7, <1>8

\* Only a merge and its rollback write the base branch.
LEMMA OthersLeaveBase ==
  ASSUME NEW c \in Calls, Steps(c), ~GitMerge(c), ~Rollback(c)
  PROVE  base' = base
BY DEF Steps, Policy, PolicyAllows, PolicyStops, Rebase, Relink, Context, Check, Ahead, PreMergeHead, Record,
       PushDone, PushFails, RollbackFails, GitFails, Kill, RemoveTree, DropBranch, Finish

LEMMA AgreedMerge ==
  ASSUME Agreed, crashes = 0, ApprovesOverlap, NEW c \in Calls, GitMerge(c), Kept', Falls(run, run')
  PROVE  Agreed'
<1> DEFINE t == Tree(call[c].run)
<1>1. Stays(run, run') /\ Unasked' /\ Examined' /\ Scanned' /\ Active(c)
  BY StepsKeep DEF Steps
<1>2. PICK k : CallMoves(c, k)
  BY StepsMoveCalls DEF Steps, Agreed, Kept
<1>3. /\ call'[c] = k /\ \A d \in Calls : d # c => call'[d] = call[d]
      /\ k.pc = "record" /\ k.run = call[c].run
  BY <1>2, Typed DEF CallMoves, Agreed, Kept
<1>4. \A u \in Roots : Closed(run, u) => Closed(run', u)
  BY <1>1, ClosedStays
<1>5. ASSUME NEW u \in Roots, Touched(base', u)
      PROVE  u = t \/ Touched(base, u)
  <2>1. made \in [Roots -> 0 .. MaxCommits] /\ SoundOn(base, branch, made, run)
    BY Typed DEF Agreed, Kept
  <2>2. t \in Roots /\ made[t] > 0 /\ AtRest(run, t)
    BY <1>1, HeadNames DEF Agreed, CallOK, Cleared, GitMerge
  <2>3. /\ base \cup branch[t] \subseteq base'
        /\ base' \subseteq base \cup branch[t] \cup {<<0, merges + 1, 0>>}
    BY DEF GitMerge
  <2> HIDE DEF t
  <2>4. made \in [Roots -> 0 .. MaxCommits]
    BY <2>1
  <2>5. SoundOn(base, branch, made, run)
    BY <2>1
  <2>6. Merged(base, branch[t], base')
    BY <2>3 DEF Merged
  <2>7. u = t \/ Touched(base, u)
    BY <1>5, <2>2, <2>4, <2>5, <2>6, SoundAfterMerge
  <2> QED BY <2>7
<1>6. ASSUME NEW u \in Roots, Touched(base', u)
      PROVE  Closed(run', u) \/ \E d \in Calls : call'[d].pc \in Merging /\ Tree(call'[d].run) = u
  <2>1. CASE u = t
    BY <1>3, <2>1 DEF Merging
  <2>2. CASE Touched(base, u) /\ u # t
    <3>1. CASE Closed(run, u)
      BY <1>4, <3>1
    <3>2. CASE \E d \in Calls : call[d].pc \in Merging /\ Tree(call[d].run) = u
      BY <1>3, <2>2, <3>2
    <3> QED BY <2>2, <3>1, <3>2 DEF Agreed, OnBase
  <2> QED BY <1>5, <1>6, <2>1, <2>2
<1>7. OnBase'
  BY <1>6 DEF OnBase
<1>8. \A d \in Calls : Guarded(call'[d]) => Guarded(call[d]) /\ call'[d].pre = call[d].pre
  <2>1. Guarded(k) => Guarded(call[c]) /\ k.pre = call[c].pre
    BY <1>2 DEF CallMoves, GitMerge
  <2> QED BY <1>3, <2>1
<1>9. OnHead'
  BY <1>4, <1>8 DEF Agreed, OnHead
<1> QED BY <1>1, <1>7, <1>9 DEF Agreed

LEMMA AgreedRollback ==
  ASSUME Agreed, crashes = 0, ApprovesOverlap, NEW c \in Calls, Rollback(c), Kept', Falls(run, run')
  PROVE  Agreed'
<1>1. Stays(run, run') /\ Unasked' /\ Examined' /\ Scanned' /\ Active(c)
  BY StepsKeep DEF Steps
<1>2. base' = call[c].pre /\ call' = [call EXCEPT ![c] = Idle] /\ call[c].pc = "rollback"
  BY DEF Rollback, Returns
<1>3. CallOK(call[c], base, run)
  BY <1>1, HeadNames DEF Agreed
<1>4. Guarded(call[c])
  BY <1>2, <1>3 DEF CallOK, Guarded
<1>5. \A d \in Calls : Active(d) => d = c
  BY <1>1, <1>4, NobodyGuarded, Exclusive DEF Agreed
<1>6. \A d \in Calls : call'[d].pc = "idle"
  BY <1>2, <1>5, Typed DEF Agreed, Kept, Active, Idle
<1>7. \A t \in Roots : Touched(base', t) => Closed(run', t)
  <2>1. \A t \in Roots : Touched(base', t) => Closed(run, t)
    BY <1>2, <1>4 DEF Agreed, OnHead
  <2> QED BY <1>1, <2>1, ClosedStays
<1>8. OnBase' /\ OnHead'
  BY <1>6, <1>7 DEF OnBase, OnHead, Guarded
<1> QED BY <1>1, <1>8 DEF Agreed

LEMMA AgreedSteps ==
  ASSUME Chain, Agreed, crashes = 0, ApprovesOverlap, NEW c \in Calls, Steps(c), ~RollbackFails(c),
         Kept', Falls(run, run')
  PROVE  Agreed'
<1>1. CASE GitMerge(c)
  BY <1>1, AgreedMerge
<1>2. CASE Rollback(c)
  BY <1>2, AgreedRollback
<1>3. CASE ~GitMerge(c) /\ ~Rollback(c)
  <2>1. Stays(run, run') /\ Unasked' /\ Examined' /\ Scanned' /\ Active(c)
    BY StepsKeep
  <2>2. base' = base
    BY <1>3, OthersLeaveBase
  <2>3. PICK k : CallMoves(c, k)
    BY StepsMoveCalls DEF Agreed, Kept
  <2>4. call'[c] = k /\ \A d \in Calls : d # c => call'[d] = call[d]
    BY <2>3, Typed DEF CallMoves, Agreed, Kept
  <2>5. call[c].pc \in Merging => (k.pc \in Merging /\ k.run = call[c].run) \/ Closed(run', Tree(call[c].run))
    BY <1>3, <2>3, FinishCloses DEF CallMoves, Agreed
  <2>6. \A d \in Calls : call[d].pc \in Merging =>
          (call'[d].pc \in Merging /\ call'[d].run = call[d].run) \/ Closed(run', Tree(call[d].run))
    BY <2>4, <2>5
  <2>7. \A d \in Calls : Guarded(call'[d]) =>
          \/ Guarded(call[d]) /\ call'[d].pre = call[d].pre
          \/ call[d].pc = "head" /\ call[d].kind = "unattended" /\ call'[d].pre = base
    BY <2>3, <2>4 DEF CallMoves
  <2> QED BY <2>1, <2>2, <2>6, <2>7, AgreedCalm
<1> QED BY <1>1, <1>2, <1>3

--------------------------------------------------------------------------------
(* The reconcile pass.                                                         *)

LEMMA AgreedStartScan ==
  ASSUME Agreed, crashes = 0, ApprovesOverlap, StartScan, Kept', Falls(run, run')
  PROVE  Agreed'
<1>1. UNCHANGED <<base, call>> /\ scan'.rows = run /\ MayStart("reconcile")
  BY DEF StartScan
<1>2. \A c \in Calls : ~Active(c)
  <2>1. InFlight = {}
    BY <1>1 DEF MayStart, ApprovesOverlap
  <2> QED BY <2>1 DEF InFlight, Active
<1>3. Stays(run, run') /\ Unasked'
  <2>1. \A s \in Run : Moved(run[s], run'[s])
    BY MovedByScan DEF Agreed
  <2> QED BY <2>1, MovesStay DEF Agreed
<1>4. \A t \in Roots : Touched(base, t) => Closed(run, t)
  BY <1>2 DEF Agreed, OnBase, Active, Merging
<1>5. Scanned'
  BY <1>1, <1>2, <1>4 DEF Scanned, Closed, Active
<1>6. Examined'
  BY <1>1, <1>2 DEF Examined, Active
<1>7. \A c \in Calls : call[c].pc \notin Merging /\ ~Guarded(call'[c])
  BY <1>1, <1>2 DEF Active, Merging, Guarded
<1> QED BY <1>1, <1>3, <1>5, <1>6, <1>7, AgreedCalm

LEMMA AgreedScan ==
  ASSUME Agreed, crashes = 0, ApprovesOverlap, ScanRun \/ EndScan, Kept', Falls(run, run')
  PROVE  Agreed'
<1>1. UNCHANGED <<base, call>> /\ scan.next # 0
  BY ParentBelow, ApprovalBoundsAssumption DEF ScanRun, EndScan
<1>2. \A c \in Calls : ~Active(c)
  BY <1>1 DEF Agreed, Scanned
<1>3. scan \in ScanRecord
  BY Typed DEF Agreed, Kept
<1>4. scan'.next # 0 => scan'.rows = scan.rows
  <2>1. CASE ScanRun
    <3>1. \/ scan' = [scan EXCEPT !.next = scan.next + 1, !.closed = @ \cup {scan.next}]
          \/ scan' = [scan EXCEPT !.next = scan.next + 1]
      BY <2>1 DEF ScanRun
    <3> QED BY <1>3, <3>1 DEF ScanRecord
  <2>2. CASE EndScan
    <3>1. scan' = Resting /\ Resting.next = 0
      BY <2>2 DEF EndScan, Resting
    <3> QED BY <3>1
  <2> QED BY <2>1, <2>2
<1>5. Scanned'
  BY <1>1, <1>2, <1>4 DEF Agreed, Scanned, Active
<1>6. Examined' /\ \A c \in Calls : ~Guarded(call'[c])
  BY <1>1, <1>2 DEF Examined, Active, Guarded
<1>7. \A t \in Roots : Touched(base, t) => Closed(run, t)
  BY <1>2 DEF Agreed, OnBase, Active, Merging
<1>8. ASSUME NEW s \in Run
      PROVE  /\ run'[s].stage = "done" => ~run'[s].pending
             /\ Touched(base, Tree(s)) => (IsDone(run[s]) => IsDone(run'[s]))
  <2>1. run[s] \in Row /\ (run[s].stage = "done" => ~run[s].pending)
    BY Typed DEF Agreed, Kept, Unasked
  <2>2. /\ Done(run[s]).stage = "done" /\ Done(run[s]).term = "none" /\ ~Done(run[s]).pending
        /\ ~Failed(run[s]).pending
    BY <2>1 DEF Done, Failed, Row
  <2>3. CASE ScanRun
    <3>1. run'[s] = run[s] \/ run'[s] = Done(run[s])
      BY <2>3 DEF ScanRun
    <3> QED BY <2>1, <2>2, <3>1 DEF IsDone
  <2>4. CASE EndScan
    <3> DEFINE rows == scan.rows
    <3>1. /\ \/ run'[s] = run[s] \/ run'[s] = Done(run[s])
             \/ run'[s] = Failed(run[s]) /\ Open(rows[s])
      BY <2>4 DEF EndScan
    <3>2. Touched(base, Tree(s)) => ~Open(rows[s])
      BY <1>1, TreeIsRoot DEF Agreed, Scanned, LineageOf
    <3> QED BY <2>1, <2>2, <3>1, <3>2 DEF IsDone
  <2> QED BY <2>3, <2>4
<1>9. ASSUME NEW t \in Roots, Touched(base, t)
      PROVE  Closed(run', t)
  <2>1. PICK r \in LineageOf(t) : IsDone(run[r])
    BY <1>7, <1>9 DEF Closed
  <2>2. IsDone(run'[r])
    BY <1>8, <1>9, <2>1 DEF LineageOf
  <2>3. \A s \in LineageOf(t) : ~Open(run'[s])
    BY <1>7, <1>9, LineageRuns DEF Closed, Falls
  <2> QED BY <2>1, <2>2, <2>3 DEF Closed
<1>10. Unasked' /\ OnBase' /\ OnHead'
  BY <1>1, <1>6, <1>8, <1>9 DEF Unasked, OnBase, OnHead
<1> QED BY <1>5, <1>6, <1>10 DEF Agreed

LEMMA AgreedStep ==
  ASSUME Chain, ApprovesOverlap, Agreed, [Next]_vars
  PROVE  Agreed'
<1>1. Kept' /\ Falls(run, run')
  <2>1. Kept /\ RollbackAlone
    BY Exclusive DEF Agreed
  <2> QED BY <2>1, KeptStep
<1>2. CASE crashes' # 0
  BY <1>1, <1>2 DEF Agreed
<1>3. CASE crashes' = 0 /\ UNCHANGED vars
  BY <1>1, <1>3 DEF vars, Agreed, Unasked, OnBase, OnHead, Examined, Scanned, Active
<1>4. CASE crashes' = 0 /\ Next
  <2>1. ~Crash
    <3>1. crashes \in Nat
      BY Typed, ApprovalBoundsAssumption DEF Agreed, Kept
    <3> QED BY <1>4, <3>1 DEF Crash
  <2>2. ASSUME NEW r \in Run, Work(r) \/ AskApproval(r) \/ Conclude(r) \/ Reject(r)
        PROVE  Agreed'
    <3>1. crashes = 0
      BY <1>4, <2>2 DEF Work, AskApproval, Conclude, Reject
    <3> QED BY <1>1, <2>2, <3>1, AgreedRuns
  <2>3. ASSUME NEW c \in Calls, NEW r \in Run, Approve(c, r) \/ ApproveUnattended(c, r) \/ ApproveRebase(c, r)
        PROVE  Agreed'
    <3>1. crashes = 0
      BY <1>4, <2>3 DEF Approve, ApproveUnattended, ApproveRebase
    <3> QED BY <1>1, <2>3, <3>1, AgreedStarts
  <2>4. ASSUME NEW c \in Calls, Steps(c)
        PROVE  Agreed'
    <3>1. ~RollbackFails(c)
      <4>1. crashes \in Nat
        BY Typed, ApprovalBoundsAssumption DEF Agreed, Kept
      <4> QED BY <1>4, <4>1 DEF RollbackFails
    <3>2. crashes = 0
      BY <1>4, <2>4, <3>1
         DEF Steps, Policy, PolicyAllows, PolicyStops, Rebase, Relink, Context, Check, Ahead, PreMergeHead,
             GitMerge, Record, PushDone, PushFails, Rollback, GitFails, Kill, RemoveTree, DropBranch, Finish
    <3> QED BY <1>1, <2>4, <3>1, <3>2, AgreedSteps
  <2>5. CASE StartScan \/ ScanRun \/ EndScan
    <3>1. crashes = 0
      BY <1>4, <2>5 DEF StartScan, ScanRun, EndScan
    <3> QED BY <1>1, <2>5, <3>1, AgreedStartScan, AgreedScan
  <2> QED BY <1>4, <2>1, <2>2, <2>3, <2>4, <2>5 DEF Next, Operator
<1> QED BY <1>2, <1>3, <1>4

LEMMA AgreedSafe ==
  ASSUME Agreed
  PROVE  VerdictsAgree
<1> SUFFICES ASSUME InFlight = {}, crashes = 0, NEW t \in Roots, Landed(t)
             PROVE  \E r \in LineageOf(t) : /\ run[r].stage = "done" /\ run[r].term = "none"
                                            /\ \A s \in LineageOf(t) : ~Live(s)
  BY DEF VerdictsAgree
<1>1. Touched(base, t)
  <2>1. LandedOn(base, made, t)
    BY DEF Landed, LandedOn, Has, Rebases
  <2>2. made \in [Roots -> 0 .. MaxCommits]
    BY Typed DEF Agreed, Kept
  <2> QED BY <2>1, <2>2, LandedTouches
<1>2. \A c \in Calls : call[c].pc \notin Merging
  BY DEF InFlight, Merging
<1>3. Closed(run, t)
  BY <1>1, <1>2 DEF Agreed, OnBase
<1> QED BY <1>3 DEF Closed, IsDone, Live

\* When the runs of a lineage follow one another, and only the operator's approvals run
\* beside one another, rows and git agree whenever nothing is under way, if the server has
\* never stopped and no reset has failed: work is on the base branch only with a run of its lineage done and
\* nothing of it open, whatever was rejected, killed or rolled back meanwhile.
\* (approveRun, mergeApprovedRun and finalizeSuccessfulMerge, and reconcileSinglePass.)
THEOREM VerdictsSettle == Chain /\ ApprovesOverlap => (Spec => []VerdictsAgree)
<1> SUFFICES ASSUME Chain, ApprovesOverlap PROVE Spec => []VerdictsAgree
  OBVIOUS
<1>1. Agreed /\ [Next]_vars => Agreed'
  BY AgreedStep
<1>2. Agreed => VerdictsAgree
  BY AgreedSafe
<1> QED BY <1>1, <1>2, AgreedInit, PTL DEF Spec

--------------------------------------------------------------------------------
(* The promise: what an approval does to the base branch is a step of Landing.  *)

\* A call that may reset the base branch resets it to what it was but for its own lineage.
HeadRead ==
  \A c \in Calls : Guarded(call[c]) =>
    /\ call[c].pre \subseteq base
    /\ call[c].pc = "merge" => call[c].pre = base
    /\ \A u \in Roots : Touched(base, u) => Touched(call[c].pre, u) \/ u = Tree(call[c].run)

\* What a merge brings to the base branch is of its call's lineage.
LEMMA MergeBrings ==
  ASSUME Kept, NEW c \in Calls, GitMerge(c)
  PROVE  /\ base \subseteq base' /\ Tree(call[c].run) \in Roots
         /\ Touched(base', Tree(call[c].run))
         /\ \A u \in Roots : Touched(base', u) => u = Tree(call[c].run) \/ Touched(base, u)
<1> DEFINE t == Tree(call[c].run)
<1>1. call[c].pc = "merge" /\ Active(c) /\ Merged(base, branch[t], base')
  BY DEF GitMerge, Active, Merged
<1>2. t \in Roots /\ made[t] > 0 /\ CallOK(call[c], base, run)
  BY <1>1, HeadNames
<1>3. AtRest(run, t)
  BY <1>1, <1>2 DEF CallOK, Cleared
<1>4. made \in [Roots -> 0 .. MaxCommits] /\ SoundOn(base, branch, made, run)
  BY Typed DEF Kept
<1>5. base \subseteq base'
  BY <1>1 DEF Merged
<1> HIDE DEF t
<1>6. Touched(base', t) /\ \A u \in Roots : Touched(base', u) => u = t \/ Touched(base, u)
  BY <1>1, <1>2, <1>3, <1>4, SoundAfterMerge
<1> QED BY <1>2, <1>5, <1>6 DEF t

LEMMA HeadInit ==
  ASSUME Init
  PROVE  HeadRead
BY DEF Init, HeadRead, Guarded, Idle

LEMMA HeadSteps ==
  ASSUME Kept, HeadRead, RollbackAlone, NEW c \in Calls, Steps(c)
  PROVE  HeadRead'
<1>1. PICK k : CallMoves(c, k)
  BY StepsMoveCalls DEF Kept
<1>2. call'[c] = k /\ \A d \in Calls : d # c => call'[d] = call[d]
  BY <1>1, Typed DEF CallMoves, Kept
<1>3. Active(c)
  BY DEF Active, Steps, Policy, PolicyAllows, PolicyStops, Rebase, Relink, Context, Check, Ahead,
         PreMergeHead, GitMerge, Record, PushDone, PushFails, Rollback, RollbackFails, GitFails, Kill,
         RemoveTree, DropBranch, Finish
<1>4. ASSUME NEW d \in Calls, Guarded(call'[d])
      PROVE  d = c /\ Guarded(k)
  BY <1>2, <1>3, <1>4, NobodyGuarded
<1>5. CASE Guarded(k) /\ ~Guarded(call[c])
  <2>1. call[c].pc = "head" /\ k.pre = base
    BY <1>1, <1>5 DEF CallMoves
  <2>2. base' = base
    BY <2>1, OthersLeaveBase DEF GitMerge, Rollback
  <2>3. /\ k.pre \subseteq base' /\ k.pre = base'
        /\ \A u \in Roots : Touched(base', u) => Touched(k.pre, u)
    BY <2>1, <2>2
  <2> QED BY <1>2, <1>4, <2>3 DEF HeadRead
<1>6. CASE Guarded(k) /\ Guarded(call[c])
  <2>1. k.pre = call[c].pre
    BY <1>1, <1>6 DEF CallMoves, Guarded
  <2>2. /\ call[c].pre \subseteq base /\ (call[c].pc = "merge" => call[c].pre = base)
        /\ \A u \in Roots : Touched(base, u) => Touched(call[c].pre, u) \/ u = Tree(call[c].run)
    BY <1>6 DEF HeadRead
  <2>3. CASE GitMerge(c)
    <3>1. k.pc = "record" /\ k.run = call[c].run
      BY <1>1, <2>3 DEF CallMoves
    <3>2. base \subseteq base' /\ \A u \in Roots : Touched(base', u) => u = Tree(call[c].run) \/ Touched(base, u)
      BY <2>3, MergeBrings
    <3>3. /\ k.pre \subseteq base' /\ k.pc # "merge"
          /\ \A u \in Roots : Touched(base', u) => Touched(k.pre, u) \/ u = Tree(k.run)
      BY <2>1, <2>2, <3>1, <3>2
    <3> QED BY <1>2, <1>4, <3>3 DEF HeadRead
  <2>4. CASE ~GitMerge(c)
    <3>1. ~Rollback(c) /\ ~RollbackFails(c) /\ ~Finish(c) /\ ~GitFails(c)
      <4>1. Idle.pc = "idle"
        BY DEF Idle
      <4> QED BY <1>2, <1>6, <4>1, Typed
             DEF Rollback, RollbackFails, Finish, GitFails, Returns, Guarded, Kept
    <3>2. base' = base
      BY <2>4, <3>1, OthersLeaveBase
    <3>3. call[c].pc \in Merging
      BY <1>6, <2>4, <3>1
         DEF Guarded, Merging, Steps, Policy, PolicyAllows, PolicyStops, Rebase, Relink, Context, Check,
             Ahead, PreMergeHead, Record, PushDone, PushFails, Kill, RemoveTree, DropBranch
    <3>4. k.pc # "merge" /\ k.run = call[c].run
      BY <1>1, <3>1, <3>3 DEF CallMoves, Merging
    <3>5. /\ k.pre \subseteq base' /\ \A u \in Roots : Touched(base', u) => Touched(k.pre, u) \/ u = Tree(k.run)
      BY <2>1, <2>2, <3>2, <3>4
    <3> QED BY <1>2, <1>4, <3>4, <3>5 DEF HeadRead
  <2> QED BY <2>3, <2>4
<1>7. CASE ~Guarded(k)
  BY <1>4, <1>7 DEF HeadRead
<1> QED BY <1>5, <1>6, <1>7

LEMMA HeadStep ==
  ASSUME Kept, HeadRead, RollbackAlone, [Next]_vars
  PROVE  HeadRead'
<1>1. ASSUME call' = call, base' = base
      PROVE  HeadRead'
  BY <1>1 DEF HeadRead
<1>2. CASE \E r \in Run : Work(r) \/ AskApproval(r) \/ Conclude(r) \/ Reject(r)
  <2>1. call' = call /\ base' = base
    BY <1>2 DEF Work, AskApproval, Conclude, Reject
  <2> QED BY <1>1, <2>1
<1>3. ASSUME NEW c \in Calls, NEW r \in Run, Approve(c, r) \/ ApproveUnattended(c, r) \/ ApproveRebase(c, r)
      PROVE  HeadRead'
  <2>0. base' = base
    BY <1>3 DEF Approve, ApproveUnattended, ApproveRebase
  <2>a. ASSUME Approve(c, r)
        PROVE  \E k : call' = [call EXCEPT ![c] = k] /\ k.pc \in {"context", "policy", "rebase"}
    <3> DEFINE k == [Idle EXCEPT !.pc = "context", !.run = r, !.seen = run[r].commit]
    <3>1. call' = [call EXCEPT ![c] = k] /\ k.pc = "context"
      BY <2>a DEF Approve, Idle
    <3> QED BY <3>1
  <2>b. ASSUME ApproveUnattended(c, r)
        PROVE  \E k : call' = [call EXCEPT ![c] = k] /\ k.pc \in {"context", "policy", "rebase"}
    <3> DEFINE k == [Idle EXCEPT !.pc = "policy", !.kind = "unattended", !.run = r]
    <3>1. call' = [call EXCEPT ![c] = k] /\ k.pc = "policy"
      BY <2>b DEF ApproveUnattended, Idle
    <3> QED BY <3>1
  <2>c. ASSUME ApproveRebase(c, r)
        PROVE  \E k : call' = [call EXCEPT ![c] = k] /\ k.pc \in {"context", "policy", "rebase"}
    <3> DEFINE k == [Idle EXCEPT !.pc = "rebase", !.kind = "rebase", !.run = r, !.seen = run[r].commit]
    <3>1. call' = [call EXCEPT ![c] = k] /\ k.pc = "rebase"
      BY <2>c DEF ApproveRebase, Idle
    <3> QED BY <3>1
  <2>1. base' = base /\ \E k : call' = [call EXCEPT ![c] = k] /\ k.pc \in {"context", "policy", "rebase"}
    BY <1>3, <2>0, <2>a, <2>b, <2>c
  <2>2. ~Guarded(call'[c]) /\ \A d \in Calls : d # c => call'[d] = call[d]
    BY <2>1, Typed DEF Kept, Guarded
  <2> QED BY <2>1, <2>2 DEF HeadRead
<1>4. ASSUME NEW c \in Calls, Steps(c)
      PROVE  HeadRead'
  BY <1>4, HeadSteps
<1>5. CASE StartScan \/ ScanRun \/ EndScan
  <2>1. call' = call /\ base' = base
    BY <1>5 DEF StartScan, ScanRun, EndScan
  <2> QED BY <1>1, <2>1
<1>6. CASE Crash
  <2>1. \A c \in Calls : call'[c].pc = "idle"
    BY <1>6 DEF Crash, Idle
  <2> QED BY <2>1 DEF HeadRead, Guarded
<1>7. CASE UNCHANGED vars
  BY <1>1, <1>7 DEF vars
<1> QED BY <1>2, <1>3, <1>4, <1>5, <1>6, <1>7 DEF Next, Operator

\* The state of Landing, of parts of the state of Approval.
WorkIn(md) == [t \in Roots |-> 1 .. md[t]]
LandedIn(b, md) == [t \in Roots |-> {n \in 1 .. md[t] : Has(b, t, n)}]
ClosedIn(rn) == {t \in Roots : IsDone(rn[t])}

\* A sound base branch has all of a lineage or nothing.
LEMMA AllOrNothing ==
  ASSUME NEW b, NEW br, NEW md \in [Roots -> 0 .. MaxCommits], NEW rn, SoundOn(b, br, md, rn), NEW t \in Roots
  PROVE  /\ Touched(b, t) => {n \in 1 .. md[t] : Has(b, t, n)} = 1 .. md[t]
         /\ ~Touched(b, t) => {n \in 1 .. md[t] : Has(b, t, n)} = {}
         /\ IsDone(rn[t]) => Touched(b, t)
         /\ Touched(b, t) => 1 .. md[t] # {}
<1>1. md[t] \in 0 .. MaxCommits /\ \A n \in 1 .. md[t] : n \in 1 .. MaxCommits
  BY ApprovalBoundsAssumption
<1>2. Touched(b, t) => LandedOn(b, md, t)
  BY DEF SoundOn, SoundFor
<1>3. Touched(b, t) => {n \in 1 .. md[t] : Has(b, t, n)} = 1 .. md[t]
  BY <1>2 DEF LandedOn
<1>4. ~Touched(b, t) => {n \in 1 .. md[t] : Has(b, t, n)} = {}
  BY <1>1 DEF Touched
<1>5. IsDone(rn[t]) => Touched(b, t)
  BY LandedTouches DEF SoundOn, SoundFor
<1>6. Touched(b, t) => 1 \in 1 .. md[t]
  BY <1>1, <1>2 DEF LandedOn
<1> QED BY <1>3, <1>4, <1>5, <1>6

\* Bases of which every lineage is touched alike have landed the same.
LEMMA LandedAlike ==
  ASSUME NEW b, NEW b2, NEW br, NEW md \in [Roots -> 0 .. MaxCommits], NEW rn, NEW rn2,
         SoundOn(b, br, md, rn), SoundOn(b2, br, md, rn2), NEW t \in Roots, Touched(b, t) <=> Touched(b2, t)
  PROVE  {n \in 1 .. md[t] : Has(b, t, n)} = {n \in 1 .. md[t] : Has(b2, t, n)}
BY AllOrNothing

\* No row of a first run changes its being done, but for one that ends.
LEMMA CloseOne ==
  ASSUME Kept, Kept', base' = base, made' = made, NEW t \in Roots, IsDone(run[t]) => IsDone(run'[t]),
         \A u \in Roots : u # t => (IsDone(run'[u]) <=> IsDone(run[u]))
  PROVE  [Promise!Next]_(Promise!vars)
<1>1. IsDone(run'[t]) <=> IsDone(run[t]) \/ (~IsDone(run[t]) /\ IsDone(run'[t]))
  OBVIOUS
<1>2. CASE IsDone(run'[t]) <=> IsDone(run[t])
  <2>1. \A u \in Roots : IsDone(run'[u]) <=> IsDone(run[u])
    BY <1>2
  <2>2. ClosedIn(run') = ClosedIn(run)
    BY <2>1 DEF ClosedIn
  <2> QED BY <2>2 DEF Promise!vars, ClosedIn, IsDone
<1>3. CASE ~IsDone(run[t]) /\ IsDone(run'[t])
  <2>1. SoundOn(base, branch', made, run') /\ made \in [Roots -> 0 .. MaxCommits]
    BY Typed DEF Kept
  <2>2. {n \in 1 .. made[t] : Has(base, t, n)} = 1 .. made[t] /\ 1 .. made[t] # {}
    BY <1>3, <2>1, AllOrNothing
  <2>3. ClosedIn(run') = ClosedIn(run) \cup {t}
    BY <1>3 DEF ClosedIn
  <2>4. Promise!Close(t)
    BY <2>2, <2>3 DEF Promise!Close, ClosedIn, IsDone, Has, Rebases
  <2> QED BY <2>4 DEF Promise!Next
<1> QED BY <1>2, <1>3

\* First runs cease to be done, at most.
LEMMA CloseNone ==
  ASSUME base' = base, made' = made, \A u \in Roots : IsDone(run'[u]) => IsDone(run[u])
  PROVE  [Promise!Next]_(Promise!vars)
<1>1. PICK S \in SUBSET Roots : S = {u \in Roots : ~IsDone(run'[u])}
  OBVIOUS
<1>2. \A u \in Roots : IsDone(run'[u]) <=> IsDone(run[u]) /\ u \notin S
  BY <1>1
<1>3. ClosedIn(run') = ClosedIn(run) \ S
  BY <1>2 DEF ClosedIn
<1>4. Promise!Withdraw(S)
  BY <1>3 DEF Promise!Withdraw, ClosedIn, IsDone
<1> QED BY <1>1, <1>4 DEF Promise!Next

\* A session commits.
LEMMA WorkCommits ==
  ASSUME Kept, NEW r \in Run, Work(r)
  PROVE  [Promise!Next]_(Promise!vars)
<1> DEFINE t == Tree(r)
<1>1. /\ run' = run /\ base' = base /\ Live(r) /\ run[r].stage = "work" /\ made[t] < MaxCommits
      /\ made' = [made EXCEPT ![t] = made[t] + 1]
  BY DEF Work
<1>2. t \in Roots /\ r \in LineageOf(t)
  BY TreeIsRoot DEF LineageOf
<1>3. ~AtRest(run, t)
  BY <1>1, <1>2 DEF AtRest, Live
<1>4. ~Touched(base, t)
  BY <1>2, <1>3 DEF Kept, SoundOn, SoundFor
<1>5. made \in [Roots -> 0 .. MaxCommits]
  BY Typed DEF Kept
<1> HIDE DEF t
<1> DEFINE m == made[t] + 1
<1>6. m \in 1 .. MaxCommits /\ m \notin 1 .. made[t] /\ 1 .. m = (1 .. made[t]) \cup {m}
  BY <1>1, <1>2, <1>5, ApprovalBoundsAssumption
<1>7. made' = [made EXCEPT ![t] = m]
  BY <1>1
<1> HIDE DEF m
<1>8. made'[t] = m /\ \A u \in Roots : u # t => made'[u] = made[u]
  BY <1>2, <1>5, <1>7
<1>9. WorkIn(made') = [WorkIn(made) EXCEPT ![t] = WorkIn(made)[t] \cup {m}]
  BY <1>2, <1>6, <1>8 DEF WorkIn
<1>10. \A n \in 1 .. m : ~Has(base, t, n)
  BY <1>2, <1>4, <1>5, <1>6, ApprovalBoundsAssumption DEF Touched
<1>11. {n \in 1 .. made[t] : Has(base, t, n)} = {} /\ {n \in 1 .. m : Has(base, t, n)} = {}
  BY <1>6, <1>10
<1>12. LandedIn(base, made') = LandedIn(base, made)
  BY <1>8, <1>11 DEF LandedIn
<1>13. LandedIn(base, made)[t] = {}
  BY <1>2, <1>11 DEF LandedIn
<1>14. Promise!Commit(t)
  <2>1. m \in (1 .. MaxCommits) \ WorkIn(made)[t]
    BY <1>2, <1>6 DEF WorkIn
  <2>2. run' = run /\ base' = base
    BY <1>1
  <2>3. \E n \in (1 .. MaxCommits) \ WorkIn(made)[t] : WorkIn(made') = [WorkIn(made) EXCEPT ![t] = @ \cup {n}]
    BY <1>9, <2>1
  <2> QED BY <1>12, <1>13, <2>2, <2>3 DEF Promise!Commit, WorkIn, LandedIn, Has, Rebases
<1> QED BY <1>2, <1>14 DEF Promise!Next

\* A merge lands its call's lineage, unless that is there already.
LEMMA MergeLands ==
  ASSUME Kept, Kept', NEW c \in Calls, GitMerge(c)
  PROVE  [Promise!Next]_(Promise!vars)
<1> PICK t : t = Tree(call[c].run)
  OBVIOUS
<1>1. run' = run /\ made' = made /\ branch' = branch
  BY DEF GitMerge
<1>2. /\ base \subseteq base' /\ t \in Roots /\ Touched(base', t)
      /\ \A u \in Roots : Touched(base', u) => u = t \/ Touched(base, u)
  BY MergeBrings
<1>3. /\ made \in [Roots -> 0 .. MaxCommits] /\ SoundOn(base, branch, made, run)
      /\ SoundOn(base', branch, made, run)
  BY <1>1, Typed DEF Kept
<1> PICK b2 : b2 = base'
  OBVIOUS
<1>4. \A u \in Roots : u # t => (Touched(base, u) <=> Touched(b2, u))
  BY <1>2, MoreLanded
<1>5. SoundOn(b2, branch, made, run)
  BY <1>3
<1>6. ASSUME NEW u \in Roots, Touched(base, u) <=> Touched(b2, u)
      PROVE  {n \in 1 .. made[u] : Has(base, u, n)} = {n \in 1 .. made[u] : Has(b2, u, n)}
  BY <1>3, <1>5, <1>6, LandedAlike
<1>7. CASE Touched(base, t)
  <2>1. \A u \in Roots : {n \in 1 .. made[u] : Has(base, u, n)} = {n \in 1 .. made[u] : Has(b2, u, n)}
    BY <1>2, <1>4, <1>6, <1>7
  <2>2. LandedIn(base', made) = LandedIn(base, made)
    BY <2>1 DEF LandedIn
  <2> QED BY <1>1, <2>2 DEF Promise!vars, LandedIn, Has, Rebases
<1>8. CASE ~Touched(base, t)
  <2>1. /\ {n \in 1 .. made[t] : Has(b2, t, n)} = 1 .. made[t] /\ 1 .. made[t] # {}
        /\ {n \in 1 .. made[t] : Has(base, t, n)} = {}
    BY <1>2, <1>3, <1>5, <1>8, AllOrNothing
  <2>2. LandedIn(base', made) = [LandedIn(base, made) EXCEPT ![t] = 1 .. made[t]]
    <3>1. \A u \in Roots : u # t => {n \in 1 .. made[u] : Has(base, u, n)} = {n \in 1 .. made[u] : Has(b2, u, n)}
      BY <1>4, <1>6
    <3>2. LandedIn(b2, made) = [LandedIn(base, made) EXCEPT ![t] = 1 .. made[t]]
      BY <2>1, <3>1 DEF LandedIn
    <3> QED BY <3>2
  <2>3. LandedIn(base, made)[t] = {} /\ WorkIn(made)[t] = 1 .. made[t]
    BY <1>2, <2>1 DEF LandedIn, WorkIn
  <2>4. Promise!Land(t)
    <3>1. LandedIn(base', made') = [LandedIn(base, made) EXCEPT ![t] = WorkIn(made)[t]]
      BY <1>1, <2>2, <2>3
    <3>2. LandedIn(base, made)[t] = {} /\ WorkIn(made)[t] # {}
      BY <2>1, <2>3
    <3>3. WorkIn(made') = WorkIn(made) /\ ClosedIn(run') = ClosedIn(run)
      BY <1>1
    <3> QED BY <3>1, <3>2, <3>3 DEF Promise!Land, LandedIn, WorkIn, ClosedIn, IsDone, Has, Rebases
  <2> QED BY <1>2, <2>4 DEF Promise!Next
<1> QED BY <1>7, <1>8

\* A rollback takes its call's lineage away, which is not done, and no other.
LEMMA RollbackUnlands ==
  ASSUME Kept, Kept', HeadRead, NEW c \in Calls, Rollback(c)
  PROVE  [Promise!Next]_(Promise!vars)
<1> DEFINE k0 == call[c]
           row == [run[k0.run] EXCEPT !.commit = k0.seen]
<1> PICK t : t = Tree(k0.run)
  OBVIOUS
<1>1. /\ Active(c) /\ k0.pc = "rollback" /\ branch' = branch /\ made' = made
      /\ base' = k0.pre /\ run' = [run EXCEPT ![k0.run] = row]
  BY DEF Rollback, Active
<1>2. k0.run \in Run /\ t \in Roots /\ run[k0.run] \in Row /\ CallOK(k0, base, run)
  BY <1>1, HeadNames
<1>3. Push /\ Guarded(k0)
  BY <1>1, <1>2 DEF CallOK, Guarded
<1>4. row.stage = run[k0.run].stage /\ row.term = run[k0.run].term
  BY <1>2 DEF Row
<1>5. \A u \in Roots : IsDone(run'[u]) <=> IsDone(run[u])
  BY <1>1, <1>2, <1>4, Typed DEF Kept, IsDone, Roots
<1>6. ClosedIn(run') = ClosedIn(run)
  BY <1>5 DEF ClosedIn
<1> PICK b2 : b2 = base'
  OBVIOUS
<1>7. /\ made \in [Roots -> 0 .. MaxCommits] /\ SoundOn(base, branch, made, run)
      /\ SoundOn(b2, branch, made, run')
  BY <1>1, Typed DEF Kept
<1>8. b2 \subseteq base /\ \A u \in Roots : Touched(base, u) => Touched(b2, u) \/ u = t
  BY <1>1, <1>3 DEF HeadRead
<1> HIDE DEF k0, row
<1>9. \A u \in Roots : u # t => (Touched(base, u) <=> Touched(b2, u))
  BY <1>8, MoreLanded
<1>10. ASSUME NEW u \in Roots, Touched(base, u) <=> Touched(b2, u)
       PROVE  {n \in 1 .. made[u] : Has(base, u, n)} = {n \in 1 .. made[u] : Has(b2, u, n)}
  BY <1>7, <1>10, LandedAlike
<1>11. CASE Touched(base, t) <=> Touched(b2, t)
  <2>1. \A u \in Roots : {n \in 1 .. made[u] : Has(base, u, n)} = {n \in 1 .. made[u] : Has(b2, u, n)}
    BY <1>2, <1>9, <1>10, <1>11
  <2>2. LandedIn(base', made) = LandedIn(base, made)
    BY <2>1 DEF LandedIn
  <2> QED BY <1>1, <1>6, <2>2 DEF Promise!vars, LandedIn, ClosedIn, IsDone, Has, Rebases
<1>12. CASE ~(Touched(base, t) <=> Touched(b2, t))
  <2>1. ~Touched(b2, t)
    BY <1>8, <1>12, MoreLanded
  <2>2. {n \in 1 .. made[t] : Has(b2, t, n)} = {} /\ ~IsDone(run'[t])
    BY <1>2, <1>7, <2>1, AllOrNothing
  <2>3. LandedIn(base', made) = [LandedIn(base, made) EXCEPT ![t] = {}]
    <3>1. \A u \in Roots : u # t => {n \in 1 .. made[u] : Has(base, u, n)} = {n \in 1 .. made[u] : Has(b2, u, n)}
      BY <1>9, <1>10
    <3>2. LandedIn(b2, made) = [LandedIn(base, made) EXCEPT ![t] = {}]
      BY <2>2, <3>1 DEF LandedIn
    <3> QED BY <3>2
  <2>4. t \notin ClosedIn(run)
    BY <1>2, <1>5, <2>2 DEF ClosedIn
  <2>5. Promise!Unland(t)
    <3>1. LandedIn(base', made') = [LandedIn(base, made) EXCEPT ![t] = {}]
      BY <1>1, <2>3
    <3>2. WorkIn(made') = WorkIn(made)
      BY <1>1
    <3> QED BY <1>3, <1>6, <2>4, <3>1, <3>2 DEF Promise!Unland, LandedIn, WorkIn, ClosedIn, IsDone, Has, Rebases
  <2> QED BY <1>2, <2>5 DEF Promise!Next
<1> QED BY <1>11, <1>12

\* Sessions and operators end no first run but by a refusal.
LEMMA RunsPromise ==
  ASSUME Kept, NEW r \in Run, AskApproval(r) \/ Conclude(r) \/ Reject(r)
  PROVE  [Promise!Next]_(Promise!vars)
<1>1. base' = base /\ made' = made
  BY DEF AskApproval, Conclude, Reject
<1>2. run \in [Run -> Row] /\ \A q \in Run : run[q] \in Row
  BY Typed DEF Kept
<1>3. ASSUME NEW u \in Roots, IsDone(run'[u])
      PROVE  IsDone(run[u])
  <2>1. u \in Run /\ Parent[u] = 0
    BY DEF Roots
  <2>2. CASE AskApproval(r)
    BY <1>2, <1>3, <2>1, <2>2 DEF AskApproval, IsDone, Row
  <2>3. CASE Conclude(r)
    <3>1. u # r /\ (u # Parent[r] => run'[u] = run[u])
      BY <1>2, <2>1, <2>3 DEF Conclude
    <3>2. u = Parent[r] => run'[u].stage = run[u].stage /\ run'[u].term = run[u].term
      BY <1>2, <2>1, <2>3, <3>1 DEF Conclude, Row
    <3> QED BY <1>3, <3>1, <3>2 DEF IsDone
  <2>4. CASE Reject(r)
    BY <1>2, <1>3, <2>1, <2>4 DEF Reject, Failed, IsDone, Row
  <2> QED BY <2>2, <2>3, <2>4
<1> QED BY <1>1, <1>3, CloseNone

\* Before the merge, and around it, a call writes nothing but commits and requests.
LEMMA CallsPromise ==
  ASSUME Kept, NEW c \in Calls, Steps(c), ~GitMerge(c), ~Rollback(c), ~Kill(c), ~Finish(c)
  PROVE  [Promise!Next]_(Promise!vars)
<1> DEFINE r == call[c].run
           row == IF Tree(r) \in tree THEN [run[r] EXCEPT !.commit = branch[Tree(r)]] ELSE run[r]
<1>1. base' = base /\ made' = made
  BY DEF Steps, Policy, PolicyAllows, PolicyStops, Rebase, Relink, Context, Check, Ahead, PreMergeHead,
         Record, PushDone, PushFails, RollbackFails, GitFails, RemoveTree, DropBranch
<1>2. run \in [Run -> Row] /\ r \in Run /\ run[r] \in Row
  BY CallTypes DEF Kept, TypeOK
<1>3. \E x : run' = [run EXCEPT ![r] = x] /\ x.stage = run[r].stage /\ x.term = run[r].term
  <2>1. \A b : /\ [run[r] EXCEPT !.commit = b].stage = run[r].stage
               /\ [run[r] EXCEPT !.commit = b].term = run[r].term
               /\ [run[r] EXCEPT !.pending = b].stage = run[r].stage
               /\ [run[r] EXCEPT !.pending = b].term = run[r].term
    BY <1>2 DEF Row
  <2>2. run = [run EXCEPT ![r] = run[r]]
    BY <1>2
  <2>3. CASE Policy(c) \/ Relink(c)
    <3>1. run' = [run EXCEPT ![r] = row]
      BY <2>3 DEF Policy, Relink
    <3>2. row.stage = run[r].stage /\ row.term = run[r].term
      BY <2>1
    <3> QED BY <3>1, <3>2
  <2>4. CASE Context(c) \/ Record(c)
    <3>1. CASE run' = run
      BY <2>2, <3>1
    <3>2. CASE run' # run
      <4>1. PICK b : run' = [run EXCEPT ![r] = [run[r] EXCEPT !.commit = b]]
        BY <2>4, <3>2 DEF Context, Record
      <4> HIDE DEF r
      <4>2. PICK x : x = [run[r] EXCEPT !.commit = b]
        OBVIOUS
      <4>3. run' = [run EXCEPT ![r] = x]
        BY <4>1, <4>2
      <4>4. x.stage = run[r].stage /\ x.term = run[r].term
        BY <2>1, <4>2
      <4> QED BY <4>3, <4>4
    <3> QED BY <3>1, <3>2
  <2>5. CASE PolicyAllows(c) \/ PolicyStops(c)
    <3>1. PICK b : run' = [run EXCEPT ![r] = [run[r] EXCEPT !.pending = b]]
      BY <2>5 DEF PolicyAllows, PolicyStops
    <3> HIDE DEF r
    <3>2. PICK x : x = [run[r] EXCEPT !.pending = b]
      OBVIOUS
    <3>3. run' = [run EXCEPT ![r] = x]
      BY <3>1, <3>2
    <3>4. x.stage = run[r].stage /\ x.term = run[r].term
      BY <2>1, <3>2
    <3> QED BY <3>3, <3>4
  <2>6. CASE \/ Rebase(c) \/ Check(c) \/ Ahead(c) \/ PreMergeHead(c) \/ PushDone(c) \/ PushFails(c)
             \/ RollbackFails(c) \/ GitFails(c) \/ RemoveTree(c) \/ DropBranch(c)
    <3>1. run' = run
      BY <2>6 DEF Rebase, Check, Ahead, PreMergeHead, PushDone, PushFails, RollbackFails, GitFails,
                  RemoveTree, DropBranch
    <3> QED BY <2>2, <3>1
  <2> QED BY <2>3, <2>4, <2>5, <2>6 DEF Steps
<1> HIDE DEF r
<1>4. \A u \in Run : run'[u].stage = run[u].stage /\ run'[u].term = run[u].term
  BY <1>2, <1>3
<1>5. \A u \in Roots : IsDone(run'[u]) => IsDone(run[u])
  BY <1>4 DEF IsDone, Roots
<1> QED BY <1>1, <1>5, CloseNone

\* What finalizes a merge ends one first run at most.
LEMMA FinalizePromise ==
  ASSUME Kept, Kept', NEW c \in Calls, Kill(c) \/ Finish(c)
  PROVE  [Promise!Next]_(Promise!vars)
<1> DEFINE r == call[c].run
           t == Tree(r)
<1>1. base' = base /\ made' = made /\ Active(c)
  BY DEF Kill, Finish, Active
<1>2. /\ run \in [Run -> Row] /\ \A q \in Run : run[q] \in Row
      /\ r \in Run /\ t \in Roots /\ CallOK(call[c], base, run)
  BY <1>1, HeadNames, Typed DEF Kept
<1>3. \A q \in Run : IsDone(Done(run[q]))
  BY <1>2 DEF IsDone, Done, Row
<1>4. CASE Kill(c)
  <2>1. PICK s \in call[c].kills : run' = [run EXCEPT ![s] = Done(run[s])]
    BY <1>4 DEF Kill
  <2>2. s \in Run /\ Tree(s) = t
    BY <1>2, <2>1 DEF CallOK, LineageOf
  <2>3. ASSUME NEW u \in Roots, u # t
        PROVE  run'[u] = run[u]
    <3>1. u \in Run /\ Tree(u) = u
      BY SameTree DEF Roots
    <3> QED BY <1>2, <2>1, <2>2, <2>3, <3>1
  <2>4. IsDone(run[t]) => IsDone(run'[t])
    BY <1>2, <1>3, <2>1, <2>2 DEF Roots
  <2> HIDE DEF t, r
  <2> QED BY <1>1, <1>2, <2>3, <2>4, CloseOne
<1>5. CASE Finish(c)
  <2> DEFINE R == [run EXCEPT ![r] = Done(run[r])]
  <2>1. run' = [s \in Run |->
                  IF s \in Ancestors[r] /\ Open(R[s]) THEN Done(R[s])
                  ELSE IF s \in Ancestors[r] /\ R[s].stage = "done" THEN [R[s] EXCEPT !.pending = FALSE]
                  ELSE R[s]]
    BY <1>5 DEF Finish
  <2>2. R[r] = Done(run[r]) /\ \A s \in Run : s # r => R[s] = run[s]
    BY <1>2
  <2> HIDE DEF R
  <2>3. ASSUME NEW u \in Roots, u # t
        PROVE  run'[u] = run[u]
    <3>1. u \in Run /\ Tree(u) = u
      BY SameTree DEF Roots
    <3>2. u # r /\ u \notin Ancestors[r]
      BY <1>2, <2>3, <3>1, SameTree
    <3> QED BY <2>1, <2>2, <3>1, <3>2
  <2>4. ASSUME IsDone(run[t])
        PROVE  IsDone(run'[t])
    <3>1. t \in Run /\ IsDone(R[t]) /\ ~Open(R[t])
      BY <1>2, <1>3, <2>2, <2>4 DEF Roots, IsDone, Open
    <3>2. R[t] \in Row
      <4>1. Done(run[r]) \in Row
        BY <1>2 DEF Done, Row
      <4> QED BY <1>2, <2>2, <3>1, <4>1
    <3>3. IsDone([R[t] EXCEPT !.pending = FALSE])
      BY <3>1, <3>2 DEF IsDone, Row
    <3> QED BY <2>1, <3>1, <3>3
  <2> HIDE DEF t, r
  <2> QED BY <1>1, <1>2, <2>3, <2>4, CloseOne
<1> QED BY <1>4, <1>5

\* A reconcile ends the first run of the lineage it looks at, and then none.
LEMMA ScanPromise ==
  ASSUME Kept, Kept', StartScan \/ ScanRun \/ EndScan
  PROVE  [Promise!Next]_(Promise!vars)
<1>1. base' = base /\ made' = made
  BY DEF StartScan, ScanRun, EndScan
<1>2. run \in [Run -> Row] /\ \A q \in Run : run[q] \in Row
  BY Typed DEF Kept
<1>3. CASE StartScan
  <2>1. ASSUME NEW u \in Roots, IsDone(run'[u])
        PROVE  IsDone(run[u])
    <3>1. u \in Run /\ (run'[u] = run[u] \/ run'[u] = [run[u] EXCEPT !.pending = FALSE])
      BY <1>3 DEF StartScan, Roots
    <3> QED BY <1>2, <2>1, <3>1 DEF IsDone, Row
  <2> QED BY <1>1, <2>1, CloseNone
<1>4. CASE ScanRun
  <2> DEFINE r == scan.next
             t == Tree(r)
  <2>1. /\ r \in Run
        /\ \A s \in Run : \/ run'[s] = run[s]
                          \/ (s = r \/ s \in Ancestors[r]) /\ run'[s] = Done(run[s])
    BY <1>4 DEF ScanRun
  <2>2. t \in Roots
    BY <2>1, TreeIsRoot
  <2>3. ASSUME NEW u \in Roots, u # t
        PROVE  run'[u] = run[u]
    <3>1. u \in Run /\ Tree(u) = u
      BY SameTree DEF Roots
    <3>2. u # r /\ u \notin Ancestors[r]
      BY <2>1, <2>3, <3>1, SameTree
    <3> QED BY <2>1, <3>1, <3>2
  <2>4. IsDone(run[t]) => IsDone(run'[t])
    <3>1. \A q \in Run : IsDone(Done(run[q]))
      BY <1>2 DEF IsDone, Done, Row
    <3> QED BY <2>1, <2>2, <3>1 DEF Roots
  <2> HIDE DEF t, r
  <2> QED BY <1>1, <2>2, <2>3, <2>4, CloseOne
<1>5. CASE EndScan
  <2> DEFINE rows == scan.rows
             asks == {r \in Run : Open(rows[r]) /\ rows[r].stage = "ship" /\ rows[r].pending}
             below == (UNION {OpenBelow(r, rows) : r \in asks}) \ scan.closed
  <2>1. \A s \in Run : run'[s] = run[s] \/ run'[s] = Failed(run[s]) \/ (s \in below /\ run'[s] = Done(run[s]))
    BY <1>5 DEF EndScan
  <2>2. ASSUME NEW s \in below
        PROVE  s \notin Roots
    <3>1. PICK r \in asks : s \in Descendants(r)
      BY <2>2 DEF OpenBelow
    <3> QED BY <3>1, DescendantsBelow
  <2> HIDE DEF below
  <2>3. ASSUME NEW u \in Roots, IsDone(run'[u])
        PROVE  IsDone(run[u])
    <3>1. u \in Run /\ (run'[u] = run[u] \/ run'[u] = Failed(run[u]))
      BY <2>1, <2>2 DEF Roots
    <3> QED BY <1>2, <2>3, <3>1 DEF IsDone, Failed, Row
  <2> QED BY <1>1, <2>3, CloseNone
<1> QED BY <1>3, <1>4, <1>5

LEMMA PromiseInit ==
  ASSUME Init
  PROVE  Promise!Init
<1>1. /\ base = {<<0, 0, 0>>} /\ \A r \in Run : run[r].stage \in {"ship", "work"}
      /\ made \in [Roots -> 0 .. 1]
  BY DEF Init, Genesis
<1>2. \A t \in Roots : \A n, g : <<t, n, g>> \notin base
  BY <1>1, ParentBelow DEF Roots
<1>3. [t \in Roots |-> {n \in 1 .. made[t] : \E g \in 0 .. MaxRebases : <<t, n, g>> \in base}] = [t \in Roots |-> {}]
  BY <1>2
<1>4. {t \in Roots : run[t].stage = "done" /\ run[t].term = "none"} = {}
  BY <1>1 DEF Roots
<1>5. \A t \in Roots : 1 .. made[t] \in SUBSET (1 .. MaxCommits)
  BY <1>1, ApprovalBoundsAssumption
<1> QED BY <1>3, <1>4, <1>5 DEF Promise!Init

LEMMA PromiseStep ==
  ASSUME Kept, Kept', HeadRead, [Next]_vars
  PROVE  [Promise!Next]_(Promise!vars)
<1>1. CASE \E r \in Run : Work(r) \/ AskApproval(r) \/ Conclude(r) \/ Reject(r)
  BY <1>1, WorkCommits, RunsPromise
<1>2. ASSUME base' = base, made' = made, run' = run
      PROVE  [Promise!Next]_(Promise!vars)
  BY <1>2, CloseNone
<1>3. CASE \E c \in Calls, r \in Run : Approve(c, r) \/ ApproveUnattended(c, r) \/ ApproveRebase(c, r)
  <2>1. base' = base /\ made' = made /\ run' = run
    BY <1>3 DEF Approve, ApproveUnattended, ApproveRebase
  <2> QED BY <1>2, <2>1
<1>4. ASSUME NEW c \in Calls, Steps(c)
      PROVE  [Promise!Next]_(Promise!vars)
  BY <1>4, MergeLands, RollbackUnlands, CallsPromise, FinalizePromise
<1>5. CASE StartScan \/ ScanRun \/ EndScan
  BY <1>5, ScanPromise
<1>6. CASE Crash \/ UNCHANGED vars
  <2>1. base' = base /\ made' = made /\ run' = run
    BY <1>6 DEF Crash, vars
  <2> QED BY <1>2, <2>1
<1> QED BY <1>1, <1>3, <1>4, <1>5, <1>6 DEF Next, Operator

\* Every behaviour of the approvals, with their many git commands, is one of Landing: under
\* the same premises a lineage's work comes to the base branch at once and whole, and what
\* was reported as done stays there.  (mergeViaLocalBranch, finalizeSuccessfulMerge and
\* reconcileSinglePass.)
THEOREM LandsAtOnce == Chain /\ RollbackAlone => (Spec => ImplementsLanding)
<1> SUFFICES ASSUME Chain, RollbackAlone PROVE Spec => ImplementsLanding
  OBVIOUS
<1>1. Kept /\ HeadRead /\ [Next]_vars => (Kept /\ HeadRead)'
  BY KeptStep, HeadStep
<1>2. Kept /\ Kept' /\ HeadRead /\ [Next]_vars => [Promise!Next]_(Promise!vars)
  BY PromiseStep
<1>3. Init => Kept /\ HeadRead /\ Promise!Init
  BY KeptInit, HeadInit, PromiseInit
<1> QED BY <1>1, <1>2, <1>3, PTL DEF Spec, ImplementsLanding, Promise!Spec
================================================================================
