--------------------------- MODULE Watchers_proofs ---------------------------
(***************************************************************************)
(* For every configuration, every limit and every bound: the types, the      *)
(* watchers that an approval leaves, and the vetting of what was merged.      *)
(***************************************************************************)
EXTENDS Watchers, SequenceTheorems, TLAPS

\* The rows, the generations, which are always about a commit somebody made, and
\* the states that the operators of the model are given.
Row == [stage : {"implement", "ship", "done"}, failed : BOOLEAN, pending : BOOLEAN,
        commit : 0 .. MergeCommit, pr : BOOLEAN, ci : Verdict, review : Verdict,
        resets : 0 .. MaxResets]
Generation == [commit : Commit, ci : Watcher, review : Watcher]
States == [run : Row, watch : Seq(Generation), active : Nat, evidence : SUBSET (Types \X Commit)]
Sound(S) == S \in States /\ S.active \in 0 .. Len(S.watch)

\* An open row belongs to the generation at work, or a crash left it.
OpenAtWork(S, crashed) ==
  \A g \in DOMAIN S.watch, t \in Types : S.watch[g][t].row = "open" => g = S.active \/ crashed

\* A run awaits its approval in its last stage, with no watchers, on two verdicts.
Awaiting(S) ==
  S.run.pending => /\ S.run.stage = "ship" /\ S.active = 0
                   /\ External => S.run.ci = "pass" /\ S.run.review = "pass"

Kept(S, crashed) == Sound(S) /\ OpenAtWork(S, crashed) /\ Awaiting(S)

--------------------------------------------------------------------------------
(* Rows and generations.                                                       *)

\* A row that is put aside is not open any more.
LEMMA PutAside ==
  ASSUME NEW w \in Watcher, NEW row \in {"cancelled", "done"}
  PROVE  Put(w, row) \in Watcher /\ Put(w, row).row # "open"
BY DEF Put, Watcher

\* ... nor is either row of its generation.
LEMMA BothAside ==
  ASSUME NEW G \in Generation, NEW row \in {"cancelled", "done"}
  PROVE  PutBoth(G, row) \in Generation /\ \A t \in Types : PutBoth(G, row)[t].row # "open"
BY PutAside DEF PutBoth, Generation, Types

\* A watcher of a generation is a watcher, and may be replaced by another.
LEMMA WatcherOf ==
  ASSUME NEW G \in Generation, NEW t \in Types
  PROVE  G[t] \in Watcher
BY DEF Generation, Types

LEMMA WatcherReplaced ==
  ASSUME NEW G \in Generation, NEW t \in Types, NEW w \in Watcher
  PROVE  /\ [G EXCEPT ![t] = w] \in Generation
         /\ \A u \in Types : [G EXCEPT ![t] = w][u] = IF u = t THEN w ELSE G[u]
         /\ [G EXCEPT ![t] = w].commit = G.commit
BY DEF Generation, Types

\* One generation of the sequence is replaced.
LEMMA GenerationReplaced ==
  ASSUME NEW W \in Seq(Generation), NEW g \in DOMAIN W, NEW G \in Generation
  PROVE  LET V == [W EXCEPT ![g] = G]
         IN  /\ V \in Seq(Generation) /\ Len(V) = Len(W) /\ DOMAIN V = DOMAIN W
             /\ V[g] = G /\ \A h \in DOMAIN W : h # g => V[h] = W[h]
OBVIOUS

\* A sequence is one of whatever its elements are.
LEMMA SequenceOf ==
  ASSUME NEW A, NEW B, NEW W \in Seq(A), \A g \in DOMAIN W : W[g] \in B
  PROVE  W \in Seq(B)
<1>1. W = [g \in 1 .. Len(W) |-> W[g]] /\ Len(W) \in Nat /\ DOMAIN W = 1 .. Len(W)
  OBVIOUS
<1> QED BY <1>1, SeqDef

\* A function that gives every generation another is a sequence of the same length.
LEMMA AllReplaced ==
  ASSUME NEW W \in Seq(Generation), NEW V, V = [g \in DOMAIN W |-> V[g]],
         \A g \in DOMAIN W : V[g] \in Generation
  PROVE  V \in Seq(Generation) /\ Len(V) = Len(W) /\ DOMAIN V = DOMAIN W
BY SeqDef

--------------------------------------------------------------------------------
(* The operators on states.                                                    *)

\* stopWatchers() leaves nothing open but what a crash left, and touches no run.
LEMMA StopKeeps ==
  ASSUME NEW S, Sound(S), NEW crashed \in BOOLEAN, OpenAtWork(S, crashed)
  PROVE  /\ Sound(Stop(S)) /\ OpenAtWork(Stop(S), crashed) /\ Len(Stop(S).watch) = Len(S.watch)
         /\ Stop(S).run = S.run /\ Stop(S).evidence = S.evidence /\ Stop(S).active = 0
<1>1. CASE S.active = 0
  BY <1>1 DEF Sound, Stop
<1>2. CASE S.active # 0
  <2> DEFINE V == [S.watch EXCEPT ![S.active] = PutBoth(@, "done")]
             T == [S EXCEPT !.watch = V, !.active = 0]
  <2>1. S \in States /\ S.active \in DOMAIN S.watch /\ S.watch \in Seq(Generation)
    BY <1>2 DEF Sound, States
  <2>2. S.watch[S.active] \in Generation
    BY <2>1
  <2>3. PutBoth(S.watch[S.active], "done") \in Generation
    BY <2>2, BothAside
  <2>4. /\ V \in Seq(Generation) /\ Len(V) = Len(S.watch) /\ DOMAIN V = DOMAIN S.watch
        /\ V[S.active] = PutBoth(S.watch[S.active], "done")
        /\ \A h \in DOMAIN S.watch : h # S.active => V[h] = S.watch[h]
    BY <2>1, <2>3, GenerationReplaced
  <2>5. Stop(S) = T
    BY <1>2 DEF Stop
  <2> HIDE DEF V
  <2>6. T \in States /\ T.run = S.run /\ T.watch = V /\ T.active = 0 /\ T.evidence = S.evidence
    BY <2>1, <2>4 DEF States
  <2> HIDE DEF T
  <2>7. OpenAtWork(T, crashed)
    BY <2>2, <2>4, <2>6, BothAside DEF OpenAtWork
  <2> QED BY <2>4, <2>5, <2>6, <2>7 DEF Sound
<1> QED BY <1>1, <1>2

\* ... and so does cancelWatchers(), with the rows it closes.
LEMMA CancelKeeps ==
  ASSUME NEW S, Sound(S), NEW crashed \in BOOLEAN, OpenAtWork(S, crashed)
  PROVE  /\ Sound(Cancel(S)) /\ OpenAtWork(Cancel(S), crashed) /\ Len(Cancel(S).watch) = Len(S.watch)
         /\ Cancel(S).run = S.run /\ Cancel(S).evidence = S.evidence /\ Cancel(S).active = 0
<1> DEFINE Closed(g) == g = S.active \/ S.watch[g].commit = S.run.commit
           V == [g \in DOMAIN S.watch |-> IF Closed(g) THEN PutBoth(S.watch[g], "cancelled")
                                          ELSE S.watch[g]]
           T == [S EXCEPT !.active = 0, !.watch = V]
<1>1. S \in States /\ S.watch \in Seq(Generation)
  BY DEF Sound, States
<1>2. Cancel(S) = T
  BY DEF Cancel
<1>3. \A g \in DOMAIN S.watch : /\ S.watch[g] \in Generation
                                /\ \/ V[g] = S.watch[g] /\ g # S.active
                                   \/ V[g] = PutBoth(S.watch[g], "cancelled")
  BY <1>1
<1>4. V = [g \in DOMAIN S.watch |-> V[g]]
  OBVIOUS
<1> HIDE DEF V
<1>5. V \in Seq(Generation) /\ Len(V) = Len(S.watch) /\ DOMAIN V = DOMAIN S.watch
  <2>1. \A g \in DOMAIN S.watch : V[g] \in Generation
    BY <1>3, BothAside
  <2> QED BY <1>1, <1>4, <2>1, AllReplaced
<1>6. T \in States /\ T.run = S.run /\ T.watch = V /\ T.active = 0 /\ T.evidence = S.evidence
  BY <1>1, <1>5 DEF States
<1> HIDE DEF T
<1>7. ASSUME NEW g \in DOMAIN V, NEW t \in Types, V[g][t].row = "open"
      PROVE  crashed
  <2>1. S.watch[g] \in Generation /\ V[g] = S.watch[g] /\ g # S.active
    BY <1>3, <1>5, <1>7, BothAside
  <2> QED BY <1>5, <1>7, <2>1 DEF OpenAtWork
<1>8. OpenAtWork(T, crashed)
  BY <1>6, <1>7 DEF OpenAtWork
<1> QED BY <1>2, <1>5, <1>6, <1>8 DEF Sound

\* spawnWatchers() starts a generation for the commit of a run that may ship and does
\* not await its approval; a run that does loses its watchers.
LEMMA SpawnKeeps ==
  ASSUME NEW S, NEW crashed \in BOOLEAN, Kept(S, crashed), S.run.commit # MergeCommit
  PROVE  LET T == spawnWatchers(S)
         IN  /\ Kept(T, crashed) /\ T.evidence = S.evidence
             /\ T.watch # <<>> => S.watch # <<>> \/ S.run.pr
             /\ T.run.commit = S.run.commit /\ T.run.pr = S.run.pr /\ T.run.stage = S.run.stage
             /\ S.run.pending \/ S.run.failed => T.run = S.run
<1> DEFINE T == spawnWatchers(S)
           Ready == /\ ~S.run.pending /\ S.run.stage = "ship" /\ ~S.run.failed
                    /\ S.run.commit # 0 /\ S.run.pr
<1>1. S \in States /\ S.watch \in Seq(Generation) /\ S.run \in Row
  BY DEF Kept, Sound, States
<1>2. CASE S.run.pending
  <2>1. T = Cancel(S)
    BY <1>2 DEF spawnWatchers
  <2>2. /\ Sound(T) /\ OpenAtWork(T, crashed) /\ Len(T.watch) = Len(S.watch)
        /\ T.run = S.run /\ T.evidence = S.evidence /\ T.active = 0
    BY <2>1, CancelKeeps DEF Kept
  <2>3. T.watch # <<>> => S.watch # <<>>
    BY <1>1, <2>2 DEF Sound, States
  <2> QED BY <2>2, <2>3 DEF Kept, Awaiting
<1>3. CASE T = S
  BY <1>3
<1>4. CASE ~S.run.pending /\ T # S
  <2> DEFINE R == [S.run EXCEPT !.ci = "pending", !.review = "pending"]
             G == [commit |-> S.run.commit, ci |-> Asking, review |-> Asking]
             Stopped == Stop(S)
             W == Append(Stopped.watch, G)
             n == Len(S.watch) + 1
             U == [Stopped EXCEPT !.run = R, !.watch = W, !.active = n]
  <2>1. Ready /\ T = [Stop(S) EXCEPT !.run.ci = "pending", !.run.review = "pending",
                                     !.watch = Append(@, G), !.active = Len(S.watch) + 1]
    BY <1>4 DEF spawnWatchers
  <2>2. /\ Sound(Stopped) /\ OpenAtWork(Stopped, crashed) /\ Len(Stopped.watch) = Len(S.watch)
        /\ Stopped.run = S.run /\ Stopped.evidence = S.evidence /\ Stopped.active = 0
    BY StopKeeps DEF Kept
  <2>3. R \in Row /\ R.commit = S.run.commit /\ R.pr = S.run.pr /\ R.stage = S.run.stage
        /\ R.pending = S.run.pending
    BY <1>1 DEF Row, Verdict
  <2>4. G \in Generation
    <3>1. S.run.commit \in Commit
      BY <1>1, <2>1, WatchersBoundsAssumption DEF Row, Commit, MergeCommit
    <3>2. Asking \in Watcher
      BY DEF Asking, Watcher
    <3> QED BY <3>1, <3>2 DEF Generation
  <2> HIDE DEF Stopped, G, R
  <2>5. T = U
    <3>1. T = [Stopped EXCEPT !.run.ci = "pending", !.run.review = "pending",
                              !.watch = Append(@, G), !.active = Len(S.watch) + 1]
      BY <2>1 DEF Stopped
    <3>2. Stopped \in States /\ R = [Stopped.run EXCEPT !.ci = "pending", !.review = "pending"]
      BY <2>2 DEF R, Sound
    <3> QED BY <3>1, <3>2 DEF States
  <2>6. Stopped \in States /\ Stopped.watch \in Seq(Generation)
    BY <2>2 DEF Sound, States
  <2>7. /\ W \in Seq(Generation) /\ Len(W) = n /\ n \in Nat \ {0}
        /\ \A g \in DOMAIN W : g # n => g \in DOMAIN Stopped.watch /\ W[g] = Stopped.watch[g]
    <3>1. PICK w : w = Stopped.watch
      OBVIOUS
    <3>2. w \in Seq(Generation) /\ Len(w) = Len(S.watch) /\ W = Append(w, G)
      BY <2>2, <2>6, <3>1
    <3>3. n = Len(w) + 1 /\ n \in Nat \ {0} /\ DOMAIN w = 1 .. Len(w)
      BY <3>2
    <3> HIDE DEF W, n
    <3>4. W \in Seq(Generation) /\ Len(W) = n
      BY <2>4, <3>2, <3>3
    <3>5. \A g \in DOMAIN W : g # n => g \in DOMAIN w /\ W[g] = w[g]
      BY <2>4, <3>2, <3>3, <3>4
    <3> QED BY <3>1, <3>3, <3>4, <3>5
  <2> HIDE DEF W, n
  <2>8. U \in States /\ U.run = R /\ U.watch = W /\ U.active = n /\ U.evidence = S.evidence
    <3>1. n \in Nat /\ R \in Row /\ W \in Seq(Generation)
      BY <2>3, <2>7
    <3>2. U \in States
      BY <2>6, <3>1 DEF States
    <3>3. U.run = R /\ U.watch = W /\ U.active = n /\ U.evidence = Stopped.evidence
      BY <2>6 DEF States
    <3> QED BY <2>2, <3>2, <3>3
  <2> HIDE DEF U
  <2>9. OpenAtWork(U, crashed)
    BY <2>2, <2>7, <2>8 DEF OpenAtWork
  <2>10. Kept(U, crashed)
    BY <2>1, <2>3, <2>7, <2>8, <2>9 DEF Kept, Sound, Awaiting
  <2> HIDE DEF T
  <2> QED BY <2>1, <2>3, <2>5, <2>8, <2>10 DEF T
<1> QED BY <1>2, <1>3, <1>4

\* refreshRunFromWorkflow() writes whether the run awaits its approval, and a run that
\* starts to loses its watchers.
LEMMA SyncKeeps ==
  ASSUME NEW S, NEW crashed \in BOOLEAN, Sound(S), OpenAtWork(S, crashed),
         S.run.pending => S.run.stage = "ship" /\ S.active = 0
  PROVE  LET T == syncRunState(S)
         IN  /\ Kept(T, crashed) /\ T.evidence = S.evidence /\ Len(T.watch) = Len(S.watch)
             /\ T.run = S.run \/ T.run = [S.run EXCEPT !.pending = Approvable(S.run)]
             /\ S.run.stage # "done" => T.run.pending = Approvable(S.run)
<1> DEFINE T == syncRunState(S)
           R == [S.run EXCEPT !.pending = Approvable(S.run)]
           U == [S EXCEPT !.run = R]
<1>1. S \in States /\ S.run \in Row
  BY DEF Sound, States
<1>2. CASE S.run.stage = "done"
  <2>1. T = S /\ ~S.run.pending
    BY <1>2 DEF syncRunState
  <2> QED BY <1>2, <2>1 DEF Kept, Awaiting
<1>3. CASE S.run.stage # "done"
  <2>1. Approvable(S.run) \in BOOLEAN
    BY DEF Approvable
  <2>2. R \in Row /\ R.pending = Approvable(S.run) /\ R.stage = S.run.stage
        /\ R.ci = S.run.ci /\ R.review = S.run.review
    BY <1>1, <2>1 DEF Row
  <2>3. T = IF R.pending /\ ~S.run.pending THEN Cancel(U) ELSE U
    BY <1>1, <1>3, <2>2 DEF syncRunState, States
  <2> HIDE DEF R
  <2>4. U \in States /\ U.run = R /\ U.watch = S.watch /\ U.active = S.active /\ U.evidence = S.evidence
    BY <1>1, <2>2 DEF States
  <2> HIDE DEF U
  <2>5. Sound(U) /\ OpenAtWork(U, crashed)
    BY <2>4 DEF Sound, OpenAtWork
  <2>6. R.pending => R.stage = "ship" /\ (External => R.ci = "pass" /\ R.review = "pass")
    BY <2>2 DEF Approvable
  <2>7. CASE R.pending /\ ~S.run.pending
    <3>1. T = Cancel(U)
      BY <2>3, <2>7
    <3>2. /\ Sound(T) /\ OpenAtWork(T, crashed) /\ Len(T.watch) = Len(U.watch)
          /\ T.run = U.run /\ T.evidence = U.evidence /\ T.active = 0
      BY <2>5, <3>1, CancelKeeps
    <3> HIDE DEF T
    <3> QED BY <2>2, <2>4, <2>6, <3>2 DEF Kept, Awaiting, R, T
  <2>8. CASE ~(R.pending /\ ~S.run.pending)
    <3>1. T = U
      BY <2>3, <2>8
    <3>2. Awaiting(U)
      BY <2>4, <2>6, <2>8 DEF Awaiting
    <3> HIDE DEF T
    <3> QED BY <2>2, <2>4, <2>5, <3>1, <3>2 DEF Kept, R, T
  <2> QED BY <2>7, <2>8
<1> QED BY <1>2, <1>3

\* Two edits of a row that do not make it await its approval.
LEMMA RowEdited ==
  ASSUME NEW S, NEW crashed \in BOOLEAN, Kept(S, crashed), NEW R \in Row,
         R.pending => R.stage = "ship" /\ S.active = 0
                      /\ (External => R.ci = "pass" /\ R.review = "pass")
  PROVE  LET T == [S EXCEPT !.run = R]
         IN  Kept(T, crashed) /\ T.run = R /\ T.watch = S.watch /\ T.active = S.active
             /\ T.evidence = S.evidence
<1> DEFINE T == [S EXCEPT !.run = R]
<1>1. S \in States
  BY DEF Kept, Sound
<1>2. T \in States /\ T.run = R /\ T.watch = S.watch /\ T.active = S.active /\ T.evidence = S.evidence
  BY <1>1 DEF States
<1> HIDE DEF T
<1> QED BY <1>2 DEF Kept, Sound, OpenAtWork, Awaiting, T

\* A run that fails awaits nothing.
LEMMA FailedKeeps ==
  ASSUME NEW S, NEW crashed \in BOOLEAN, Kept(S, crashed)
  PROVE  LET T == Failed(S)
         IN  /\ Kept(T, crashed) /\ T.watch = S.watch /\ T.active = S.active /\ T.evidence = S.evidence
             /\ T.run = [S.run EXCEPT !.failed = TRUE, !.pending = FALSE]
<1> DEFINE R == [S.run EXCEPT !.failed = TRUE, !.pending = FALSE]
<1>1. S \in States /\ S.run \in Row
  BY DEF Kept, Sound, States
<1>2. R \in Row /\ ~R.pending
  BY <1>1 DEF Row
<1>3. Failed(S) = [S EXCEPT !.run = R]
  BY <1>1 DEF Failed, States
<1> HIDE DEF R
<1>4. LET T == [S EXCEPT !.run = R]
      IN  Kept(T, crashed) /\ T.run = R /\ T.watch = S.watch /\ T.active = S.active
          /\ T.evidence = S.evidence
  BY <1>2, RowEdited
<1> QED BY <1>3, <1>4 DEF R

\* A reset takes the run back or fails it: in either case it awaits nothing, or it was done.
LEMMA ResetKeeps ==
  ASSUME NEW S, NEW crashed \in BOOLEAN, Kept(S, crashed)
  PROVE  LET T == resetToStage(S)
         IN  /\ Kept(T, crashed) /\ Len(T.watch) = Len(S.watch) /\ T.evidence = S.evidence
             /\ T.run.commit = S.run.commit /\ T.run.pr = S.run.pr
             /\ T.run.ci = S.run.ci /\ T.run.review = S.run.review
             /\ T.run.stage = "ship" => S.run.stage = "ship" /\ T.run.failed
<1> DEFINE R == [S.run EXCEPT !.resets = @ + 1, !.stage = "implement", !.pending = FALSE]
           D == [S.run EXCEPT !.resets = @ + 1]
           U == [S EXCEPT !.run = R]
           V == [S EXCEPT !.run = D]
           F == [S.run EXCEPT !.failed = TRUE, !.pending = FALSE]
<1>1. S \in States /\ S.run \in Row
  BY DEF Kept, Sound, States
<1>2. resetToStage(S) = IF S.run.resets >= MaxResets THEN Failed(S)
                        ELSE IF S.run.stage = "done" THEN V
                        ELSE IF S.run.stage = "ship" THEN Stop(U) ELSE U
  BY <1>1 DEF resetToStage, States
<1>3. CASE S.run.resets >= MaxResets
  <2>1. resetToStage(S) = Failed(S)
    BY <1>2, <1>3
  <2>2. F.commit = S.run.commit /\ F.pr = S.run.pr /\ F.ci = S.run.ci /\ F.review = S.run.review
        /\ F.stage = S.run.stage /\ F.failed
    BY <1>1 DEF Row
  <2>3. Kept(Failed(S), crashed) /\ Failed(S).watch = S.watch /\ Failed(S).evidence = S.evidence
        /\ Failed(S).run = F
    BY FailedKeeps
  <2> HIDE DEF F
  <2> QED BY <2>1, <2>2, <2>3
<1>4. CASE ~(S.run.resets >= MaxResets)
  <2>1. S.run.resets + 1 \in 0 .. MaxResets
    BY <1>1, <1>4, WatchersBoundsAssumption DEF Row
  <2>2. /\ R \in Row /\ ~R.pending /\ R.stage = "implement" /\ R.commit = S.run.commit
        /\ R.pr = S.run.pr /\ R.ci = S.run.ci /\ R.review = S.run.review
        /\ D \in Row /\ D.pending = S.run.pending /\ D.stage = S.run.stage /\ D.commit = S.run.commit
        /\ D.pr = S.run.pr /\ D.ci = S.run.ci /\ D.review = S.run.review
    BY <1>1, <2>1 DEF Row
  <2> HIDE DEF R, D
  <2>3. Kept(U, crashed) /\ U.run = R /\ U.watch = S.watch /\ U.evidence = S.evidence
    BY <2>2, RowEdited
  <2>4. Kept(V, crashed) /\ V.run = D /\ V.watch = S.watch /\ V.evidence = S.evidence
    BY <2>2, RowEdited DEF Kept, Awaiting
  <2> HIDE DEF U, V
  <2>5. /\ Sound(Stop(U)) /\ OpenAtWork(Stop(U), crashed) /\ Len(Stop(U).watch) = Len(U.watch)
        /\ Stop(U).run = U.run /\ Stop(U).evidence = U.evidence /\ Stop(U).active = 0
    BY <2>3, StopKeeps DEF Kept
  <2>6. Kept(Stop(U), crashed)
    BY <2>2, <2>3, <2>5 DEF Kept, Awaiting
  <2> QED BY <1>2, <1>4, <2>2, <2>3, <2>4, <2>5, <2>6
<1> QED BY <1>3, <1>4

\* finalize() opens no row and touches nothing else.
LEMMA FinalizedKeeps ==
  ASSUME NEW S, NEW crashed \in BOOLEAN, Kept(S, crashed), NEW g \in DOMAIN S.watch, NEW t \in Types
  PROVE  LET T == Finalized(S, g, t)
         IN  /\ Kept(T, crashed) /\ T.run = S.run /\ T.evidence = S.evidence /\ T.active = S.active
             /\ Len(T.watch) = Len(S.watch)
<1> DEFINE w == S.watch[g][t]
           v == Settled(w)
           G == [S.watch[g] EXCEPT ![t] = v]
           W == [S.watch EXCEPT ![g] = G]
           T == [S EXCEPT !.watch = W]
<1>1. S \in States /\ S.watch \in Seq(Generation) /\ S.watch[g] \in Generation
  BY DEF Kept, Sound, States
<1>2. w \in Watcher
  BY <1>1, WatcherOf
<1>3. Finalized(S, g, t) = T
  BY <1>1 DEF Finalized, States
<1>4. v \in Watcher /\ v.row # "open"
  <2> HIDE DEF w
  <2> QED BY <1>2 DEF Settled, Watcher
<1> HIDE DEF v
<1>5. G \in Generation /\ \A u \in Types : G[u] = IF u = t THEN v ELSE S.watch[g][u]
  BY <1>1, <1>4, WatcherReplaced
<1> HIDE DEF G
<1>6. /\ W \in Seq(Generation) /\ Len(W) = Len(S.watch) /\ DOMAIN W = DOMAIN S.watch
      /\ W[g] = G /\ \A h \in DOMAIN S.watch : h # g => W[h] = S.watch[h]
  BY <1>1, <1>5, GenerationReplaced
<1> HIDE DEF W
<1>7. T \in States /\ T.run = S.run /\ T.watch = W /\ T.active = S.active /\ T.evidence = S.evidence
  BY <1>1, <1>6 DEF States
<1> HIDE DEF T
<1>8. OpenAtWork(T, crashed)
  <2> SUFFICES ASSUME NEW h \in DOMAIN T.watch, NEW u \in Types, T.watch[h][u].row = "open"
               PROVE  h = T.active \/ crashed
    BY DEF OpenAtWork
  <2>1. S.watch[h][u].row = "open" /\ h \in DOMAIN S.watch
    BY <1>4, <1>5, <1>6, <1>7
  <2> QED BY <1>7, <2>1 DEF Kept, OpenAtWork
<1> QED BY <1>3, <1>6, <1>7, <1>8 DEF Kept, Sound, Awaiting

\* A verdict counts for a run that waits for it, and otherwise only ends its watcher.
LEMMA ResolvedKeeps ==
  ASSUME NEW S, NEW crashed \in BOOLEAN, Kept(S, crashed), NEW g \in DOMAIN S.watch, NEW t \in Types,
         NEW passed \in BOOLEAN, NEW observed \in Commit
  PROVE  LET T == Resolved(S, g, t, passed, observed)
         IN  /\ Kept(T, crashed) /\ Len(T.watch) = Len(S.watch)
             /\ S.evidence \subseteq T.evidence
             /\ T.run.commit = S.run.commit \/ T.run.commit = observed
             /\ T.run.pr = S.run.pr
             /\ ~Waiting(S, g, t, observed) => T.run = S.run /\ T.evidence = S.evidence
<1> DEFINE F == Finalized(S, g, t)
           verdict == IF passed THEN "pass" ELSE "fail"
           R == [F.run EXCEPT ![t] = verdict, !.commit = observed]
           E == IF passed THEN F.evidence \cup {<<t, observed>>} ELSE F.evidence
           T == [F EXCEPT !.run = R, !.evidence = E]
<1>1. /\ Kept(F, crashed) /\ F.run = S.run /\ F.evidence = S.evidence /\ F.active = S.active
      /\ Len(F.watch) = Len(S.watch)
  BY FinalizedKeeps
<1>2. Resolved(S, g, t, passed, observed) =
        IF ~Waiting(S, g, t, observed) THEN F
        ELSE IF passed THEN syncRunState(T) ELSE resetToStage(T)
  <2>1. F \in States
    BY <1>1 DEF Kept, Sound
  <2>2. T = [F EXCEPT !.run[t] = IF passed THEN "pass" ELSE "fail", !.run.commit = observed,
                      !.evidence = IF passed THEN @ \cup {<<t, observed>>} ELSE @]
    <3> HIDE DEF F
    <3> QED BY <2>1 DEF States
  <2> HIDE DEF T
  <2> QED BY <2>2 DEF Resolved
<1> HIDE DEF F
<1>3. CASE ~Waiting(S, g, t, observed)
  BY <1>1, <1>2, <1>3
<1>4. CASE Waiting(S, g, t, observed)
  <2>1. F \in States /\ F.run \in Row /\ F.evidence \in SUBSET (Types \X Commit)
    BY <1>1 DEF Kept, Sound, States
  <2>2. observed \in 0 .. MergeCommit
    BY WatchersBoundsAssumption DEF Commit, MergeCommit
  <2>3. R \in Row /\ R.pending = S.run.pending /\ R.stage = S.run.stage /\ R.commit = observed
        /\ R.pr = S.run.pr
    BY <1>1, <2>1, <2>2 DEF Row, Types, Verdict
  <2>4. E \in SUBSET (Types \X Commit) /\ S.evidence \subseteq E
    BY <1>1, <2>1
  <2>5. S.run.pending => ~External /\ S.active = 0 /\ S.run.stage = "ship"
    BY <1>4 DEF Kept, Awaiting, Waiting, Types
  <2> HIDE DEF R, E
  <2>6. T \in States /\ T.run = R /\ T.evidence = E /\ T.watch = F.watch /\ T.active = F.active
    BY <2>1, <2>3, <2>4 DEF States
  <2> HIDE DEF T
  <2>7. Kept(T, crashed)
    BY <1>1, <2>3, <2>5, <2>6 DEF Kept, Sound, OpenAtWork, Awaiting
  <2>8. CASE passed
    <3>1. /\ Kept(syncRunState(T), crashed) /\ syncRunState(T).evidence = T.evidence
          /\ Len(syncRunState(T).watch) = Len(T.watch)
          /\ \/ syncRunState(T).run = T.run
             \/ syncRunState(T).run = [T.run EXCEPT !.pending = Approvable(T.run)]
      BY <2>7, SyncKeeps DEF Kept, Awaiting
    <3>2. syncRunState(T).run.commit = T.run.commit /\ syncRunState(T).run.pr = T.run.pr
      BY <2>3, <2>6, <3>1 DEF Row
    <3> QED BY <1>1, <1>2, <1>4, <2>3, <2>4, <2>6, <2>8, <3>1, <3>2
  <2>9. CASE ~passed
    <3>1. /\ Kept(resetToStage(T), crashed) /\ Len(resetToStage(T).watch) = Len(T.watch)
          /\ resetToStage(T).evidence = T.evidence /\ resetToStage(T).run.commit = T.run.commit
          /\ resetToStage(T).run.pr = T.run.pr
      BY <2>7, ResetKeeps
    <3> QED BY <1>1, <1>2, <1>4, <2>3, <2>4, <2>6, <2>9, <3>1
  <2> QED BY <2>8, <2>9
<1> QED BY <1>3, <1>4

--------------------------------------------------------------------------------
(* The inductive invariant.                                                    *)

\* The head of the pull request is known to whoever asks for it, and nobody has a commit
\* that was not made.
AtHead ==
  /\ tree <= made /\ head <= made
  /\ (run.pr \/ watch # <<>> \/ ship.pc \in {"pr", "sync"} \/ call.pc # "idle") => head # 0

\* Watchers, the guard and the merge are about commits somebody made.
Commits ==
  /\ \A g \in DOMAIN watch : watch[g].commit \in Commit
  /\ call.pc = "checks" => call.head # 0
  /\ call.pc \in {"gate", "merge", "record", "finish"} => call.commit \in Commit

\* Shipping and approving exclude each other.
OneCall == ship.pc # "idle" => call.pc = "idle" /\ tree # 0 /\ run.commit # MergeCommit

\* While an approval awaits GitHub, the verdicts of a run in its last stage stand: it
\* awaits its approval still, or an operator ended it.
Called ==
  External /\ call.pc # "idle" =>
    /\ call.ciSeen = "pass"
    /\ run.stage = "ship" => run.ci = "pass" /\ run.review = "pass" /\ (run.pending \/ run.failed)

\* What the guard has established when it lets the approval through: the review of the
\* commit that will be merged is on record, or that of a head no older than it; the merge,
\* which is of the head, tells the two apart.  A guard that asked for the checks had no
\* evidence of them, and none appears but by a snapshot that passes.  The gate has seen the
\* checks it required, and a check that has passed does not move.
Vetting ==
  /\ call.pc \in {"head", "checks"} => ~call.guarded
  /\ External /\ call.pc = "head" => run.commit = call.seen \/ run.commit <= head
  /\ External /\ call.pc = "checks" => <<"ci", call.head>> \notin evidence
  /\ External /\ call.guarded /\ call.pc \in {"refs", "gate", "merge"} =>
       \/ <<"review", call.commit>> \in evidence
       \/ call.commit <= call.head /\ call.head <= head /\ <<"review", call.head>> \in evidence
  /\ App /\ call.pc = "merge" => Meets(call.policy, checks[call.commit])

Quiet == OpenAtWork(State, crashes > 0) /\ Awaiting(State)

IInv == TypeOK /\ AtHead /\ Commits /\ OneCall /\ Quiet /\ Called /\ Vetting /\ MergedIsVetted

\* The types, in what the operators on states write and what they do not.
StateTyped ==
  /\ run \in Row
  /\ watch \in Seq([commit : 1 .. MergeCommit, ci : Watcher, review : Watcher])
  /\ Len(watch) <= MaxSpawns /\ active \in 0 .. Len(watch)
  /\ evidence \subseteq Types \X Commit
OthersTyped ==
  /\ tree \in 0 .. MaxCommits /\ made \in 0 .. MaxCommits /\ head \in 0 .. MaxCommits
  /\ checks \in [Commit -> [Check -> {"absent", "pending", "pass", "fail"}]]
  /\ ship \in [pc : {"idle", "prepare", "push", "pr", "sync"}, commit : 0 .. MaxCommits]
  /\ call \in [pc : {"idle", "head", "checks", "refs", "gate", "merge", "record", "finish"},
               seen : 0 .. MergeCommit, ciSeen : Verdict, head : 0 .. MaxCommits,
               commit : 0 .. MergeCommit, guarded : BOOLEAN, policy : Policies]
  /\ merged \in [head : 0 .. MaxCommits, guarded : BOOLEAN, policy : Policies]
  /\ pushes \in Nat /\ crashes \in Nat /\ pushes + crashes <= MaxFaults

LEMMA Typed == (TypeOK <=> StateTyped /\ OthersTyped) /\ (TypeOK' <=> StateTyped' /\ OthersTyped')
BY DEF TypeOK, StateTyped, OthersTyped, Row

\* The state of the invariant is one that the operators keep.
LEMMA KeptNow ==
  ASSUME IInv
  PROVE  Kept(State, crashes > 0) /\ (crashes > 0) \in BOOLEAN /\ State.run = run
         /\ State.watch = watch /\ State.active = active /\ State.evidence = evidence
<1>1. run \in Row /\ active \in Nat /\ evidence \in SUBSET (Types \X Commit) /\ active \in 0 .. Len(watch)
  BY DEF IInv, TypeOK, Row
<1>2. watch \in Seq(Generation)
  <2> DEFINE Wide == [commit : 1 .. MergeCommit, ci : Watcher, review : Watcher]
  <2>1. watch \in Seq(Wide)
    BY DEF IInv, TypeOK
  <2>2. \A g \in DOMAIN watch : watch[g] \in Wide
    <3> HIDE DEF Wide
    <3> QED BY <2>1
  <2>3. \A g \in DOMAIN watch : watch[g] \in Generation
    BY <2>2 DEF IInv, Commits, Generation
  <2> QED BY <2>1, <2>3, SequenceOf
<1>3. State \in States
  BY <1>1, <1>2 DEF State, States
<1> QED BY <1>1, <1>3 DEF Kept, Sound, State, IInv, Quiet

\* What an action leaves that becomes a state the operators keep.
LEMMA Becomes ==
  ASSUME NEW S, NEW crashed \in BOOLEAN, Kept(S, crashed), Become(S), crashed <=> crashes' > 0
  PROVE  /\ run' = S.run /\ watch' = S.watch /\ active' = S.active /\ evidence' = S.evidence
         /\ StateTyped' /\ Quiet'
         /\ \A g \in DOMAIN watch' : watch'[g].commit \in Commit
<1>1. run' = S.run /\ watch' = S.watch /\ active' = S.active /\ evidence' = S.evidence /\ Len(watch') <= MaxSpawns
  BY DEF Become
<1>2. S.run \in Row /\ S.watch \in Seq(Generation) /\ S.evidence \in SUBSET (Types \X Commit)
      /\ S.active \in 0 .. Len(S.watch)
  BY DEF Kept, Sound, States
<1>3. \A g \in DOMAIN S.watch : S.watch[g] \in Generation
  BY <1>2
<1>4. S.watch \in Seq([commit : 1 .. MergeCommit, ci : Watcher, review : Watcher])
  <2>1. \A G \in Generation : G \in [commit : 1 .. MergeCommit, ci : Watcher, review : Watcher]
    BY WatchersBoundsAssumption DEF Generation, Commit, MergeCommit
  <2> QED BY <1>2, <1>3, <2>1, SequenceOf
<1>5. Quiet'
  BY <1>1 DEF Quiet, Kept, OpenAtWork, Awaiting, State
<1>6. \A g \in DOMAIN watch' : watch'[g].commit \in Commit
  BY <1>1, <1>3 DEF Generation
<1> QED BY <1>1, <1>2, <1>4, <1>5, <1>6 DEF StateTyped

--------------------------------------------------------------------------------
(* Every step keeps it.                                                        *)

\* A policy names checks, and asks for some only if it names none.
LEMMA PolicyNames == (\A policy \in Policies : policy.required \subseteq Check) /\ NoPolicy \in Policies
BY DEF Policies, NoPolicy

\* The type of the suspended approval.
Calls == [pc : {"idle", "head", "checks", "refs", "gate", "merge", "record", "finish"},
          seen : 0 .. MergeCommit, ciSeen : Verdict, head : 0 .. MaxCommits,
          commit : 0 .. MergeCommit, guarded : BOOLEAN, policy : Policies]

LEMMA IdleCall == Idle \in Calls /\ Idle.pc = "idle"
BY WatchersBoundsAssumption, PolicyNames DEF Idle, Calls, MergeCommit, Verdict

\* What passes the gate has what the policy asks for.
LEMMA GateMeets ==
  ASSUME NEW policy \in Policies, NEW on, Passes(policy, on)
  PROVE  Meets(policy, on)
<1>1. CASE policy.required # {}
  <2>1. policy.unnamed # "some"
    BY <1>1 DEF Policies
  <2> QED BY <1>1, <2>1 DEF Passes, Meets
<1>2. CASE policy.required = {}
  BY <1>2 DEF Passes, Meets
<1> QED BY <1>1, <1>2

LEMMA Initially == Init => IInv
BY WatchersBoundsAssumption, PolicyNames
   DEF Init, IInv, TypeOK, AtHead, Commits, OneCall, Quiet, OpenAtWork, Awaiting, Called, Vetting,
       MergedIsVetted, State, Idle, Commit, MergeCommit, Verdict

\* Work, checks and outsiders.
LEMMA WorldKeeps ==
  ASSUME IInv, Work \/ OutsiderPushes \/ \E c \in Commit, k \in Check : CheckMoves(c, k)
  PROVE  IInv'
<1> USE WatchersBoundsAssumption DEF IInv, Quiet, State, OpenAtWork, Awaiting, Commit
<1>1. CASE Work
  BY <1>1 DEF Work, TypeOK, AtHead, Commits, OneCall, Called, Vetting, MergedIsVetted
<1>2. CASE OutsiderPushes
  <2> USE <1>2 DEF OutsiderPushes
  <2>1. head' \in Commit /\ head <= head' /\ made' \in 0 .. MaxCommits /\ tree <= made'
    <3>1. /\ head' = made + 1 /\ made' = made + 1 /\ made < MaxCommits /\ made \in Nat
          /\ tree <= made /\ head <= made /\ tree \in Nat /\ head \in Nat
      BY DEF TypeOK, AtHead
    <3> QED BY <3>1
  <2>2. TypeOK'
    BY <2>1 DEF TypeOK
  <2>3. Vetting'
    <3>1. run.commit \in Nat /\ head \in Nat /\ call.head \in Nat /\ head' \in Nat
      BY DEF TypeOK, MergeCommit
    <3> QED BY <2>1, <3>1 DEF Vetting
  <2> QED BY <2>1, <2>2, <2>3 DEF AtHead, Commits, OneCall, Called, MergedIsVetted
<1>3. CASE \E c \in Commit, k \in Check : CheckMoves(c, k)
  <2>1. PICK c \in Commit, k \in Check : CheckMoves(c, k)
    BY <1>3
  <2>2. PICK says \in {"pending", "pass", "fail"} : checks' = [checks EXCEPT ![c][k] = says]
    BY <2>1 DEF CheckMoves
  <2>3. checks[c][k] # "pass"
    BY <2>1 DEF CheckMoves
  <2>4. UNCHANGED <<run, watch, active, evidence, tree, head, ship, call, merged, made, pushes, crashes>>
    BY <2>1 DEF CheckMoves
  <2>5. checks' \in [Commit -> [Check -> {"absent", "pending", "pass", "fail"}]]
    BY <2>2 DEF TypeOK
  <2>6. \A d \in Commit, j \in Check : checks[d][j] = "pass" => checks'[d][j] = "pass"
    BY <2>2, <2>3 DEF TypeOK
  <2>7. \A d \in Commit, policy \in Policies : Meets(policy, checks[d]) => Meets(policy, checks'[d])
    BY <2>6, PolicyNames DEF Meets
  <2>8. call.policy \in Policies /\ merged.policy \in Policies /\ (merged.head # 0 => merged.head \in Commit)
        /\ (call.pc = "merge" => call.commit \in Commit)
    BY DEF TypeOK, Commits
  <2>9. Vetting' /\ MergedIsVetted'
    BY <2>4, <2>7, <2>8 DEF Vetting, MergedIsVetted
  <2> QED BY <2>4, <2>5, <2>9 DEF TypeOK, AtHead, Commits, OneCall, Called
<1> QED BY <1>1, <1>2, <1>3

\* The call of the router: the run enters its last stage, and watchers may start.
LEMMA ReadyKeeps ==
  ASSUME IInv, ReadyToShip
  PROVE  IInv'
<1> DEFINE crashed == crashes > 0
           asked == IF run.failed THEN FALSE ELSE run.pending
           R == [run EXCEPT !.commit = tree, !.failed = FALSE, !.stage = "ship", !.pending = asked]
           S == [State EXCEPT !.run = R]
           T == IF run.stage # "ship" THEN spawnWatchers(S) ELSE S
           U == syncRunState(T)
<1>1. /\ Kept(State, crashed) /\ crashed \in BOOLEAN /\ State.run = run /\ State.watch = watch
      /\ State.active = active /\ State.evidence = evidence
  BY KeptNow
<1>2. run \in Row /\ tree \in 0 .. MaxCommits /\ tree # 0
  BY DEF IInv, TypeOK, Row, ReadyToShip
<1>3. R \in Row /\ (R.pending => run.pending) /\ R.stage = "ship" /\ R.commit = tree /\ R.pr = run.pr
      /\ R.ci = run.ci /\ R.review = run.review
  <2>1. asked \in BOOLEAN /\ (asked => run.pending)
    BY <1>2 DEF Row
  <2>2. tree \in 0 .. MergeCommit
    BY <1>2, WatchersBoundsAssumption DEF MergeCommit
  <2> HIDE DEF asked
  <2> QED BY <1>2, <2>1, <2>2 DEF Row
<1>4. Become(U)
  <2>1. S = [State EXCEPT !.run.commit = tree, !.run.failed = FALSE, !.run.stage = "ship",
                          !.run.pending = IF run.failed THEN FALSE ELSE @]
    BY DEF State
  <2> HIDE DEF S
  <2> QED BY <2>1 DEF ReadyToShip
<1> HIDE DEF R
<1>5. Kept(S, crashed) /\ S.run = R /\ S.watch = watch /\ S.evidence = evidence
  <2>1. R.pending => R.stage = "ship" /\ State.active = 0
                     /\ (External => R.ci = "pass" /\ R.review = "pass")
    BY <1>1, <1>3 DEF Kept, Awaiting
  <2> QED BY <1>1, <1>3, <2>1, RowEdited
<1> HIDE DEF S
<1>6. /\ Kept(T, crashed) /\ T.evidence = evidence /\ T.run.commit = tree /\ T.run.pr = run.pr
      /\ T.watch # <<>> => watch # <<>> \/ run.pr
  <2>1. S.run.commit # MergeCommit
    BY <1>2, <1>3, <1>5, WatchersBoundsAssumption DEF MergeCommit
  <2> QED BY <1>1, <1>3, <1>5, <2>1, SpawnKeeps
<1> HIDE DEF T
<1>7. /\ Kept(U, crashed) /\ U.evidence = evidence /\ Len(U.watch) = Len(T.watch)
      /\ U.run = T.run \/ U.run = [T.run EXCEPT !.pending = Approvable(T.run)]
  BY <1>1, <1>6, SyncKeeps DEF Kept, Awaiting
<1>8. U.run.commit = tree /\ U.run.pr = run.pr /\ (U.watch # <<>> => watch # <<>> \/ run.pr)
  <2>1. T.run \in Row /\ T.watch \in Seq(Generation) /\ U.watch \in Seq(Generation)
    BY <1>6, <1>7 DEF Kept, Sound, States
  <2>2. U.watch # <<>> => T.watch # <<>>
    BY <1>7, <2>1
  <2> QED BY <1>6, <1>7, <2>1, <2>2 DEF Row
<1> HIDE DEF U
<1>9. crashes' = crashes
  BY DEF ReadyToShip
<1>10. /\ run' = U.run /\ watch' = U.watch /\ evidence' = evidence
       /\ \A g \in DOMAIN watch' : watch'[g].commit \in Commit
       /\ StateTyped' /\ Quiet'
  BY <1>1, <1>4, <1>7, <1>9, Becomes
<1>11. TypeOK'
  <2>1. OthersTyped
    BY Typed DEF IInv
  <2>2. OthersTyped'
    BY <2>1, WatchersBoundsAssumption DEF OthersTyped, ReadyToShip
  <2> QED BY <1>10, <2>2, Typed
<1>12. AtHead' /\ Commits' /\ OneCall'
  BY <1>2, <1>8, <1>10, WatchersBoundsAssumption
     DEF IInv, AtHead, Commits, OneCall, ReadyToShip, MergeCommit
<1>13. Called' /\ Vetting' /\ MergedIsVetted'
  BY <1>10 DEF IInv, Called, Vetting, MergedIsVetted, ReadyToShip
<1> QED BY <1>10, <1>11, <1>12, <1>13 DEF IInv

\* The steps of the ship call that write the run's row or nothing the operators keep.
LEMMA ShipStepKeeps ==
  ASSUME IInv, PrepareBranch \/ pushBranch \/ upsertPullRequest
  PROVE  IInv'
<1>1. OthersTyped /\ StateTyped
  BY Typed DEF IInv
<1>2. run \in Row /\ ship.commit \in 0 .. MergeCommit /\ tree \in 0 .. MergeCommit
      /\ ship.commit # MergeCommit /\ tree # MergeCommit /\ head \in 0 .. MaxCommits
  BY <1>1, WatchersBoundsAssumption DEF StateTyped, OthersTyped, MergeCommit
<1>3. CASE PrepareBranch
  <2> DEFINE R == [run EXCEPT !.commit = tree]
  <2>1. R \in Row /\ R.commit = tree /\ R.pr = run.pr /\ R.pending = run.pending /\ R.stage = run.stage
        /\ R.ci = run.ci /\ R.review = run.review
    BY <1>2 DEF Row
  <2> HIDE DEF R
  <2>2. run' = R /\ watch' = watch /\ active' = active /\ evidence' = evidence
    BY <1>3 DEF PrepareBranch, R
  <2>3. TypeOK'
    BY <1>1, <1>3, <2>1, <2>2, Typed DEF OthersTyped, StateTyped, PrepareBranch
  <2>4. Quiet'
    BY <1>3, <2>1, <2>2 DEF IInv, Quiet, OpenAtWork, Awaiting, State, PrepareBranch
  <2>5. AtHead' /\ Commits' /\ OneCall'
    BY <1>2, <1>3, <2>1, <2>2 DEF IInv, AtHead, Commits, OneCall, PrepareBranch
  <2>6. Called' /\ Vetting' /\ MergedIsVetted'
    BY <1>3, <2>2 DEF IInv, OneCall, Called, Vetting, MergedIsVetted, PrepareBranch
  <2> QED BY <2>3, <2>4, <2>5, <2>6 DEF IInv
<1>4. CASE pushBranch
  <2>1. TypeOK'
    BY <1>1, <1>4, Typed DEF OthersTyped, StateTyped, pushBranch
  <2>2. Quiet'
    BY <1>4 DEF IInv, Quiet, OpenAtWork, Awaiting, State, pushBranch
  <2>3. AtHead' /\ Commits' /\ OneCall'
    BY <1>4 DEF IInv, AtHead, Commits, OneCall, pushBranch
  <2>4. Called' /\ Vetting' /\ MergedIsVetted'
    BY <1>4 DEF IInv, OneCall, Called, Vetting, MergedIsVetted, pushBranch
  <2> QED BY <2>1, <2>2, <2>3, <2>4 DEF IInv
<1>5. CASE upsertPullRequest
  <2> DEFINE R == [run EXCEPT !.commit = ship.commit, !.pr = TRUE]
  <2>1. R \in Row /\ R.commit = ship.commit /\ R.pending = run.pending /\ R.stage = run.stage
        /\ R.ci = run.ci /\ R.review = run.review
    BY <1>2 DEF Row
  <2> HIDE DEF R
  <2>2. run' = R /\ watch' = watch /\ active' = active /\ evidence' = evidence /\ crashes' = crashes
    BY <1>5 DEF upsertPullRequest, R
  <2>3. TypeOK'
    BY <1>1, <1>5, <2>1, <2>2, Typed DEF OthersTyped, StateTyped, upsertPullRequest
  <2>4. Quiet'
    BY <2>1, <2>2 DEF IInv, Quiet, OpenAtWork, Awaiting, State
  <2>5. AtHead' /\ Commits' /\ OneCall'
    BY <1>2, <1>5, <2>1, <2>2 DEF IInv, AtHead, Commits, OneCall, upsertPullRequest
  <2>6. Called' /\ Vetting' /\ MergedIsVetted'
    BY <1>5, <2>2 DEF IInv, OneCall, Called, Vetting, MergedIsVetted, upsertPullRequest
  <2> QED BY <2>3, <2>4, <2>5, <2>6 DEF IInv
<1> QED BY <1>3, <1>4, <1>5

\* The end of the ship call, and its failure.
LEMMA ShipEndKeeps ==
  ASSUME IInv, Shipped \/ failGitHubLifecycleBeforeApproval
  PROVE  IInv'
<1> DEFINE crashed == crashes > 0
           T == syncRunState(State)
           U == spawnWatchers(T)
           F == Failed(State)
<1>1. /\ Kept(State, crashed) /\ crashed \in BOOLEAN /\ State.run = run /\ State.watch = watch
      /\ State.active = active /\ State.evidence = evidence
  BY KeptNow
<1>2. OthersTyped /\ run \in Row /\ ship.pc # "idle" /\ call.pc = "idle" /\ run.commit # MergeCommit
      /\ crashes' = crashes
  BY Typed DEF IInv, StateTyped, OneCall, Shipped, failGitHubLifecycleBeforeApproval
<1>3. OthersTyped' /\ tree' = tree /\ head' = head /\ made' = made /\ call' = call /\ merged' = merged
      /\ checks' = checks /\ ship' = [pc |-> "idle", commit |-> 0]
  BY <1>2, WatchersBoundsAssumption DEF OthersTyped, Shipped, failGitHubLifecycleBeforeApproval
<1>4. \E S : /\ Become(S) /\ Kept(S, crashed) /\ S.evidence = evidence
             /\ S.watch # <<>> => watch # <<>> \/ run.pr
             /\ S.run.pr => run.pr
  <2>1. CASE Shipped
    <3>1. Become(U)
      BY <2>1 DEF Shipped
    <3>2. /\ Kept(T, crashed) /\ T.evidence = evidence /\ Len(T.watch) = Len(watch)
          /\ T.run = run \/ T.run = [run EXCEPT !.pending = Approvable(run)]
      BY <1>1, SyncKeeps DEF Kept, Awaiting
    <3>3. T.run.commit = run.commit /\ T.run.pr = run.pr
      BY <1>2, <3>2 DEF Row
    <3>4. T.watch # <<>> => watch # <<>>
      BY <1>1, <3>2 DEF Kept, Sound, States
    <3>a. T.run.commit # MergeCommit
      BY <1>2, <3>3
    <3> HIDE DEF T, crashed
    <3>5. /\ Kept(U, crashed) /\ U.evidence = T.evidence /\ U.run.pr = T.run.pr
          /\ U.watch # <<>> => T.watch # <<>> \/ T.run.pr
      BY <1>1, <3>2, <3>a, SpawnKeeps
    <3> HIDE DEF U
    <3> QED BY <3>1, <3>2, <3>3, <3>4, <3>5
  <2>2. CASE failGitHubLifecycleBeforeApproval
    <3>1. Become(F)
      BY <2>2 DEF failGitHubLifecycleBeforeApproval
    <3>2. /\ Kept(F, crashed) /\ F.watch = watch /\ F.evidence = evidence
          /\ F.run = [run EXCEPT !.failed = TRUE, !.pending = FALSE]
      BY <1>1, FailedKeeps
    <3>3. F.run.pr = run.pr
      BY <1>2, <3>2 DEF Row
    <3> HIDE DEF F
    <3> QED BY <3>1, <3>2, <3>3
  <2> QED BY <2>1, <2>2
<1>5. /\ StateTyped' /\ Quiet' /\ evidence' = evidence
      /\ \A g \in DOMAIN watch' : watch'[g].commit \in Commit
      /\ watch' # <<>> => watch # <<>> \/ run.pr
      /\ run'.pr => run.pr
  BY <1>1, <1>2, <1>4, Becomes
<1>6. TypeOK'
  BY <1>3, <1>5, Typed
<1>7. AtHead' /\ Commits' /\ OneCall'
  BY <1>2, <1>3, <1>5 DEF IInv, AtHead, Commits, OneCall
<1>8. Called' /\ Vetting' /\ MergedIsVetted'
  BY <1>2, <1>3, <1>5 DEF IInv, Called, Vetting, MergedIsVetted
<1> QED BY <1>5, <1>6, <1>7, <1>8 DEF IInv

\* A link: the run's commit is the head, and watchers may start for it.
LEMMA LinkKeeps ==
  ASSUME IInv, linkRun
  PROVE  IInv'
<1> DEFINE crashed == crashes > 0
           R == [run EXCEPT !.commit = head, !.pr = TRUE]
           S == [State EXCEPT !.run = R]
           T == spawnWatchers(S)
           U == syncRunState(T)
<1>1. /\ Kept(State, crashed) /\ crashed \in BOOLEAN /\ State.run = run /\ State.watch = watch
      /\ State.active = active /\ State.evidence = evidence
  BY KeptNow
<1>2. OthersTyped /\ run \in Row /\ head \in 0 .. MaxCommits /\ head # 0 /\ head # MergeCommit
      /\ head \in 0 .. MergeCommit /\ crashes' = crashes
  <2>1. OthersTyped /\ run \in Row
    BY Typed DEF IInv, StateTyped
  <2>2. head # 0 /\ crashes' = crashes
    BY DEF linkRun
  <2>3. head \in 0 .. MaxCommits
    BY <2>1 DEF OthersTyped
  <2>4. head # MergeCommit /\ head \in 0 .. MergeCommit
    BY <2>3, WatchersBoundsAssumption DEF MergeCommit
  <2> QED BY <2>1, <2>2, <2>3, <2>4
<1>3. OthersTyped' /\ UNCHANGED <<tree, head, made, call, merged, checks, ship>>
  BY <1>2 DEF OthersTyped, linkRun
<1>4. R \in Row /\ R.commit = head /\ R.pr /\ R.pending = run.pending /\ R.stage = run.stage
      /\ R.ci = run.ci /\ R.review = run.review /\ R.failed = run.failed
  BY <1>2 DEF Row
<1>5. Become(IF run.stage = "ship" /\ External THEN U ELSE S)
  <2>1. S = [State EXCEPT !.run.commit = head, !.run.pr = TRUE]
    BY DEF State
  <2> HIDE DEF S
  <2> QED BY <2>1 DEF linkRun
<1> HIDE DEF R
<1>6. Kept(S, crashed) /\ S.run = R /\ S.watch = watch /\ S.evidence = evidence
  <2>1. R.pending => R.stage = "ship" /\ State.active = 0
                     /\ (External => R.ci = "pass" /\ R.review = "pass")
    BY <1>1, <1>4 DEF Kept, Awaiting
  <2> HIDE DEF S
  <2>2. S = [State EXCEPT !.run = R]
    BY DEF S
  <2>3. R \in Row
    BY <1>4
  <2>4. /\ Kept([State EXCEPT !.run = R], crashed) /\ [State EXCEPT !.run = R].run = R
        /\ [State EXCEPT !.run = R].watch = State.watch
        /\ [State EXCEPT !.run = R].evidence = State.evidence
    BY <1>1, <2>1, <2>3, RowEdited
  <2> QED BY <1>1, <2>2, <2>4
<1> HIDE DEF S
\* The verdicts of a run that an approval is about do not move, and it awaits the approval again.
<1>7. \E V : /\ Become(V) /\ Kept(V, crashed) /\ V.evidence = evidence
             /\ V.run.commit = head /\ V.run.stage = run.stage
             /\ /\ External /\ run.stage = "ship" /\ run.ci = "pass" /\ run.review = "pass"
                /\ run.pending \/ run.failed
                => V.run.ci = "pass" /\ V.run.review = "pass" /\ V.run.pending
  <2>1. CASE run.stage = "ship" /\ External
    <3>1. Become(U)
      BY <1>5, <2>1
    <3>2. /\ Kept(T, crashed) /\ T.evidence = evidence /\ T.run.commit = head /\ T.run.pr
          /\ T.run.stage = run.stage /\ (run.pending \/ run.failed => T.run = R)
      BY <1>1, <1>2, <1>4, <1>6, SpawnKeeps
    <3> HIDE DEF T
    <3>3. T.run \in Row
      BY <3>2 DEF Kept, Sound, States
    <3>4. /\ Kept(U, crashed) /\ U.evidence = T.evidence
          /\ U.run = T.run \/ U.run = [T.run EXCEPT !.pending = Approvable(T.run)]
          /\ U.run.pending = Approvable(T.run)
      BY <1>1, <2>1, <3>2, SyncKeeps DEF Kept, Awaiting
    <3> HIDE DEF U
    <3>5. U.run.commit = T.run.commit /\ U.run.stage = T.run.stage /\ U.run.ci = T.run.ci
          /\ U.run.review = T.run.review
      <4>1. PICK r : r = T.run
        OBVIOUS
      <4>2. PICK p : p = Approvable(T.run)
        OBVIOUS
      <4>3. r \in Row /\ (U.run = r \/ U.run = [r EXCEPT !.pending = p])
        BY <3>3, <3>4, <4>1, <4>2
      <4>4. /\ [r EXCEPT !.pending = p].commit = r.commit /\ [r EXCEPT !.pending = p].ci = r.ci
            /\ [r EXCEPT !.pending = p].stage = r.stage
            /\ [r EXCEPT !.pending = p].review = r.review
        BY <4>3 DEF Row
      <4> QED BY <4>1, <4>3, <4>4
    <3>6. ASSUME run.ci = "pass", run.review = "pass", run.pending \/ run.failed
          PROVE  Approvable(T.run)
      BY <1>2, <1>4, <2>1, <3>2, <3>6 DEF Approvable
    <3> QED BY <1>4, <3>1, <3>2, <3>4, <3>5, <3>6
  <2>2. CASE ~(run.stage = "ship" /\ External)
    <3>1. Become(S)
      BY <1>5, <2>2
    <3> QED BY <1>4, <1>6, <2>2, <3>1
  <2> QED BY <2>1, <2>2
<1> HIDE DEF S, T, U
<1>8. /\ StateTyped' /\ Quiet' /\ evidence' = evidence
      /\ \A g \in DOMAIN watch' : watch'[g].commit \in Commit
      /\ run'.commit = head /\ run'.stage = run.stage
      /\ /\ External /\ run.stage = "ship" /\ run.ci = "pass" /\ run.review = "pass"
         /\ run.pending \/ run.failed
         => run'.ci = "pass" /\ run'.review = "pass" /\ run'.pending
  <2>1. PICK V : /\ Become(V) /\ Kept(V, crashed) /\ V.evidence = evidence
                 /\ V.run.commit = head /\ V.run.stage = run.stage
                 /\ /\ External /\ run.stage = "ship" /\ run.ci = "pass" /\ run.review = "pass"
                    /\ run.pending \/ run.failed
                    => V.run.ci = "pass" /\ V.run.review = "pass" /\ V.run.pending
    BY <1>7
  <2>2. /\ StateTyped' /\ Quiet' /\ run' = V.run /\ evidence' = V.evidence
        /\ \A g \in DOMAIN watch' : watch'[g].commit \in Commit
    BY <1>1, <1>2, <2>1, Becomes
  <2> QED BY <2>1, <2>2
<1>9. TypeOK'
  BY <1>3, <1>8, Typed
<1>10. AtHead' /\ Commits' /\ OneCall'
  BY <1>2, <1>3, <1>8 DEF IInv, AtHead, Commits, OneCall
<1>11. Called' /\ Vetting' /\ MergedIsVetted'
  <2>1. Called'
    BY <1>3, <1>8 DEF IInv, Called
  <2>2. Vetting'
    BY <1>2, <1>3, <1>8 DEF IInv, Vetting
  <2> QED BY <1>3, <1>8, <2>1, <2>2 DEF IInv, MergedIsVetted
<1> QED BY <1>8, <1>9, <1>10, <1>11 DEF IInv

\* A watcher that polls, rests or asks for the head keeps the status of its row.
LEMMA WatcherMoves ==
  ASSUME IInv, NEW g \in DOMAIN watch, NEW t \in Types, NEW w \in Watcher, w.row = watch[g][t].row,
         watch' = [watch EXCEPT ![g] = [@ EXCEPT ![t] = w]],
         UNCHANGED <<run, active, evidence, tree, head, checks, ship, call, merged, made, pushes, crashes>>
  PROVE  IInv'
<1> DEFINE G == [watch[g] EXCEPT ![t] = w]
           W == [watch EXCEPT ![g] = G]
           S == [State EXCEPT !.watch = W]
<1>1. /\ Kept(State, crashes > 0) /\ State.run = run /\ State.watch = watch
      /\ State.active = active /\ State.evidence = evidence /\ State \in States
      /\ watch \in Seq(Generation) /\ watch[g] \in Generation /\ Len(watch) <= MaxSpawns
  <2>1. /\ Kept(State, crashes > 0) /\ State.run = run /\ State.watch = watch
        /\ State.active = active /\ State.evidence = evidence
    BY KeptNow
  <2>2. State \in States
    BY <2>1 DEF Kept, Sound
  <2>3. watch \in Seq(Generation)
    BY <2>1, <2>2 DEF States
  <2>4. watch[g] \in Generation
    BY <2>3
  <2>5. Len(watch) <= MaxSpawns
    BY DEF IInv, TypeOK
  <2> QED BY <2>1, <2>2, <2>3, <2>4, <2>5
<1>2. G \in Generation /\ \A u \in Types : G[u] = IF u = t THEN w ELSE watch[g][u]
  <2> DEFINE H == watch[g]
  <2>1. H \in Generation
    BY <1>1
  <2> HIDE DEF H
  <2>2. [H EXCEPT ![t] = w] \in Generation /\ \A u \in Types : [H EXCEPT ![t] = w][u] = IF u = t THEN w ELSE H[u]
    BY <2>1, WatcherReplaced
  <2> QED BY <2>2 DEF H
<1> HIDE DEF G
<1>3. /\ W \in Seq(Generation) /\ Len(W) = Len(watch) /\ DOMAIN W = DOMAIN watch
      /\ W[g] = G /\ \A h \in DOMAIN watch : h # g => W[h] = watch[h]
  BY <1>1, <1>2, GenerationReplaced
<1>4. watch' = W
  BY DEF G
<1> HIDE DEF W
<1>5. S \in States /\ S.run = run /\ S.watch = W /\ S.active = active /\ S.evidence = evidence
  BY <1>1, <1>3 DEF States
<1> HIDE DEF S
<1>6. Kept(S, crashes > 0)
  <2>1. OpenAtWork(S, crashes > 0)
    <3> SUFFICES ASSUME NEW h \in DOMAIN S.watch, NEW u \in Types, S.watch[h][u].row = "open"
                 PROVE  h = S.active \/ crashes > 0
      BY DEF OpenAtWork
    <3>1. watch[h][u].row = "open" /\ h \in DOMAIN watch
      BY <1>2, <1>3, <1>5
    <3> QED BY <1>1, <1>5, <3>1 DEF Kept, OpenAtWork
  <2> QED BY <1>1, <1>3, <1>5, <2>1 DEF Kept, Sound, Awaiting
<1>7. Become(S)
  BY <1>1, <1>3, <1>4, <1>5 DEF Become
<1>8. StateTyped' /\ Quiet' /\ \A h \in DOMAIN watch' : watch'[h].commit \in Commit
  <2>1. (crashes > 0) \in BOOLEAN /\ (crashes > 0 <=> crashes' > 0)
    OBVIOUS
  <2> QED BY <1>6, <1>7, <2>1, Becomes
<1>9. TypeOK'
  <2>1. OthersTyped
    BY Typed DEF IInv
  <2> QED BY <1>8, <2>1, Typed DEF OthersTyped
<1>10. watch # <<>>
  BY <1>1
<1>11. AtHead' /\ Commits' /\ OneCall' /\ Called' /\ Vetting' /\ MergedIsVetted'
  BY <1>8, <1>10 DEF IInv, AtHead, Commits, OneCall, Called, Vetting, MergedIsVetted
<1> QED BY <1>8, <1>9, <1>11 DEF IInv

\* A verdict: while an approval awaits GitHub none is waited for, so that what the guard
\* has read of the evidence stays.
LEMMA VerdictKeeps ==
  ASSUME IInv, NEW g \in DOMAIN watch, NEW t \in Types, NEW passed \in BOOLEAN, NEW observed \in Commit,
         Become(Resolved(State, g, t, passed, observed)),
         UNCHANGED <<tree, head, checks, ship, call, merged, made, pushes, crashes>>
  PROVE  IInv'
<1> DEFINE U == Resolved(State, g, t, passed, observed)
           crashed == crashes > 0
<1>1. /\ Kept(State, crashed) /\ crashed \in BOOLEAN /\ State.run = run /\ State.watch = watch
      /\ State.active = active /\ State.evidence = evidence
  BY KeptNow
<1>2. /\ Kept(U, crashed) /\ Len(U.watch) = Len(watch) /\ evidence \subseteq U.evidence
      /\ U.run.commit = run.commit \/ U.run.commit = observed
      /\ U.run.pr = run.pr
      /\ ~Waiting(State, g, t, observed) => U.run = run /\ U.evidence = evidence
  <2>1. g \in DOMAIN State.watch
    BY <1>1
  <2>2. /\ Kept(U, crashed) /\ Len(U.watch) = Len(State.watch)
        /\ State.evidence \subseteq U.evidence
        /\ U.run.commit = State.run.commit \/ U.run.commit = observed
        /\ U.run.pr = State.run.pr
        /\ ~Waiting(State, g, t, observed) => U.run = State.run /\ U.evidence = State.evidence
    <3> HIDE DEF crashed
    <3> QED BY <1>1, <2>1, ResolvedKeeps, SMTT(40)
  <2> HIDE DEF U
  <2> QED BY <1>1, <2>2
<1>3. Become(U)
  OBVIOUS
<1> HIDE DEF U
<1>4. /\ run' = U.run /\ watch' = U.watch /\ evidence' = U.evidence /\ StateTyped' /\ Quiet'
      /\ \A h \in DOMAIN watch' : watch'[h].commit \in Commit
  BY <1>1, <1>2, <1>3, Becomes
<1>5. OthersTyped'
  <2>1. OthersTyped
    BY Typed DEF IInv
  <2> QED BY <2>1 DEF OthersTyped
<1>6. TypeOK'
  BY <1>4, <1>5, Typed
<1>7. head # 0
  <2>1. watch # <<>>
    OBVIOUS
  <2> QED BY <2>1 DEF IInv, AtHead
<1>8. observed # MergeCommit
  BY WatchersBoundsAssumption DEF Commit, MergeCommit
<1>9. AtHead' /\ Commits' /\ OneCall'
  BY <1>2, <1>4, <1>7, <1>8 DEF IInv, AtHead, Commits, OneCall
<1>10. External /\ call.pc # "idle" => run' = run /\ evidence' = evidence
  <2> SUFFICES ASSUME External, call.pc # "idle"
               PROVE  ~Waiting(State, g, t, observed)
    BY <1>2, <1>4
  <2> QED BY <1>1 DEF IInv, Called, Waiting, Types
<1>11. Called' /\ Vetting' /\ MergedIsVetted'
  BY <1>2, <1>4, <1>10 DEF IInv, Called, Vetting, MergedIsVetted
<1> QED BY <1>4, <1>6, <1>9, <1>11 DEF IInv

LEMMA WatchingKeeps ==
  ASSUME IInv, NEW g \in DOMAIN watch, Watching(g)
  PROVE  IInv'
<1> DEFINE ci == watch[g].ci
           review == watch[g].review
<1>1. watch \in Seq(Generation) /\ watch[g] \in Generation /\ ci \in Watcher /\ review \in Watcher
      /\ watch[g].commit \in Commit /\ ci = watch[g]["ci"] /\ review = watch[g]["review"]
  <2>1. watch \in Seq(Generation)
    BY KeptNow DEF Kept, Sound, States
  <2>2. watch[g] \in Generation
    BY <2>1
  <2> QED BY <2>1, <2>2 DEF Generation
<1>2. head \in Commit
  BY WatchersBoundsAssumption DEF IInv, AtHead, TypeOK, Commit
<1>3. \A w \in Watcher : Rest(w) \in Watcher /\ Rest(w).row = w.row
  BY DEF Rest, Watcher
<1>4. ASSUME NEW t \in Types, Poll(g, t)
      PROVE  IInv'
  <2> DEFINE w == [watch[g][t] EXCEPT !.pc = "asked"]
  <2>1. watch[g][t] \in Watcher
    BY <1>1, WatcherOf
  <2>2. w \in Watcher /\ w.row = watch[g][t].row
    BY <2>1 DEF Watcher
  <2>3. watch' = [watch EXCEPT ![g] = [@ EXCEPT ![t] = w]]
    BY <1>4 DEF Poll
  <2>4. UNCHANGED <<run, active, evidence, tree, head, checks, ship, call, merged, made, pushes, crashes>>
    BY <1>4 DEF Poll
  <2> HIDE DEF w
  <2> QED BY <2>2, <2>3, <2>4, WatcherMoves
<1>5. ASSUME NEW t \in Types, PollFails(g, t)
      PROVE  IInv'
  <2> DEFINE w == Rest(watch[g][t])
  <2>1. watch[g][t] \in Watcher
    BY <1>1, WatcherOf
  <2>2. w \in Watcher /\ w.row = watch[g][t].row
    BY <1>3, <2>1
  <2>3. watch' = [watch EXCEPT ![g] = [@ EXCEPT ![t] = w]]
    BY <1>5 DEF PollFails
  <2>4. UNCHANGED <<run, active, evidence, tree, head, checks, ship, call, merged, made, pushes, crashes>>
    BY <1>5 DEF PollFails
  <2> HIDE DEF w
  <2> QED BY <2>2, <2>3, <2>4, WatcherMoves
<1>6. CASE ChecksAnswer(g)
  <2> DEFINE says == classifyCiChecks(checks[head])
             w == IF says = "pending" THEN Rest(ci) ELSE [ci EXCEPT !.pc = "head", !.ans = says]
  <2>1. says \in {"pending", "pass", "fail"}
    BY DEF classifyCiChecks
  <2>2. w \in Watcher /\ w.row = ci.row
    BY <1>1, <1>3, <2>1 DEF Watcher
  <2>3. watch' = [watch EXCEPT ![g] = [@ EXCEPT !["ci"] = w]]
    BY <1>1, <1>6 DEF ChecksAnswer
  <2> HIDE DEF w
  <2> QED BY <1>1, <1>6, <2>2, <2>3, WatcherMoves DEF ChecksAnswer, Types
<1>7. CASE CiTimesOut(g)
  <2> DEFINE w == [ci EXCEPT !.pc = "late"]
  <2>1. w \in Watcher /\ w.row = ci.row
    BY <1>1 DEF Watcher
  <2>2. watch' = [watch EXCEPT ![g] = [@ EXCEPT !["ci"] = w]]
    BY <1>1, <1>7 DEF CiTimesOut
  <2> HIDE DEF w
  <2> QED BY <1>1, <1>7, <2>1, <2>2, WatcherMoves DEF CiTimesOut, Types
<1>8. CASE ReviewAnswers(g) /\ watch' = [watch EXCEPT ![g].review = Rest(@)]
           /\ UNCHANGED <<run, active, evidence>>
  <2> DEFINE w == Rest(review)
  <2>1. w \in Watcher /\ w.row = review.row
    BY <1>1, <1>3
  <2>2. watch' = [watch EXCEPT ![g] = [@ EXCEPT !["review"] = w]]
    BY <1>1, <1>8
  <2> HIDE DEF w
  <2> QED BY <1>1, <1>8, <2>1, <2>2, WatcherMoves DEF ReviewAnswers, Types
<1>9. ASSUME NEW passed \in BOOLEAN, ReviewAnswers(g),
             Become(Resolved(State, g, "review", passed, watch[g].commit))
      PROVE  IInv'
  BY <1>1, <1>9, VerdictKeeps DEF ReviewAnswers, Types
<1>10. CASE CiResolves(g)
  <2>1. (watch[g].ci.ans = "pass") \in BOOLEAN
    OBVIOUS
  <2> QED BY <1>2, <1>10, <2>1, VerdictKeeps DEF CiResolves, Types
<1>11. CASE LateResolves(g)
  BY <1>2, <1>11, VerdictKeeps DEF LateResolves, Types
<1>12. CASE ReviewTimesOut(g)
  BY <1>1, <1>12, VerdictKeeps DEF ReviewTimesOut, Types
<1>13. CASE ReviewAnswers(g)
  BY <1>8, <1>9, <1>13 DEF ReviewAnswers
<1> QED BY <1>4, <1>5, <1>6, <1>7, <1>10, <1>11, <1>12, <1>13 DEF Watching

\* The steps of an approval that write neither the run's row nor the evidence.
LEMMA ApprovingKeeps ==
  ASSUME IInv, Approve \/ HeadUnreadable \/ RefsRead \/ Gate \/ MergeFails \/ Merge
  PROVE  IInv'
<1>1. OthersTyped /\ StateTyped
  BY Typed DEF IInv
<1>2. StateTyped' /\ Quiet'
  BY <1>1 DEF StateTyped, IInv, Quiet, OpenAtWork, Awaiting, State,
              Approve, HeadUnreadable, RefsRead, Gate, MergeFails, Merge
<1>3. run \in Row /\ run.commit \in 0 .. MergeCommit /\ run.ci \in Verdict /\ head \in 0 .. MaxCommits
  BY <1>1 DEF StateTyped, OthersTyped, Row
<1>4. Idle.pc = "idle" /\ ~Idle.guarded
  BY DEF Idle
<1>5. CASE Approve
  <2>1. /\ call'.pc = "head" /\ ~call'.guarded /\ call'.seen = run.commit /\ call'.ciSeen = run.ci
        /\ run.pending /\ head # 0 /\ ship.pc = "idle"
    BY <1>5 DEF Approve, Idle
  <2>2. OthersTyped'
    <3>1. call' = [pc |-> "head", seen |-> run.commit, ciSeen |-> run.ci, head |-> 0, commit |-> 0,
                   guarded |-> FALSE, policy |-> NoPolicy]
      BY <1>5 DEF Approve, Idle
    <3>2. 0 \in 0 .. MaxCommits /\ 0 \in 0 .. MergeCommit /\ NoPolicy \in Policies
      BY WatchersBoundsAssumption, PolicyNames DEF MergeCommit
    <3>3. UNCHANGED <<tree, head, checks, ship, merged, made, pushes, crashes>>
      BY <1>5 DEF Approve
    <3> QED BY <1>1, <1>3, <3>1, <3>2, <3>3 DEF OthersTyped
  <2>3. Called'
    BY <1>5, <2>1 DEF IInv, Quiet, Awaiting, State, Called, Approve
  <2>4. AtHead' /\ Commits' /\ OneCall' /\ Vetting' /\ MergedIsVetted'
    BY <1>5, <2>1 DEF IInv, AtHead, Commits, OneCall, Vetting, MergedIsVetted, Approve
  <2> QED BY <1>2, <2>2, <2>3, <2>4, Typed DEF IInv
<1>6. CASE HeadUnreadable
  <2>1. /\ call.pc = "head" /\ call'.pc = "refs" /\ ~call'.guarded /\ call'.ciSeen = call.ciSeen
    BY <1>1, <1>6 DEF HeadUnreadable, OthersTyped, IInv, Vetting
  <2>2. OthersTyped'
    BY <1>1, <1>3, <1>6 DEF OthersTyped, HeadUnreadable
  <2>3. AtHead' /\ Commits' /\ OneCall' /\ Called' /\ Vetting' /\ MergedIsVetted'
    BY <1>6, <2>1 DEF IInv, AtHead, Commits, OneCall, Called, Vetting, MergedIsVetted, HeadUnreadable
  <2> QED BY <1>2, <2>2, <2>3, Typed DEF IInv
<1>7. ASSUME call' = Idle,
             UNCHANGED <<run, watch, active, evidence, tree, head, checks, ship, merged, made, pushes, crashes>>
      PROVE  IInv'
  <2>1. OthersTyped'
    BY <1>1, <1>7, WatchersBoundsAssumption, PolicyNames DEF OthersTyped, Idle, MergeCommit, Verdict
  <2>2. AtHead' /\ Commits' /\ OneCall' /\ Called' /\ Vetting' /\ MergedIsVetted'
    BY <1>4, <1>7 DEF IInv, AtHead, Commits, OneCall, Called, Vetting, MergedIsVetted
  <2> QED BY <1>2, <2>1, <2>2, Typed DEF IInv
<1>8. ASSUME NEW pc \in {"gate", "merge"}, NEW policy \in Policies, call.pc \in {"refs", "gate"},
             call' = [call EXCEPT !.pc = pc, !.policy = policy],
             call.commit \in Commit, pc = "merge" /\ App => Meets(policy, checks[call.commit]),
             UNCHANGED <<run, watch, active, evidence, tree, head, checks, ship, merged, made, pushes, crashes>>
      PROVE  IInv'
  <2>1. /\ call'.pc = pc /\ call'.guarded = call.guarded /\ call'.ciSeen = call.ciSeen
        /\ call'.commit = call.commit /\ call'.head = call.head /\ call'.policy = policy
    BY <1>1, <1>8 DEF OthersTyped
  <2>2. OthersTyped'
    BY <1>1, <1>8 DEF OthersTyped
  <2>4. AtHead' /\ Commits' /\ OneCall' /\ Called'
    BY <1>8, <2>1 DEF IInv, AtHead, Commits, OneCall, Called
  <2>5. Vetting' /\ MergedIsVetted'
    BY <1>8, <2>1 DEF IInv, Vetting, MergedIsVetted
  <2> QED BY <1>2, <2>2, <2>4, <2>5, Typed DEF IInv
<1>9. CASE RefsRead
  <2>1. CASE call' = Idle
    BY <1>7, <1>9, <2>1 DEF RefsRead
  <2>2. CASE call' # Idle
    <3> DEFINE pc == IF App THEN "gate" ELSE "merge"
    <3>1. call.pc = "refs" /\ call.commit \in Commit /\ call' = [call EXCEPT !.pc = pc]
      BY <1>9, <2>2 DEF RefsRead
    <3>2. pc \in {"gate", "merge"} /\ (App => pc # "merge")
      OBVIOUS
    <3> HIDE DEF pc
    <3>3. call' = [call EXCEPT !.pc = pc, !.policy = call.policy] /\ call.policy \in Policies
      BY <1>1, <3>1 DEF OthersTyped
    <3> QED BY <1>8, <1>9, <3>1, <3>2, <3>3 DEF RefsRead
  <2> QED BY <2>1, <2>2
<1>10. CASE Gate
  <2>1. CASE call' = Idle
    BY <1>7, <1>10, <2>1 DEF Gate
  <2>2. CASE call' # Idle
    <3>1. PICK policy \in Policies : /\ Passes(policy, checks[call.commit])
                                    /\ call' = [call EXCEPT !.pc = "merge", !.policy = policy]
      BY <1>10, <2>2 DEF Gate
    <3>2. Meets(policy, checks[call.commit])
      BY <3>1, GateMeets
    <3>3. call.pc = "gate" /\ call.commit \in Commit
      BY <1>10 DEF Gate, IInv, Commits
    <3> QED BY <1>8, <1>10, <3>1, <3>2, <3>3 DEF Gate
  <2> QED BY <2>1, <2>2
<1>11. CASE MergeFails
  BY <1>7, <1>11 DEF MergeFails
<1>12. CASE Merge
  <2>1. /\ call.pc = "merge" /\ head = call.commit /\ head # 0
        /\ call'.pc = "idle" \/ (/\ call'.pc = "record" /\ call'.ciSeen = call.ciSeen
                               /\ call'.commit = call.commit)
        /\ merged'.head = head /\ merged'.guarded = call.guarded /\ merged'.policy = call.policy
    BY <1>1, <1>4, <1>12 DEF Merge, OthersTyped, IInv, AtHead
  <2>2. OthersTyped'
    <3>1. call' \in Calls
      BY <1>1, <1>12, IdleCall DEF Merge, OthersTyped, Calls
    <3> QED BY <1>1, <1>12, <3>1 DEF OthersTyped, Merge, Calls
  <2>3. MergedIsVetted'
    <3>1. ASSUME External, call.guarded
          PROVE  <<"review", head>> \in evidence
      <4>1. \/ <<"review", call.commit>> \in evidence
            \/ call.commit <= call.head /\ call.head <= head /\ <<"review", call.head>> \in evidence
        BY <2>1, <3>1 DEF IInv, Vetting
      <4>2. call.head \in Nat /\ head \in Nat
        BY <1>1 DEF OthersTyped
      <4> QED BY <2>1, <4>1, <4>2
    <3>2. App => Meets(call.policy, checks[head])
      BY <2>1 DEF IInv, Vetting
    <3>3. UNCHANGED <<evidence, checks>>
      BY <1>12 DEF Merge
    <3> QED BY <2>1, <3>1, <3>2, <3>3 DEF MergedIsVetted
  <2>4. AtHead' /\ Commits' /\ OneCall' /\ Called' /\ Vetting'
    BY <1>12, <2>1 DEF IInv, AtHead, Commits, OneCall, Called, Vetting, Merge
  <2> QED BY <1>2, <2>2, <2>3, <2>4, Typed DEF IInv
<1> QED BY <1>5, <1>6, <1>9, <1>10, <1>11, <1>12

\* What the guard may write: the commit and the CI latch of the row, and evidence.
LEMMA GuardingKeeps ==
  ASSUME IInv, call.pc \in {"head", "checks"},
         run' \in Row, run'.pending = run.pending, run'.stage = run.stage, run'.failed = run.failed,
         run'.pr = run.pr, run'.review = run.review, run'.ci = run.ci \/ run'.ci = "pass",
         evidence \subseteq evidence', evidence' \subseteq Types \X Commit,
         UNCHANGED <<watch, active, tree, head, checks, ship, merged, made, pushes, crashes>>,
         OthersTyped', call'.pc \in {"idle", "checks", "refs"}, call'.pc = "checks" => call'.head # 0,
         call'.pc # "idle" => call'.ciSeen = call.ciSeen, Vetting'
  PROVE  IInv'
<1>1. StateTyped'
  BY Typed DEF IInv, StateTyped
<1>2. Quiet'
  BY DEF IInv, Quiet, OpenAtWork, Awaiting, State
<1>3. AtHead' /\ Commits' /\ OneCall' /\ Called' /\ MergedIsVetted'
  BY DEF IInv, AtHead, Commits, OneCall, Called, MergedIsVetted
<1> QED BY <1>1, <1>2, <1>3, Typed DEF IInv

\* What the guard answers: the approval ends, or it goes on with the evidence it asked for.
GuardSays(R, E, c, commit) ==
  /\ run' = R /\ evidence' = E
  /\ \/ call' = Idle
     \/ /\ call' = [c EXCEPT !.pc = "refs", !.commit = R.commit, !.guarded = TRUE]
        /\ External => <<"review", commit>> \in E
        /\ c.ciSeen = "pass" => <<"ci", commit>> \in E

LEMMA GuardAnswers ==
  ASSUME NEW S, NEW c, NEW commit, Guarded(S, c, commit)
  PROVE  GuardSays(S.run, S.evidence, c, commit)
BY DEF Guarded, GuardSays

\* What the guard makes of the suspended approval.
LEMMA GuardedCall ==
  ASSUME NEW c \in Calls, NEW commit \in 0 .. MergeCommit
  PROVE  LET d == [c EXCEPT !.pc = "refs", !.commit = commit, !.guarded = TRUE]
         IN  d \in Calls /\ d.pc = "refs" /\ d.commit = commit /\ d.guarded /\ d.head = c.head
             /\ d.ciSeen = c.ciSeen
BY DEF Calls

LEMMA HeadReadKeeps ==
  ASSUME IInv, HeadRead
  PROVE  IInv'
<1> DEFINE n == IF head = call.seen THEN run.commit ELSE head
           R == [run EXCEPT !.commit = n]
           S == [State EXCEPT !.run = R]
           c == [call EXCEPT !.head = head]
<1>1. OthersTyped /\ StateTyped /\ run \in Row /\ call \in Calls /\ call.pc = "head"
      /\ UNCHANGED <<watch, active, tree, head, checks, ship, merged, made, pushes, crashes>>
      /\ head \in 0 .. MaxCommits /\ head # 0
  BY Typed DEF IInv, AtHead, HeadRead, StateTyped, OthersTyped, Calls
<1>2. n \in 0 .. MergeCommit
  BY <1>1, WatchersBoundsAssumption DEF Row, MergeCommit
<1>3. External => n <= head
  BY <1>1 DEF IInv, Vetting, Row, MergeCommit
<1>4. IF <<"ci", head>> \in evidence THEN Guarded(S, c, head)
      ELSE run' = S.run /\ call' = [c EXCEPT !.pc = "checks"] /\ UNCHANGED evidence
  <2>1. S = [State EXCEPT !.run.commit = IF head = call.seen THEN @ ELSE head]
    BY DEF State
  <2> HIDE DEF S
  <2> QED BY <2>1 DEF HeadRead
<1> HIDE DEF n
<1>5. /\ R \in Row /\ R.commit = n /\ R.pending = run.pending /\ R.stage = run.stage
      /\ R.failed = run.failed /\ R.pr = run.pr /\ R.review = run.review /\ R.ci = run.ci
  BY <1>1, <1>2 DEF Row
<1> HIDE DEF R
<1>6. S.run = R /\ S.evidence = evidence
  BY DEF State
<1> HIDE DEF S
<1>7. c \in Calls /\ c.head = head /\ c.ciSeen = call.ciSeen /\ c.guarded = call.guarded
      /\ c.seen = call.seen
  BY <1>1 DEF Calls
<1> HIDE DEF c
<1>8. ASSUME NEW d \in Calls, call' = d, run' = R, evidence' = evidence
      PROVE  OthersTyped' /\ StateTyped'
  BY <1>1, <1>5, <1>8 DEF OthersTyped, StateTyped, Calls
<1>9. CASE <<"ci", head>> \in evidence
  <2>1. GuardSays(R, evidence, c, head)
    BY <1>4, <1>6, <1>9, GuardAnswers
  <2>2. CASE call' = Idle
    BY <1>1, <1>5, <1>8, <2>1, <2>2, IdleCall, GuardingKeeps DEF GuardSays, StateTyped, Vetting
  <2>3. CASE call' # Idle
    <3> DEFINE d == [c EXCEPT !.pc = "refs", !.commit = n, !.guarded = TRUE]
    <3>1. call' = d /\ (External => <<"review", head>> \in evidence)
      BY <1>5, <2>1, <2>3 DEF GuardSays
    <3>2. d \in Calls /\ d.pc = "refs" /\ d.commit = n /\ d.guarded /\ d.head = head
          /\ d.ciSeen = call.ciSeen
      BY <1>2, <1>7, GuardedCall
    <3> HIDE DEF d
    <3>3. Vetting'
      BY <1>1, <1>3, <2>1, <3>1, <3>2 DEF GuardSays, Vetting
    <3> QED BY <1>1, <1>5, <1>8, <2>1, <3>1, <3>2, <3>3, GuardingKeeps DEF GuardSays, StateTyped
  <2> QED BY <2>2, <2>3
<1>10. CASE <<"ci", head>> \notin evidence
  <2> DEFINE d == [c EXCEPT !.pc = "checks"]
  <2>1. call' = d /\ run' = R /\ evidence' = evidence
    BY <1>4, <1>6, <1>10
  <2>2. d \in Calls /\ d.pc = "checks" /\ d.head = head /\ d.guarded = call.guarded
        /\ d.ciSeen = call.ciSeen
    BY <1>7 DEF Calls
  <2> HIDE DEF d
  <2>3. Vetting'
    BY <1>1, <1>10, <2>1, <2>2 DEF IInv, Vetting
  <2> QED BY <1>1, <1>5, <1>8, <2>1, <2>2, <2>3, GuardingKeeps DEF StateTyped
<1> QED BY <1>9, <1>10

LEMMA SnapshotKeeps ==
  ASSUME IInv, Snapshot
  PROVE  IInv'
<1> DEFINE P == [run EXCEPT !.ci = "pass"]
           E == evidence \cup {<<"ci", call.head>>}
           S == [State EXCEPT !.evidence = E, !.run = P]
<1>1. OthersTyped /\ StateTyped /\ run \in Row /\ call \in Calls /\ call.pc = "checks"
      /\ UNCHANGED <<watch, active, tree, head, checks, ship, merged, made, pushes, crashes>>
      /\ call.head \in Commit /\ evidence \subseteq Types \X Commit
  <2>1. OthersTyped /\ StateTyped /\ run \in Row /\ evidence \subseteq Types \X Commit
    BY Typed DEF IInv, StateTyped
  <2>2. call.pc = "checks" /\ UNCHANGED <<watch, active, tree, head, checks, ship, merged, made, pushes, crashes>>
    BY DEF Snapshot
  <2>3. call \in Calls /\ call.head \in 0 .. MaxCommits /\ call.head # 0
    BY <2>1, <2>2 DEF IInv, Commits, OthersTyped, Calls
  <2>4. call.head \in Commit
    BY <2>3, WatchersBoundsAssumption DEF Commit
  <2> QED BY <2>1, <2>2, <2>3, <2>4
<1>2. run.commit \in 0 .. MergeCommit
  BY <1>1 DEF Row
<1>3. /\ P \in Row /\ P.commit = run.commit /\ P.pending = run.pending /\ P.stage = run.stage
      /\ P.failed = run.failed /\ P.pr = run.pr /\ P.review = run.review /\ P.ci = "pass"
  BY <1>1 DEF Row, Verdict
<1>4. E \subseteq Types \X Commit /\ evidence \subseteq E
  BY <1>1 DEF Types
<1>5. \/ GuardSays(P, E, call, run.commit)
      \/ GuardSays(run, evidence, call, call.head)
  <2>1. S = [State EXCEPT !.evidence = @ \cup {<<"ci", call.head>>}, !.run.ci = "pass"]
    BY DEF State
  <2>2. S.run = P /\ S.evidence = E /\ State.run = run /\ State.evidence = evidence
    BY DEF State
  <2> HIDE DEF S
  <2>3. Guarded(S, call, run.commit) \/ Guarded(State, call, call.head)
    BY <2>1 DEF Snapshot
  <2> HIDE DEF P, E
  <2>4. CASE Guarded(S, call, run.commit)
    BY <2>2, <2>4, GuardAnswers
  <2>5. CASE Guarded(State, call, call.head)
    BY <2>2, <2>5, GuardAnswers
  <2> QED BY <2>3, <2>4, <2>5
<1> HIDE DEF P, E
<1>6. ASSUME NEW d \in Calls, call' = d
      PROVE  OthersTyped'
  BY <1>1, <1>6 DEF OthersTyped, Calls
<1>7. run' \in Row /\ run'.pending = run.pending /\ run'.stage = run.stage /\ run'.failed = run.failed
      /\ run'.pr = run.pr /\ run'.review = run.review /\ (run'.ci = run.ci \/ run'.ci = "pass")
      /\ run'.commit = run.commit /\ evidence \subseteq evidence' /\ evidence' \subseteq Types \X Commit
  BY <1>1, <1>3, <1>4, <1>5 DEF GuardSays
<1>8. CASE call' = Idle
  <2>1. OthersTyped' /\ call'.pc = "idle"
    BY <1>6, <1>8, IdleCall
  <2>2. Vetting'
    BY <2>1 DEF Vetting
  <2> QED BY <1>1, <1>7, <2>1, <2>2, GuardingKeeps
<1>9. CASE call' # Idle
  <2> DEFINE d == [call EXCEPT !.pc = "refs", !.commit = run.commit, !.guarded = TRUE]
  <2>1. call' = d
    BY <1>3, <1>5, <1>9 DEF GuardSays
  <2>2. External => <<"review", run.commit>> \in evidence'
    <3>1. CASE GuardSays(P, E, call, run.commit)
      BY <1>9, <3>1 DEF GuardSays
    \* The checks are not green, and there is still no evidence that they were.
    <3>2. CASE GuardSays(run, evidence, call, call.head)
      BY <1>1, <1>9, <3>2 DEF GuardSays, IInv, Called, Vetting
    <3> QED BY <1>5, <3>1, <3>2
  <2>3. d \in Calls /\ d.pc = "refs" /\ d.commit = run.commit /\ d.guarded /\ d.ciSeen = call.ciSeen
    BY <1>1, <1>2, GuardedCall
  <2> HIDE DEF d
  <2>4. OthersTyped'
    BY <1>6, <2>1, <2>3
  <2>5. Vetting'
    BY <2>1, <2>2, <2>3 DEF Vetting
  <2> QED BY <1>1, <1>7, <2>1, <2>3, <2>4, <2>5, GuardingKeeps
<1> QED BY <1>8, <1>9

\* The merge is recorded, and the run is done.
LEMMA MergedKeeps ==
  ASSUME IInv, Recorded \/ Finish
  PROVE  IInv'
<1> DEFINE crashed == crashes > 0
<1>1. /\ Kept(State, crashed) /\ crashed \in BOOLEAN /\ State.run = run /\ State.watch = watch
      /\ State.active = active /\ State.evidence = evidence /\ State \in States
  BY KeptNow DEF Kept, Sound
<1>2. OthersTyped /\ StateTyped /\ run \in Row /\ call \in Calls /\ call.pc \in {"record", "finish"}
      /\ UNCHANGED <<tree, head, checks, ship, merged, made, pushes, crashes>>
      /\ head # 0 /\ ship.pc = "idle" /\ call.commit \in Commit
  BY Typed DEF IInv, AtHead, OneCall, Commits, Recorded, Finish, StateTyped, OthersTyped, Calls
<1>3. ASSUME NEW d \in Calls, call' = d
      PROVE  OthersTyped'
  BY <1>2, <1>3 DEF OthersTyped, Calls
<1>4. CASE Recorded
  <2> DEFINE d == [call EXCEPT !.pc = "finish"]
             M == [run EXCEPT !.commit = MergeCommit]
  <2>1. d \in Calls /\ d.pc = "finish" /\ d.commit = call.commit /\ d.ciSeen = call.ciSeen
    BY <1>2 DEF Calls
  <2>2. /\ M \in Row /\ M.pending = run.pending /\ M.stage = run.stage
        /\ M.failed = run.failed /\ M.pr = run.pr /\ M.ci = run.ci /\ M.review = run.review
    BY <1>2, WatchersBoundsAssumption DEF Row, MergeCommit
  <2>3. call' = d /\ run' \in {run, M} /\ UNCHANGED <<watch, active, evidence>>
    BY <1>4 DEF Recorded
  <2> HIDE DEF d, M
  <2>4. OthersTyped' /\ StateTyped'
    BY <1>2, <1>3, <2>1, <2>2, <2>3 DEF StateTyped
  <2>5. Quiet'
    BY <1>2, <2>2, <2>3 DEF IInv, Quiet, OpenAtWork, Awaiting, State
  <2>6. AtHead' /\ Commits' /\ OneCall' /\ Called' /\ Vetting' /\ MergedIsVetted'
    BY <1>2, <2>1, <2>2, <2>3
       DEF IInv, AtHead, Commits, OneCall, Called, Vetting, MergedIsVetted
  <2> QED BY <2>4, <2>5, <2>6, Typed DEF IInv
<1>5. CASE Finish
  <2> DEFINE R == [run EXCEPT !.stage = "done", !.failed = FALSE, !.pending = FALSE]
             S == [State EXCEPT !.run = R]
             T == Stop(S)
  <2>1. R \in Row /\ ~R.pending /\ R.pr = run.pr
    BY <1>2 DEF Row
  <2>2. Become(T)
    <3>1. S = [State EXCEPT !.run.stage = "done", !.run.failed = FALSE, !.run.pending = FALSE]
      BY DEF State
    <3> HIDE DEF S
    <3> QED BY <1>5, <3>1 DEF Finish
  <2> HIDE DEF R
  <2>3. Kept(S, crashed) /\ S.run = R /\ S.watch = watch /\ S.evidence = evidence
    BY <1>1, <2>1, RowEdited
  <2> HIDE DEF S
  <2>4. /\ Sound(T) /\ OpenAtWork(T, crashed) /\ Len(T.watch) = Len(watch)
        /\ T.run = R /\ T.evidence = evidence
    BY <1>1, <2>3, StopKeeps DEF Kept
  <2> HIDE DEF T
  <2>5. Kept(T, crashed)
    BY <2>1, <2>4 DEF Kept, Awaiting
  <2>6. /\ run' = R /\ watch' = T.watch /\ evidence' = evidence /\ StateTyped' /\ Quiet'
        /\ \A g \in DOMAIN watch' : watch'[g].commit \in Commit
    BY <1>1, <1>2, <2>2, <2>4, <2>5, Becomes
  <2>7. call' = Idle
    BY <1>5 DEF Finish
  <2>8. OthersTyped' /\ call'.pc = "idle"
    BY <1>3, <2>7, IdleCall
  <2>9. AtHead' /\ Commits' /\ OneCall' /\ Called' /\ Vetting' /\ MergedIsVetted'
    BY <1>2, <2>6, <2>8 DEF IInv, AtHead, Commits, OneCall, Called, Vetting, MergedIsVetted
  <2> QED BY <2>6, <2>8, <2>9, Typed DEF IInv
<1> QED BY <1>4, <1>5

\* An operator ends or resets the run, whatever awaits GitHub.
LEMMA OperatorKeeps ==
  ASSUME IInv, EndedByOperator \/ OperatorResets
  PROVE  IInv'
<1> DEFINE crashed == crashes > 0
           F == Failed(State)
           T == resetToStage(State)
<1>1. /\ Kept(State, crashed) /\ crashed \in BOOLEAN /\ State.run = run /\ State.watch = watch
      /\ State.active = active /\ State.evidence = evidence
  BY KeptNow
<1>2. OthersTyped /\ run \in Row /\ UNCHANGED <<tree, head, checks, ship, call, merged, made, pushes, crashes>>
  BY Typed DEF IInv, StateTyped, EndedByOperator, OperatorResets
<1>3. OthersTyped'
  BY <1>2 DEF OthersTyped
<1>4. \E S : /\ Become(S) /\ Kept(S, crashed) /\ S.evidence = evidence /\ Len(S.watch) = Len(watch)
             /\ S.run.commit = run.commit /\ S.run.pr = run.pr
             /\ S.run.ci = run.ci /\ S.run.review = run.review
             /\ S.run.stage = "ship" => run.stage = "ship" /\ S.run.failed
  <2>1. CASE EndedByOperator
    <3>1. Become(F)
      BY <2>1 DEF EndedByOperator
    <3>2. /\ Kept(F, crashed) /\ F.watch = watch /\ F.evidence = evidence
          /\ F.run = [run EXCEPT !.failed = TRUE, !.pending = FALSE]
      BY <1>1, FailedKeeps
    <3>3. F.run.pr = run.pr /\ F.run.commit = run.commit /\ F.run.ci = run.ci /\ F.run.failed
          /\ F.run.review = run.review /\ F.run.stage = run.stage
      BY <1>2, <3>2 DEF Row
    <3> HIDE DEF F
    <3> QED BY <3>1, <3>2, <3>3
  <2>2. CASE OperatorResets
    <3>1. Become(T)
      BY <2>2 DEF OperatorResets
    <3>2. /\ Kept(T, crashed) /\ Len(T.watch) = Len(watch) /\ T.evidence = evidence
          /\ T.run.commit = run.commit /\ T.run.pr = run.pr
          /\ T.run.ci = run.ci /\ T.run.review = run.review
          /\ T.run.stage = "ship" => run.stage = "ship" /\ T.run.failed
      BY <1>1, ResetKeeps
    <3> HIDE DEF T
    <3> QED BY <3>1, <3>2
  <2> QED BY <2>1, <2>2
<1>5. /\ StateTyped' /\ Quiet' /\ evidence' = evidence /\ Len(watch') = Len(watch)
      /\ \A g \in DOMAIN watch' : watch'[g].commit \in Commit
      /\ run'.commit = run.commit /\ run'.pr = run.pr
      /\ run'.ci = run.ci /\ run'.review = run.review
      /\ run'.stage = "ship" => run.stage = "ship" /\ run'.failed
  BY <1>1, <1>2, <1>4, Becomes
<1>6. watch' # <<>> => watch # <<>>
  BY <1>5, Typed DEF IInv, StateTyped
<1>7. AtHead' /\ Commits' /\ OneCall' /\ Called' /\ Vetting' /\ MergedIsVetted'
  BY <1>2, <1>5, <1>6 DEF IInv, AtHead, Commits, OneCall, Called, Vetting, MergedIsVetted
<1> QED BY <1>3, <1>5, <1>7, Typed DEF IInv

\* A crash ends every call and every watcher, and leaves every row.
LEMMA CrashKeeps ==
  ASSUME IInv, Crash
  PROVE  IInv'
<1> DEFINE V(g) == [watch[g] EXCEPT !.ci.pc = "off", !.ci.ans = "none", !.review.pc = "off"]
           Wide == [commit : 1 .. MergeCommit, ci : Watcher, review : Watcher]
<1>1. OthersTyped /\ StateTyped /\ run \in Row
      /\ UNCHANGED <<run, evidence, tree, head, checks, merged, made, pushes>>
      /\ call' = Idle /\ active' = 0 /\ crashes' = crashes + 1 /\ pushes + crashes < MaxFaults
      /\ ship' = [pc |-> "idle", commit |-> 0]
  BY Typed DEF IInv, Crash, StateTyped
<1>2. watch \in Seq(Generation) /\ \A g \in DOMAIN watch : watch[g] \in Generation
  <2>1. watch \in Seq(Generation)
    BY KeptNow DEF Kept, Sound, States
  <2> QED BY <2>1
<1>3. \A g \in DOMAIN watch : V(g) \in Generation
  <2> TAKE g \in DOMAIN watch
  <2> DEFINE c == [watch[g].ci EXCEPT !.pc = "off", !.ans = "none"]
             r == [watch[g].review EXCEPT !.pc = "off"]
  <2>1. watch[g] \in Generation
    BY <1>2
  <2>2. V(g) = [watch[g] EXCEPT !.ci = c, !.review = r]
    BY <2>1 DEF Generation
  <2>3. watch[g].ci \in Watcher /\ watch[g].review \in Watcher
    BY <2>1 DEF Generation
  <2>4. c \in Watcher /\ r \in Watcher
    BY <2>3 DEF Watcher
  <2> HIDE DEF c, r, V
  <2> QED BY <2>1, <2>2, <2>4 DEF Generation
<1>4. watch' = [g \in DOMAIN watch |-> V(g)]
  BY DEF Crash
<1> HIDE DEF V
<1>5. watch' \in Seq(Generation) /\ Len(watch') = Len(watch) /\ DOMAIN watch' = DOMAIN watch
  <2> DEFINE W == [g \in DOMAIN watch |-> V(g)]
  <2>1. W = [g \in DOMAIN watch |-> W[g]] /\ \A g \in DOMAIN watch : W[g] \in Generation
    BY <1>3
  <2> HIDE DEF W
  <2>2. W \in Seq(Generation) /\ Len(W) = Len(watch) /\ DOMAIN W = DOMAIN watch
    BY <1>2, <2>1, AllReplaced
  <2> QED BY <1>4, <2>2 DEF W
<1>6. StateTyped'
  <2>1. \A G \in Generation : G \in Wide
    BY WatchersBoundsAssumption DEF Generation, Commit, MergeCommit
  <2>2. \A g \in DOMAIN watch' : watch'[g] \in Generation
    BY <1>5
  <2> HIDE DEF Wide
  <2>3. watch' \in Seq(Wide)
    BY <1>5, <2>1, <2>2, SequenceOf
  <2> QED BY <1>1, <1>5, <2>3 DEF StateTyped, Wide
<1>7. OthersTyped'
  <2>1. Idle \in Calls /\ 0 \in 0 .. MaxCommits
    BY IdleCall, WatchersBoundsAssumption
  <2> QED BY <1>1, <2>1, WatchersBoundsAssumption DEF OthersTyped, Calls
<1>8. Quiet'
  <2>1. crashes' > 0
    BY <1>1 DEF OthersTyped
  <2> QED BY <1>1, <2>1 DEF IInv, Quiet, OpenAtWork, Awaiting, State
<1>9. call'.pc = "idle" /\ ship'.pc = "idle"
  BY <1>1, IdleCall
<1>10. \A g \in DOMAIN watch' : watch'[g].commit \in Commit
  <2>1. \A g \in DOMAIN watch' : watch'[g] \in Generation
    BY <1>5
  <2> QED BY <2>1 DEF Generation
<1>11. watch' # <<>> => watch # <<>>
  BY <1>2, <1>5
<1>12. AtHead' /\ Commits' /\ OneCall' /\ Called' /\ Vetting' /\ MergedIsVetted'
  BY <1>1, <1>9, <1>10, <1>11 DEF IInv, AtHead, Commits, OneCall, Called, Vetting, MergedIsVetted
<1> QED BY <1>6, <1>7, <1>8, <1>12, Typed DEF IInv

--------------------------------------------------------------------------------
(* The theorems.                                                               *)

LEMMA Invariance == Spec => []IInv
<1>1. IInv /\ [Next]_vars => IInv'
  <2> SUFFICES ASSUME IInv, [Next]_vars
               PROVE  IInv'
    OBVIOUS
  <2>1. CASE Work \/ OutsiderPushes \/ \E c \in Commit, k \in Check : CheckMoves(c, k)
    BY <2>1, WorldKeeps
  <2>2. CASE ReadyToShip
    BY <2>2, ReadyKeeps
  <2>3. CASE Shipping
    BY <2>3, ShipStepKeeps, ShipEndKeeps DEF Shipping
  <2>4. CASE linkRun
    BY <2>4, LinkKeeps
  <2>5. CASE \E g \in DOMAIN watch : Watching(g)
    BY <2>5, WatchingKeeps
  <2>6. CASE Approve \/ Approving
    BY <2>6, ApprovingKeeps, HeadReadKeeps, SnapshotKeeps, MergedKeeps DEF Approving
  <2>7. CASE EndedByOperator \/ OperatorResets
    BY <2>7, OperatorKeeps
  <2>8. CASE Crash
    BY <2>8, CrashKeeps
  <2>9. CASE UNCHANGED vars
    <3>1. OthersTyped' /\ StateTyped'
      BY <2>9, Typed DEF vars, IInv, OthersTyped, StateTyped
    <3>2. Quiet'
      BY <2>9 DEF vars, IInv, Quiet, OpenAtWork, Awaiting, State
    <3>3. AtHead' /\ Commits' /\ OneCall' /\ Called' /\ Vetting' /\ MergedIsVetted'
      BY <2>9 DEF vars, IInv, AtHead, Commits, OneCall, Called, Vetting, MergedIsVetted
    <3> QED BY <3>1, <3>2, <3>3, Typed DEF IInv
  <2> QED BY <2>1, <2>2, <2>3, <2>4, <2>5, <2>6, <2>7, <2>8, <2>9 DEF Next
<1> QED BY <1>1, Initially, PTL DEF Spec

\* Every reachable state is well-typed: onReadyToShip(), the watchers and approveRun(),
\* interleaved at their awaits, never ask about a commit that nobody made.
THEOREM TypeCorrect == Spec => []TypeOK
<1>1. IInv => TypeOK
  BY DEF IInv
<1> QED BY <1>1, Invariance, PTL

\* A run that awaits its approval has no watchers at work, and none of their child rows
\* is open unless a crash left it: cancelWatchers() comes with every way into the approval.
THEOREM ApprovalIsQuiet == Spec => []ApprovalHasNoWatchers
<1>1. IInv => ApprovalHasNoWatchers
  <2> SUFFICES ASSUME IInv, run.pending
               PROVE  /\ active = 0
                      /\ \A g \in DOMAIN watch, t \in Types :
                           watch[g][t].row = "open" => crashes > 0
    BY DEF ApprovalHasNoWatchers
  <2>1. active = 0
    BY DEF IInv, Quiet, Awaiting, State
  <2>2. ASSUME NEW g \in DOMAIN watch, NEW t \in Types, watch[g][t].row = "open"
        PROVE  crashes > 0
    <3>1. g # 0
      BY DEF IInv, TypeOK
    <3> QED BY <2>1, <2>2, <3>1 DEF IInv, Quiet, OpenAtWork, State
  <2> QED BY <2>1, <2>2
<1> QED BY <1>1, Invariance, PTL

\* What guardStalePrHeadApproval() and the checks of the GitHub App let through was
\* reviewed, and green, at the very head that was merged.
THEOREM MergesAreVetted == Spec => []MergedIsVetted
<1>1. IInv => MergedIsVetted
  BY DEF IInv
<1> QED BY <1>1, Invariance, PTL
================================================================================
