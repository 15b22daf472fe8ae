--------------------------- MODULE TaskDag_proofs ---------------------------
(***************************************************************************)
(* For any tasks, imports, runs and edits: the types, and that a retry       *)
(* reopens its spec.  For imports without cycles: the evaluation ends, its    *)
(* result does not depend on the order of the tasks, and nobody is forgotten. *)
(*                                                                          *)
(* What holds along a loop is proved by its least exception: the naturals     *)
(* are well-founded.                                                         *)
(***************************************************************************)
EXTENDS TaskDag, FiniteSetTheorems, SequenceTheorems, WellFoundedInduction, TLAPS

LEMMA Least ==
  ASSUME NEW S \in SUBSET Nat, S # {}
  PROVE  \E m \in S : \A k \in S : ~(k < m)
<1>1. \E m \in S : \A k \in S : <<k, m>> \notin OpToRel(<, Nat)
  BY NatLessThanWellFounded, WFMin
<1> QED BY <1>1 DEF OpToRel

\* Rows of tasks.
RowType == [st : Statuses \cup {"absent"}, deps : SUBSET Task, blind : BOOLEAN,
            runs : Seq(Outcomes), skip : BOOLEAN]
Rows == [Task -> RowType]

--------------------------------------------------------------------------------
(* A visit.                                                                    *)

Fallen(rows, t) == \E d \in rows[t].deps : rows[d].st = "failed"
Over(rows, t) == \A d \in rows[t].deps : rows[d].st \in {"done", "failed"}
AllDone(rows, t) == \A d \in rows[t].deps : rows[d].st = "done"
Fixed(rows, t) == Visit(rows, t) = rows
Idles(row) == row.st \in {"pending", "blocked"}

\* The resolution of a task, dependency by dependency.
LEMMA Resolution ==
  ASSUME NEW rows, NEW t
  PROVE  /\ resolveTaskStatus(rows, t) =
              IF rows[t].st = "blocked" /\ rows[t].deps = {} THEN "blocked"
              ELSE IF rows[t].blind /\ rows[t].deps # {} THEN IF Over(rows, t) THEN "ready" ELSE "blocked"
              ELSE IF Fallen(rows, t) THEN "failed" ELSE IF AllDone(rows, t) THEN "ready" ELSE "blocked"
         /\ canResolveTaskStatus(rows, t) <=>
              \/ Idles(rows[t])
              \/ rows[t].st = "failed" /\ ~HasRuns(rows[t]) /\ rows[t].deps # {} /\ ~Fallen(rows, t)
<1> DEFINE before == {rows[d].st : d \in rows[t].deps}
<1>1. /\ before = {} <=> rows[t].deps = {}
      /\ before \subseteq {"done", "failed"} <=> Over(rows, t)
      /\ "failed" \in before <=> Fallen(rows, t)
      /\ before \subseteq {"done"} <=> AllDone(rows, t)
  BY DEF Over, Fallen, AllDone
<1>2. resolveTaskStatus(rows, t) =
        CASE rows[t].st = "blocked" /\ before = {} -> "blocked"
          [] rows[t].blind /\ before # {} -> IF before \subseteq {"done", "failed"} THEN "ready" ELSE "blocked"
          [] OTHER -> IF "failed" \in before THEN "failed"
                      ELSE IF before \subseteq {"done"} THEN "ready" ELSE "blocked"
  BY DEF resolveTaskStatus
<1> HIDE DEF before
<1>3. canResolveTaskStatus(rows, t) <=>
        \/ Idles(rows[t])
        \/ rows[t].st = "failed" /\ ~HasRuns(rows[t]) /\ rows[t].deps # {} /\ ~Fallen(rows, t)
  BY DEF canResolveTaskStatus, Idles, Fallen
<1>4. CASE rows[t].st = "blocked" /\ before = {}
  <2>1. ~(rows[t].blind /\ before # {})
    BY <1>4
  <2> QED BY <1>1, <1>2, <1>3, <1>4, <2>1
<1>5. CASE ~(rows[t].st = "blocked" /\ before = {})
  BY <1>1, <1>2, <1>3, <1>5
<1> QED BY <1>4, <1>5

\* It is about the row and those it depends on.
LEMMA Local ==
  ASSUME NEW rows, NEW rows2, NEW t, rows2[t] = rows[t], \A d \in rows[t].deps : rows2[d].st = rows[d].st
  PROVE  /\ canResolveTaskStatus(rows2, t) <=> canResolveTaskStatus(rows, t)
         /\ resolveTaskStatus(rows2, t) = resolveTaskStatus(rows, t)
<1>1. /\ Over(rows2, t) <=> Over(rows, t)
      /\ Fallen(rows2, t) <=> Fallen(rows, t)
      /\ AllDone(rows2, t) <=> AllDone(rows, t)
  BY DEF Over, Fallen, AllDone
<1> QED BY <1>1, Resolution

\* What a visit writes, and what it does not.
LEMMA Visited ==
  ASSUME NEW rows \in Rows, NEW t \in Task
  PROVE  /\ Visit(rows, t) \in Rows
         /\ \A u \in Task \ {t} : Visit(rows, t)[u] = rows[u]
         /\ Visit(rows, t)[t].st = IF canResolveTaskStatus(rows, t) THEN resolveTaskStatus(rows, t) ELSE rows[t].st
         /\ Visit(rows, t)[t].deps = rows[t].deps /\ Visit(rows, t)[t].blind = rows[t].blind
         /\ Visit(rows, t)[t].runs = rows[t].runs /\ Visit(rows, t)[t].skip = rows[t].skip
         /\ resolveTaskStatus(rows, t) \in {"ready", "blocked", "failed"}
<1>1. resolveTaskStatus(rows, t) \in {"ready", "blocked", "failed"}
  BY Resolution
<1>2. rows[t] \in RowType
  BY DEF Rows
<1>3. ASSUME NEW s \in {"ready", "blocked", "failed"}
      PROVE  [rows[t] EXCEPT !.st = s] \in RowType /\ [rows[t] EXCEPT !.st = s].st = s
             /\ [rows[t] EXCEPT !.st = s].deps = rows[t].deps /\ [rows[t] EXCEPT !.st = s].blind = rows[t].blind
             /\ [rows[t] EXCEPT !.st = s].runs = rows[t].runs /\ [rows[t] EXCEPT !.st = s].skip = rows[t].skip
  BY <1>2 DEF RowType, Statuses
<1>4. CASE canResolveTaskStatus(rows, t)
  <2> DEFINE row == [rows[t] EXCEPT !.st = resolveTaskStatus(rows, t)]
  <2>1. Visit(rows, t) = [rows EXCEPT ![t] = row]
    BY <1>4 DEF Visit
  <2>2. /\ row \in RowType /\ row.st = resolveTaskStatus(rows, t) /\ row.deps = rows[t].deps
        /\ row.blind = rows[t].blind /\ row.runs = rows[t].runs /\ row.skip = rows[t].skip
    BY <1>1, <1>3
  <2> HIDE DEF row
  <2> QED BY <1>1, <1>4, <2>1, <2>2 DEF Rows
<1>5. CASE ~canResolveTaskStatus(rows, t)
  BY <1>1, <1>5 DEF Visit
<1> QED BY <1>4, <1>5

LEMMA FixedIs ==
  ASSUME NEW rows \in Rows, NEW t \in Task
  PROVE  Fixed(rows, t) <=> (canResolveTaskStatus(rows, t) => resolveTaskStatus(rows, t) = rows[t].st)
<1>1. CASE canResolveTaskStatus(rows, t) /\ resolveTaskStatus(rows, t) = rows[t].st
  <2>1. [rows[t] EXCEPT !.st = rows[t].st] = rows[t]
    BY DEF Rows, RowType
  <2>2. Visit(rows, t) = [rows EXCEPT ![t] = [rows[t] EXCEPT !.st = rows[t].st]]
    BY <1>1 DEF Visit
  <2> QED BY <1>1, <2>1, <2>2 DEF Fixed, Rows
<1>2. CASE canResolveTaskStatus(rows, t) /\ resolveTaskStatus(rows, t) # rows[t].st
  BY <1>2, Visited DEF Fixed
<1>3. CASE ~canResolveTaskStatus(rows, t)
  BY <1>3 DEF Fixed, Visit
<1> QED BY <1>1, <1>2, <1>3

\* A second visit finds nothing to change, unless a task waits for itself.
LEMMA VisitAgain ==
  ASSUME NEW rows \in Rows, NEW t \in Task, t \notin rows[t].deps
  PROVE  Fixed(Visit(rows, t), t)
<1> DEFINE R == Visit(rows, t)
<1>1. CASE canResolveTaskStatus(rows, t)
  <2>1. /\ R \in Rows /\ R[t].st = resolveTaskStatus(rows, t)
        /\ R[t].deps = rows[t].deps /\ R[t].blind = rows[t].blind
        /\ \A d \in rows[t].deps : R[d] = rows[d]
    <3>1. rows[t].deps \subseteq Task \ {t}
      BY DEF Rows, RowType
    <3> QED BY <1>1, <3>1, Visited
  <2> HIDE DEF R
  <2>2. (Over(R, t) <=> Over(rows, t)) /\ (Fallen(R, t) <=> Fallen(rows, t)) /\ (AllDone(R, t) <=> AllDone(rows, t))
    BY <2>1 DEF Over, Fallen, AllDone
  <2>3. canResolveTaskStatus(R, t) => resolveTaskStatus(R, t) = R[t].st
    BY <2>1, <2>2, Resolution DEF Idles
  <2>4. Fixed(R, t)
    BY <2>1, <2>3, FixedIs
  <2> QED BY <2>4 DEF R
<1>2. CASE ~canResolveTaskStatus(rows, t)
  BY <1>2 DEF Fixed, Visit
<1> QED BY <1>1, <1>2

--------------------------------------------------------------------------------
(* A sweep.                                                                    *)

SweepOf(f, rows, list) == f = [i \in 0 .. Len(list) |-> IF i = 0 THEN rows ELSE Visit(f[i - 1], list[i])]

LEMMA SweepDefined ==
  ASSUME NEW rows, NEW list \in Seq(Task)
  PROVE  \E f : SweepOf(f, rows, list) /\ Sweep(rows, list) = f[Len(list)]
<1> DEFINE Part(f, n) == f = [i \in 0 .. n |-> IF i = 0 THEN rows ELSE Visit(f[i - 1], list[i])]
           S == {n \in Nat : ~\E f : Part(f, n)}
<1>1. S = {}
  <2> SUFFICES ASSUME S # {} PROVE FALSE
    OBVIOUS
  <2>1. PICK n \in S : \A k \in S : ~(k < n)
    <3>1. S \in SUBSET Nat
      OBVIOUS
    <3> HIDE DEF S
    <3> QED BY <3>1, Least
  <2>2. CASE n = 0
    <3>1. Part([i \in 0 .. 0 |-> rows], 0)
      OBVIOUS
    <3> QED BY <2>2, <3>1
  <2>3. CASE n # 0
    <3>1. n - 1 \in Nat /\ n - 1 < n
      BY <2>3
    <3>2. PICK f : Part(f, n - 1)
      BY <2>1, <3>1
    <3> DEFINE g == [i \in 0 .. n |-> IF i = n THEN Visit(f[n - 1], list[n]) ELSE f[i]]
    <3>3. Part(g, n)
      <4>1. \A i \in 0 .. n : g[i] = IF i = 0 THEN rows ELSE Visit(g[i - 1], list[i])
        BY <3>1, <3>2
      <4> QED BY <4>1
    <3> QED BY <3>3
  <2> QED BY <2>2, <2>3
<1>2. \E f : Part(f, Len(list))
  <2>1. Len(list) \in Nat
    OBVIOUS
  <2> QED BY <1>1, <2>1
<1> QED BY <1>2 DEF Sweep, SweepOf

\* Along a sweep, G holds the number of tasks visited with the rows as they are then.
LEMMA SweepAlong ==
  ASSUME NEW rows, NEW list \in Seq(Task), NEW G, <<0, rows>> \in G,
         \A i \in 1 .. Len(list) : \A r : <<i - 1, r>> \in G => <<i, Visit(r, list[i])>> \in G
  PROVE  <<Len(list), Sweep(rows, list)>> \in G
<1>1. PICK f : SweepOf(f, rows, list) /\ Sweep(rows, list) = f[Len(list)]
  BY SweepDefined
<1> DEFINE S == {i \in 0 .. Len(list) : <<i, f[i]>> \notin G}
<1>2. Len(list) \in Nat
  OBVIOUS
<1>3. S = {}
  <2> SUFFICES ASSUME S # {} PROVE FALSE
    OBVIOUS
  <2>1. PICK n \in S : \A k \in S : ~(k < n)
    <3>1. S \in SUBSET Nat
      BY <1>2
    <3> HIDE DEF S
    <3> QED BY <3>1, Least
  <2>2. n # 0
    BY <1>1, <1>2 DEF SweepOf
  <2>3. n - 1 \in 0 .. Len(list) /\ n - 1 < n /\ n \in 1 .. Len(list)
    BY <1>2, <2>2
  <2>4. <<n - 1, f[n - 1]>> \in G
    BY <2>1, <2>3
  <2>5. f[n] = Visit(f[n - 1], list[n])
    BY <1>1, <1>2, <2>2, <2>3 DEF SweepOf
  <2> QED BY <2>3, <2>4, <2>5
<1> QED BY <1>1, <1>2, <1>3

\* What a visit of a listed task keeps, a sweep keeps.
LEMMA SweepKeeps ==
  ASSUME NEW rows, NEW list \in Seq(Task), NEW Good, rows \in Good,
         \A r \in Good : \A t \in Listed(list) : Visit(r, t) \in Good
  PROVE  Sweep(rows, list) \in Good
<1> DEFINE G == Nat \X Good
<1>1. Len(list) \in Nat /\ \A i \in 1 .. Len(list) : list[i] \in Listed(list)
  BY DEF Listed
<1>2. \A i \in 1 .. Len(list) : \A r : <<i - 1, r>> \in G => <<i, Visit(r, list[i])>> \in G
  BY <1>1
<1>3. <<0, rows>> \in G
  OBVIOUS
<1> HIDE DEF G
<1>4. <<Len(list), Sweep(rows, list)>> \in G
  BY <1>2, <1>3, SweepAlong
<1> QED BY <1>4 DEF G

--------------------------------------------------------------------------------
(* The loop.                                                                   *)

LoopOf(f, rows, list) == f = [n \in 0 .. MaxSweeps |-> IF n = 0 THEN rows ELSE Sweep(f[n - 1], list)]

LEMMA LoopDefined ==
  ASSUME NEW rows, NEW list
  PROVE  \E f : LoopOf(f, rows, list) /\ Settle(rows, list) = f[MaxSweeps]
<1> DEFINE Part(f, m) == f = [n \in 0 .. m |-> IF n = 0 THEN rows ELSE Sweep(f[n - 1], list)]
           S == {m \in Nat : ~\E f : Part(f, m)}
<1>1. S = {}
  <2> SUFFICES ASSUME S # {} PROVE FALSE
    OBVIOUS
  <2>1. PICK m \in S : \A k \in S : ~(k < m)
    <3>1. S \in SUBSET Nat
      OBVIOUS
    <3> HIDE DEF S
    <3> QED BY <3>1, Least
  <2>2. CASE m = 0
    <3>1. Part([n \in 0 .. 0 |-> rows], 0)
      OBVIOUS
    <3> QED BY <2>2, <3>1
  <2>3. CASE m # 0
    <3>1. m - 1 \in Nat /\ m - 1 < m
      BY <2>3
    <3>2. PICK f : Part(f, m - 1)
      BY <2>1, <3>1
    <3> DEFINE g == [n \in 0 .. m |-> IF n = m THEN Sweep(f[m - 1], list) ELSE f[n]]
    <3>3. Part(g, m)
      <4>1. \A n \in 0 .. m : g[n] = IF n = 0 THEN rows ELSE Sweep(g[n - 1], list)
        BY <3>1, <3>2
      <4> QED BY <4>1
    <3> QED BY <3>3
  <2> QED BY <2>2, <2>3
<1>2. \E f : Part(f, MaxSweeps)
  BY <1>1, BoundsAssumption
<1> QED BY <1>2 DEF Settle, LoopOf

\* Along the loop, G holds the number of sweeps made with the rows as they are then.
LEMMA LoopAlong ==
  ASSUME NEW rows, NEW list, NEW G, <<0, rows>> \in G,
         \A n \in 1 .. MaxSweeps : \A r : <<n - 1, r>> \in G => <<n, Sweep(r, list)>> \in G
  PROVE  <<MaxSweeps, Settle(rows, list)>> \in G
<1>1. PICK f : LoopOf(f, rows, list) /\ Settle(rows, list) = f[MaxSweeps]
  BY LoopDefined
<1> DEFINE S == {n \in 0 .. MaxSweeps : <<n, f[n]>> \notin G}
<1>2. MaxSweeps \in Nat
  BY BoundsAssumption
<1>3. S = {}
  <2> SUFFICES ASSUME S # {} PROVE FALSE
    OBVIOUS
  <2>1. PICK n \in S : \A k \in S : ~(k < n)
    <3>1. S \in SUBSET Nat
      BY <1>2
    <3> HIDE DEF S
    <3> QED BY <3>1, Least
  <2>2. n # 0
    BY <1>1, <1>2 DEF LoopOf
  <2>3. n - 1 \in 0 .. MaxSweeps /\ n - 1 < n /\ n \in 1 .. MaxSweeps
    BY <1>2, <2>2
  <2>4. <<n - 1, f[n - 1]>> \in G
    BY <2>1, <2>3
  <2>5. f[n] = Sweep(f[n - 1], list)
    BY <1>1, <1>2, <2>2, <2>3 DEF LoopOf
  <2> QED BY <2>3, <2>4, <2>5
<1> QED BY <1>1, <1>2, <1>3

\* What a visit of a listed task keeps, the loop keeps.
LEMMA LoopKeeps ==
  ASSUME NEW rows, NEW list \in Seq(Task), NEW Good, rows \in Good,
         \A r \in Good : \A t \in Listed(list) : Visit(r, t) \in Good
  PROVE  Settle(rows, list) \in Good /\ Sweep(Settle(rows, list), list) \in Good
<1> DEFINE G == Nat \X Good
<1>1. \A r \in Good : Sweep(r, list) \in Good
  BY SweepKeeps
<1>2. \A n \in 1 .. MaxSweeps : \A r : <<n - 1, r>> \in G => <<n, Sweep(r, list)>> \in G
  BY <1>1
<1>3. <<0, rows>> \in G
  OBVIOUS
<1> HIDE DEF G
<1>4. <<MaxSweeps, Settle(rows, list)>> \in G
  BY <1>2, <1>3, LoopAlong
<1> QED BY <1>1, <1>4 DEF G

\* What the evaluation leaves of the rows: it writes statuses of listed tasks only.
Evolved(rows, list) ==
  {r \in Rows : \A t \in Task :
     /\ r[t].deps = rows[t].deps /\ r[t].blind = rows[t].blind
     /\ r[t].runs = rows[t].runs /\ r[t].skip = rows[t].skip
     /\ t \notin Listed(list) => r[t] = rows[t]
     /\ r[t].st \in {rows[t].st, "ready", "blocked", "failed"}
     /\ rows[t].st \in {"done", "active", "ready"} => r[t].st = rows[t].st}

LEMMA ListedTasks == ASSUME NEW list \in Seq(Task) PROVE Listed(list) \subseteq Task
BY DEF Listed

LEMMA Evolves ==
  ASSUME NEW rows \in Rows, NEW list \in Seq(Task)
  PROVE  /\ rows \in Evolved(rows, list)
         /\ \A r \in Evolved(rows, list), t \in Listed(list) : Visit(r, t) \in Evolved(rows, list)
         /\ Settle(rows, list) \in Evolved(rows, list)
<1>1. rows \in Evolved(rows, list)
  BY DEF Evolved
<1>2. ASSUME NEW r \in Evolved(rows, list), NEW t \in Listed(list)
      PROVE  Visit(r, t) \in Evolved(rows, list)
  <2>1. t \in Task /\ r \in Rows
    BY ListedTasks DEF Evolved
  <2> DEFINE R == Visit(r, t)
  <2>2. /\ R \in Rows /\ \A u \in Task \ {t} : R[u] = r[u]
        /\ R[t].deps = r[t].deps /\ R[t].blind = r[t].blind /\ R[t].runs = r[t].runs /\ R[t].skip = r[t].skip
        /\ R[t].st \in {r[t].st, "ready", "blocked", "failed"}
        /\ R[t].st # r[t].st => Idles(r[t]) \/ r[t].st = "failed"
    BY <2>1, Visited, Resolution
  <2> HIDE DEF R
  <2>3. R \in Evolved(rows, list)
    <3>1. ASSUME NEW u \in Task
          PROVE  /\ R[u].deps = rows[u].deps /\ R[u].blind = rows[u].blind
                 /\ R[u].runs = rows[u].runs /\ R[u].skip = rows[u].skip
                 /\ u \notin Listed(list) => R[u] = rows[u]
                 /\ R[u].st \in {rows[u].st, "ready", "blocked", "failed"}
                 /\ rows[u].st \in {"done", "active", "ready"} => R[u].st = rows[u].st
      <4>1. CASE u # t
        BY <2>2, <4>1 DEF Evolved
      <4>2. CASE u = t
        BY <2>2, <4>2 DEF Evolved, Idles
      <4> QED BY <4>1, <4>2
    <3> QED BY <2>2, <3>1 DEF Evolved
  <2> QED BY <2>3 DEF R
<1>3. Settle(rows, list) \in Evolved(rows, list)
  BY <1>1, <1>2, LoopKeeps
<1> QED BY <1>1, <1>2, <1>3

--------------------------------------------------------------------------------
(* The loop ends.                                                              *)

\* Tasks that nothing changes any more, with all they depend on.
Steady(rows, S) == \A t \in S : rows[t].deps \subseteq S /\ Fixed(rows, t)

\* A visit to another task leaves a task that does not depend on it as it is.
LEMMA VisitElsewhere ==
  ASSUME NEW rows \in Rows, NEW u \in Task, NEW t \in Task, u # t, u \notin rows[t].deps, Fixed(rows, t)
  PROVE  Fixed(Visit(rows, u), t) /\ Visit(rows, u)[t] = rows[t]
<1> DEFINE R == Visit(rows, u)
<1>1. R \in Rows /\ R[t] = rows[t] /\ \A d \in rows[t].deps : R[d] = rows[d]
  <2>1. rows[t].deps \subseteq Task
    BY DEF Rows, RowType
  <2> QED BY <2>1, Visited
<1> HIDE DEF R
<1>2. /\ canResolveTaskStatus(R, t) <=> canResolveTaskStatus(rows, t)
      /\ resolveTaskStatus(R, t) = resolveTaskStatus(rows, t)
  BY <1>1, Local
<1>3. Fixed(R, t)
  BY <1>1, <1>2, FixedIs
<1> QED BY <1>1, <1>3 DEF R

LEMMA VisitSteady ==
  ASSUME NEW rows \in Rows, NEW S \in SUBSET Task, Steady(rows, S), NEW u \in Task
  PROVE  Steady(Visit(rows, u), S)
<1>1. CASE u \in S
  BY <1>1 DEF Steady, Fixed
<1>2. CASE u \notin S
  <2>1. ASSUME NEW t \in S
        PROVE  Fixed(Visit(rows, u), t) /\ Visit(rows, u)[t] = rows[t]
    <3>1. t \in Task /\ u # t /\ u \notin rows[t].deps /\ Fixed(rows, t)
      BY <1>2 DEF Steady
    <3> QED BY <3>1, VisitElsewhere
  <2> QED BY <2>1 DEF Steady
<1> QED BY <1>1, <1>2

\* A sweep settles a task that depends on settled ones.
LEMMA SweepSettles ==
  ASSUME NEW rows \in Rows, NEW list \in Seq(Task), NEW S \in SUBSET Task, Steady(rows, S),
         NEW t \in Listed(list), t \notin S, rows[t].deps \subseteq S
  PROVE  Steady(Sweep(rows, list), S \cup {t})
<1> DEFINE Good == {r \in Evolved(rows, list) : Steady(r, S)}
           G == {p \in Nat \X Good : (\E j \in 1 .. p[1] : list[j] = t) => Fixed(p[2], t)}
<1>1. Len(list) \in Nat /\ t \in Task /\ \A i \in 1 .. Len(list) : list[i] \in Listed(list) /\ list[i] \in Task
  BY ListedTasks DEF Listed
<1>2. <<0, rows>> \in G
  BY Evolves
<1>3. ASSUME NEW i \in 1 .. Len(list), NEW r, <<i - 1, r>> \in G
      PROVE  <<i, Visit(r, list[i])>> \in G
  <2> DEFINE u == list[i]
             R == Visit(r, u)
  <2>1. r \in Good /\ ((\E j \in 1 .. i - 1 : list[j] = t) => Fixed(r, t))
    BY <1>3
  <2>2. r \in Rows /\ r[t].deps = rows[t].deps
    BY <1>1, <2>1 DEF Evolved
  <2>3. R \in Good
    BY <1>1, <2>1, <2>2, Evolves, VisitSteady
  <2>4. ASSUME NEW j \in 1 .. i, list[j] = t
        PROVE  Fixed(R, t)
    <3>1. CASE u = t
      BY <1>1, <2>2, <3>1, VisitAgain
    <3>2. CASE u # t
      <4>1. j \in 1 .. i - 1
        BY <1>1, <2>4, <3>2
      <4>2. Fixed(r, t)
        BY <2>1, <2>4, <4>1
      <4>3. CASE u \in S
        BY <2>1, <4>2, <4>3 DEF Steady, Fixed
      <4>4. CASE u \notin S
        BY <1>1, <2>2, <3>2, <4>2, <4>4, VisitElsewhere
      <4> QED BY <4>3, <4>4
    <3> QED BY <3>1, <3>2
  <2>5. i \in Nat
    BY <1>1
  <2> HIDE DEF R, u, Good
  <2>6. <<i, R>> \in G
    BY <2>3, <2>4, <2>5
  <2> QED BY <2>6 DEF R, u
<1> HIDE DEF G
<1>4. <<Len(list), Sweep(rows, list)>> \in G
  BY <1>2, <1>3, SweepAlong
<1> DEFINE R == Sweep(rows, list)
<1> HIDE DEF R
<1>5. <<Len(list), R>> \in G
  BY <1>4 DEF R
<1>6. R \in Good /\ ((\E j \in 1 .. Len(list) : list[j] = t) => Fixed(R, t))
  BY <1>5 DEF G
<1>7. \E j \in 1 .. Len(list) : list[j] = t
  BY <1>1 DEF Listed
<1>8. R[t].deps = rows[t].deps
  BY <1>1, <1>6 DEF Evolved
<1>9. Steady(R, S \cup {t})
  BY <1>6, <1>7, <1>8 DEF Steady
<1> QED BY <1>9 DEF R

\* No task depends on itself, over however many others.
Acyclic(rows, K) == \A S \in SUBSET K : S # {} => \E t \in S : rows[t].deps \cap S = {}
Within(rows, K) == \A t \in K : rows[t].deps \subseteq K

LEMMA SmallSets ==
  ASSUME NEW S \in SUBSET Task
  PROVE  /\ IsFiniteSet(S) /\ Cardinality(S) \in Nat /\ Cardinality(S) <= Cardinality(Task)
         /\ \A t \in Task \ S : Cardinality(S \cup {t}) = Cardinality(S) + 1
         /\ Cardinality(S) = Cardinality(Task) => S = Task
BY TaskAssumption, FS_Subset, FS_CardinalityType, FS_AddElement

\* With as many sweeps as there are tasks, everything is settled.
LEMMA LoopSettles ==
  ASSUME NEW rows \in Rows, NEW list \in Seq(Task), Acyclic(rows, Listed(list)), Within(rows, Listed(list)),
         MaxSweeps >= Cardinality(Task)
  PROVE  Steady(Settle(rows, list), Listed(list))
<1> DEFINE K == Listed(list)
           Far(n, r) == \E S \in SUBSET K : Steady(r, S) /\ (S = K \/ Cardinality(S) >= n)
           G == {p \in Nat \X Evolved(rows, list) : Far(p[1], p[2])}
<1>1. K \subseteq Task /\ MaxSweeps \in Nat
  BY ListedTasks, BoundsAssumption
<1>2. <<0, rows>> \in G
  <2>1. Cardinality({}) = 0
    BY FS_EmptySet
  <2>2. Far(0, rows)
    BY <2>1 DEF Steady
  <2> QED BY <2>2, Evolves
<1>3. ASSUME NEW n \in 1 .. MaxSweeps, NEW r, <<n - 1, r>> \in G
      PROVE  <<n, Sweep(r, list)>> \in G
  <2> DEFINE R == Sweep(r, list)
  <2>1. r \in Evolved(rows, list) /\ Far(n - 1, r) /\ n \in Nat
    BY <1>1, <1>3
  <2>2. r \in Rows /\ \A t \in K : r[t].deps = rows[t].deps
    BY <1>1, <2>1 DEF Evolved
  <2>3. R \in Evolved(rows, list)
    BY <2>1, Evolves, SweepKeeps
  <2>4. PICK S \in SUBSET K : Steady(r, S) /\ (S = K \/ Cardinality(S) >= n - 1)
    BY <2>1
  <2>5. CASE S = K
    <3> DEFINE Good == {q \in Evolved(rows, list) : Steady(q, K)}
    <3>1. ASSUME NEW q \in Good, NEW t \in K
          PROVE  Visit(q, t) \in Good
      <4>1. q \in Rows /\ q \in Evolved(rows, list) /\ Steady(q, K) /\ t \in Task
        BY <1>1 DEF Evolved
      <4>2. Visit(q, t) \in Evolved(rows, list)
        BY <4>1, Evolves
      <4>3. Steady(Visit(q, t), K)
        BY <1>1, <4>1, VisitSteady
      <4> QED BY <4>2, <4>3
    <3>2. r \in Good
      BY <2>1, <2>4, <2>5
    <3> HIDE DEF Good
    <3>3. R \in Good
      BY <3>1, <3>2, SweepKeeps
    <3>4. Steady(R, K)
      BY <3>3 DEF Good
    <3> QED BY <2>1, <2>3, <3>4
  <2>6. CASE S # K
    <3>1. PICK t \in K \ S : rows[t].deps \cap (K \ S) = {}
      BY <2>4, <2>6 DEF Acyclic
    <3>2. rows[t].deps \subseteq S
      BY <3>1 DEF Within
    <3>3. Steady(R, S \cup {t})
      BY <1>1, <2>2, <2>4, <3>1, <3>2, SweepSettles
    <3>4. Cardinality(S \cup {t}) = Cardinality(S) + 1 /\ Cardinality(S) \in Nat
      BY <1>1, <3>1, SmallSets
    <3>5. Cardinality(S \cup {t}) >= n \/ S = K
      BY <2>1, <2>4, <3>4
    <3>6. Far(n, R)
      BY <2>6, <3>1, <3>3, <3>5
    <3> QED BY <2>1, <2>3, <3>6
  <2> QED BY <2>5, <2>6
<1> HIDE DEF G
<1>4. <<MaxSweeps, Settle(rows, list)>> \in G
  BY <1>2, <1>3, LoopAlong
<1> DEFINE R == Settle(rows, list)
<1> HIDE DEF R
<1>5. Far(MaxSweeps, R)
  BY <1>4 DEF G, R
<1>6. PICK S \in SUBSET K : Steady(R, S) /\ (S = K \/ Cardinality(S) >= MaxSweeps)
  BY <1>5
<1>7. S = K
  <2>1. Cardinality(S) >= MaxSweeps => S = Task
    <3>1. Cardinality(Task) \in Nat /\ Cardinality(S) \in Nat /\ Cardinality(S) <= Cardinality(Task)
      BY <1>1, SmallSets
    <3> QED BY <1>1, <3>1, SmallSets
  <2> QED BY <1>1, <1>6, <2>1
<1> QED BY <1>6, <1>7 DEF R

\* A sweep over what is settled changes nothing.
LEMMA SteadyReturns ==
  ASSUME NEW rows \in Rows, NEW list \in Seq(Task), Steady(rows, Listed(list))
  PROVE  Sweep(rows, list) = rows
<1> DEFINE Good == {rows}
<1>1. \A r \in Good, t \in Listed(list) : Visit(r, t) \in Good
  BY DEF Steady, Fixed
<1>2. Sweep(rows, list) \in Good
  BY <1>1, SweepKeeps
<1> QED BY <1>2

--------------------------------------------------------------------------------
(* What every action leaves to the evaluation, or leaves as it is.             *)

SpecStatuses == {"draft", "approved", "implementing", "done", "failed"}

\* A row for every task of the spec, dependencies among them.
Entered(rows, K) ==
  \A t \in Task : /\ (rows[t].st = "absent") <=> (t \notin K)
                  /\ rows[t].deps \subseteq K
                  /\ Len(rows[t].runs) <= MaxRuns

Inv == /\ order \in Seq(Task) /\ IsInjective(order)
       /\ task \in Rows /\ Entered(task, Known)
       /\ spec \in SpecStatuses /\ returned \in BOOLEAN /\ edits \in 0 .. MaxEdits

\* A retry waits for a dispatch; a task is left behind.
Queued(row) == row.st = "ready" /\ HasRuns(row)
Forgotten(rows, t) == Idles(rows[t]) /\ rows[t].deps # {} /\ AllDone(rows, t) /\ ~rows[t].skip

\* Rows that a handler leaves to the evaluation.
Leaves(rows, list) ==
  /\ list \in Seq(Task) /\ IsInjective(list)
  /\ rows \in Rows /\ Entered(rows, Listed(list))
  /\ Acyclic(task, Known) => Acyclic(rows, Listed(list))

Evaluates == \E rows, list : Leaves(rows, list) /\ order' = list /\ evaluateTaskDAG(rows, list)

\* A step without an evaluation queues no retry, and forgets nobody.
Quiets ==
  \E rows : /\ Leaves(rows, order) /\ task' = rows /\ UNCHANGED order /\ UNCHANGED returned
            /\ spec' \in {spec, "approved"}
            /\ \A t \in Task : Queued(rows[t]) => Queued(task[t])
            /\ Acyclic(task, Known) => \A t \in Task : Forgotten(rows, t) => Forgotten(task, t)

LEMMA RowFields ==
  ASSUME NEW row \in RowType
  PROVE  /\ row.st \in Statuses \cup {"absent"} /\ row.deps \in SUBSET Task /\ row.blind \in BOOLEAN
         /\ row.runs \in Seq(Outcomes) /\ row.skip \in BOOLEAN
BY DEF RowType

\* A handler writes the status, the runs and the skip of one row, and no dependency of it.
LEMMA RowWritten ==
  ASSUME Inv, NEW t \in Known, NEW row \in RowType, row.st # "absent", row.deps \subseteq task[t].deps,
         Len(row.runs) <= MaxRuns
  PROVE  /\ Leaves([task EXCEPT ![t] = row], order)
         /\ t \in Task /\ task[t] \in RowType
<1> DEFINE rows == [task EXCEPT ![t] = row]
<1>1. t \in Task /\ task[t] \in RowType
  BY ListedTasks DEF Inv, Rows, Known
<1>2. rows \in Rows /\ rows[t] = row /\ \A u \in Task \ {t} : rows[u] = task[u]
  BY <1>1 DEF Inv, Rows
<1>3. \A u \in Task : rows[u].deps \subseteq task[u].deps
  BY <1>2
<1> HIDE DEF rows
<1>4. Entered(rows, Known)
  <2>1. ASSUME NEW u \in Task
        PROVE  /\ (rows[u].st = "absent") <=> (u \notin Known)
               /\ rows[u].deps \subseteq Known /\ Len(rows[u].runs) <= MaxRuns
    <3>1. CASE u = t
      BY <1>1, <1>2, <3>1 DEF Inv, Entered
    <3>2. CASE u # t
      BY <1>2, <3>2 DEF Inv, Entered
    <3> QED BY <3>1, <3>2
  <2> QED BY <2>1 DEF Entered
<1>5. Acyclic(task, Known) => Acyclic(rows, Known)
  <2> SUFFICES ASSUME Acyclic(task, Known), NEW S \in SUBSET Known, S # {}
               PROVE  \E u \in S : rows[u].deps \cap S = {}
    BY DEF Acyclic
  <2>1. PICK u \in S : task[u].deps \cap S = {}
    BY DEF Acyclic
  <2>2. u \in Task
    BY ListedTasks DEF Inv, Known
  <2> QED BY <1>3, <2>1, <2>2
<1>6. Leaves(rows, order)
  BY <1>2, <1>4, <1>5 DEF Leaves, Inv, Known
<1> QED BY <1>1, <1>6 DEF rows

\* The last run of a task, when it has one.
LEMMA RunEnds ==
  ASSUME Inv, NEW t \in Task, HasRuns(task[t]), NEW o \in Outcomes
  PROVE  LET runs == SubSeq(task[t].runs, 1, Len(task[t].runs) - 1) \o <<o>>
         IN  /\ runs \in Seq(Outcomes) /\ runs # <<>> /\ Len(runs) <= MaxRuns
             /\ Ends(t, o)[t] = [task[t] EXCEPT !.runs = runs]
             /\ Ends(t, o) = [task EXCEPT ![t] = [task[t] EXCEPT !.runs = runs]]
<1> DEFINE q == task[t].runs
           runs == SubSeq(q, 1, Len(q) - 1) \o <<o>>
<1>1. q \in Seq(Outcomes) /\ q # <<>> /\ Len(q) <= MaxRuns /\ MaxRuns \in Nat
  BY BoundsAssumption DEF Inv, Entered, Rows, RowType, HasRuns
<1>2. Ends(t, o) = [task EXCEPT ![t] = [task[t] EXCEPT !.runs = runs]]
  BY DEF Ends
<1>3. Ends(t, o)[t] = [task[t] EXCEPT !.runs = runs]
  BY <1>2 DEF Inv, Rows
<1> HIDE DEF q
<1>4. Len(q) \in Nat \ {0} /\ SubSeq(q, 1, Len(q) - 1) \in Seq(Outcomes)
      /\ Len(SubSeq(q, 1, Len(q) - 1)) = Len(q) - 1
  <2>1. Len(q) \in Nat \ {0}
    BY <1>1
  <2>2. \A i \in 1 .. Len(q) - 1 : q[i] \in Outcomes
    BY <1>1, <2>1
  <2> DEFINE m == Len(q) - 1
  <2>3. m \in Int /\ m >= 0
    BY <2>1
  <2> HIDE DEF m
  <2>4. /\ SubSeq(q, 1, m) \in Seq(Outcomes)
        /\ Len(SubSeq(q, 1, m)) = IF 1 <= m THEN m - 1 + 1 ELSE 0
    <3>1. \A i \in 1 .. m : q[i] \in Outcomes
      BY <2>2 DEF m
    <3> QED BY <2>3, <3>1, SubSeqProperties
  <2>5. Len(SubSeq(q, 1, m)) = m
    BY <2>3, <2>4
  <2> QED BY <2>1, <2>4, <2>5 DEF m
<1>5. runs \in Seq(Outcomes) /\ Len(runs) = Len(q)
  BY <1>4
<1>6. runs # <<>> /\ Len(runs) <= MaxRuns
  BY <1>1, <1>4, <1>5
<1> QED BY <1>2, <1>3, <1>5, <1>6 DEF q

LEMMA LiveIsARun ==
  ASSUME NEW row, HasLive(row)
  PROVE  HasRuns(row)
BY DEF HasLive, HasRuns, ToSet

--------------------------------------------------------------------------------
(* The check for cycles finds them all, and nothing else.                      *)

OffOf(f, m, rows, list) ==
  f = [n \in 0 .. m |-> IF n = 0 THEN {} ELSE {t \in Listed(list) : rows[t].deps \subseteq f[n - 1]}]

LEMMA OffDefined ==
  ASSUME NEW rows, NEW list
  PROVE  \E f : /\ OffOf(f, Cardinality(Task), rows, list)
                /\ validateDAG(rows, list) <=> f[Cardinality(Task)] = Listed(list)
<1> DEFINE S == {m \in Nat : ~\E f : OffOf(f, m, rows, list)}
<1>1. S = {}
  <2> SUFFICES ASSUME S # {} PROVE FALSE
    OBVIOUS
  <2>1. PICK m \in S : \A k \in S : ~(k < m)
    <3>1. S \in SUBSET Nat
      OBVIOUS
    <3> HIDE DEF S
    <3> QED BY <3>1, Least
  <2>2. CASE m = 0
    <3>1. OffOf([n \in 0 .. 0 |-> {}], 0, rows, list)
      BY DEF OffOf
    <3> QED BY <2>2, <3>1
  <2>3. CASE m # 0
    <3>1. m - 1 \in Nat /\ m - 1 < m
      BY <2>3
    <3>2. PICK f : OffOf(f, m - 1, rows, list)
      BY <2>1, <3>1
    <3> DEFINE next == {t \in Listed(list) : rows[t].deps \subseteq f[m - 1]}
               g == [n \in 0 .. m |-> IF n = m THEN next ELSE f[n]]
    <3>3. OffOf(g, m, rows, list)
      <4>1. \A n \in 0 .. m : g[n] = IF n = 0 THEN {} ELSE {t \in Listed(list) : rows[t].deps \subseteq g[n - 1]}
        <5>1. g[m] = next /\ g[m - 1] = f[m - 1]
          BY <2>3, <3>1
        <5>2. \A n \in 0 .. m - 1 : f[n] = IF n = 0 THEN {} ELSE {t \in Listed(list) : rows[t].deps \subseteq f[n - 1]}
          BY <3>2 DEF OffOf
        <5>3. ASSUME NEW n \in 0 .. m - 1
              PROVE  g[n] = IF n = 0 THEN {} ELSE {t \in Listed(list) : rows[t].deps \subseteq g[n - 1]}
          <6>1. g[n] = f[n] /\ (n # 0 => g[n - 1] = f[n - 1])
            BY <3>1
          <6> QED BY <5>2, <6>1
        <5>4. g[m] = IF m = 0 THEN {} ELSE {t \in Listed(list) : rows[t].deps \subseteq g[m - 1]}
          BY <2>3, <5>1
        <5>5. 0 .. m = (0 .. m - 1) \cup {m}
          BY <2>3, <3>1
        <5> HIDE DEF g
        <5> QED BY <5>3, <5>4, <5>5
      <4> QED BY <4>1 DEF OffOf
    <3> QED BY <3>3
  <2> QED BY <2>2, <2>3
<1>2. Cardinality(Task) \in Nat
  BY TaskAssumption, FS_CardinalityType
<1>3. \E f : OffOf(f, Cardinality(Task), rows, list)
  BY <1>1, <1>2
<1> QED BY <1>3 DEF validateDAG, OffOf

LEMMA ValidIsAcyclic ==
  ASSUME NEW rows, NEW list, validateDAG(rows, list)
  PROVE  Acyclic(rows, Listed(list))
<1>1. PICK f : OffOf(f, Cardinality(Task), rows, list) /\ f[Cardinality(Task)] = Listed(list)
  BY OffDefined
<1>2. Cardinality(Task) \in Nat
  BY TaskAssumption, FS_CardinalityType
<1> SUFFICES ASSUME NEW S \in SUBSET Listed(list), S # {}, \A t \in S : rows[t].deps \cap S # {}
             PROVE  FALSE
  BY DEF Acyclic
<1> DEFINE N == {n \in 0 .. Cardinality(Task) : f[n] \cap S # {}}
<1>3. Cardinality(Task) \in N
  BY <1>1, <1>2
<1>4. PICK n \in N : \A k \in N : ~(k < n)
  <2>1. N \in SUBSET Nat /\ N # {}
    BY <1>2, <1>3
  <2> HIDE DEF N
  <2> QED BY <2>1, Least
<1>5. n # 0
  BY <1>1, <1>2 DEF OffOf
<1>6. n - 1 \in 0 .. Cardinality(Task) /\ n - 1 < n
  BY <1>2, <1>5
<1>7. f[n] = {t \in Listed(list) : rows[t].deps \subseteq f[n - 1]}
  BY <1>1, <1>5, <1>6 DEF OffOf
<1>8. PICK t \in S : t \in f[n]
  BY <1>4
<1>9. f[n - 1] \cap S # {}
  BY <1>7, <1>8
<1> QED BY <1>4, <1>6, <1>9

LEMMA AcyclicIsValid ==
  ASSUME NEW rows, NEW list \in Seq(Task), Acyclic(rows, Listed(list)), Within(rows, Listed(list))
  PROVE  validateDAG(rows, list)
<1> DEFINE K == Listed(list)
           m == Cardinality(Task)
<1>1. PICK f : OffOf(f, m, rows, list) /\ (validateDAG(rows, list) <=> f[m] = K)
  BY OffDefined
<1>2. m \in Nat /\ K \subseteq Task
  BY TaskAssumption, FS_CardinalityType, ListedTasks
<1> DEFINE Far(n) == \E S \in SUBSET K : /\ S \subseteq f[n] /\ \A t \in S : rows[t].deps \subseteq S
                                         /\ S = K \/ Cardinality(S) >= n
           N == {n \in 0 .. m : ~Far(n)}
<1>3. N = {}
  <2> SUFFICES ASSUME N # {} PROVE FALSE
    OBVIOUS
  <2>1. PICK n \in N : \A k \in N : ~(k < n)
    <3>1. N \in SUBSET Nat
      BY <1>2
    <3> HIDE DEF N
    <3> QED BY <3>1, Least
  <2>2. n # 0
    <3>1. Cardinality({}) = 0
      BY FS_EmptySet
    <3>2. Far(0)
      BY <3>1
    <3> QED BY <2>1, <3>2
  <2>3. n - 1 \in 0 .. m /\ n - 1 < n /\ n \in 0 .. m
    BY <1>2, <2>2
  <2>4. f[n] = {t \in K : rows[t].deps \subseteq f[n - 1]}
    BY <1>1, <2>2, <2>3 DEF OffOf
  <2>5. Far(n - 1)
    BY <2>1, <2>3
  <2>6. PICK S \in SUBSET K : /\ S \subseteq f[n - 1] /\ \A t \in S : rows[t].deps \subseteq S
                              /\ S = K \/ Cardinality(S) >= n - 1
    BY <2>5
  <2>7. CASE S = K
    <3>1. S \subseteq f[n]
      BY <2>4, <2>6
    <3> QED BY <2>1, <2>6, <2>7, <3>1
  <2>8. CASE S # K
    <3>1. PICK t \in K \ S : rows[t].deps \cap (K \ S) = {}
      BY <2>6, <2>8 DEF Acyclic
    <3>2. rows[t].deps \subseteq S
      BY <3>1 DEF Within
    <3>3. S \cup {t} \subseteq f[n]
      BY <2>4, <2>6, <3>2
    <3>4. Cardinality(S \cup {t}) = Cardinality(S) + 1 /\ Cardinality(S) \in Nat
      BY <1>2, <3>1, SmallSets
    <3>5. Cardinality(S \cup {t}) >= n
      BY <2>3, <2>6, <2>8, <3>4
    <3>6. Far(n)
      <4>1. \A u \in S \cup {t} : rows[u].deps \subseteq S \cup {t}
        BY <2>6, <3>2
      <4> QED BY <3>1, <3>3, <3>5, <4>1
    <3> QED BY <2>1, <3>6
  <2> QED BY <2>7, <2>8
<1>4. Far(m)
  BY <1>2, <1>3
<1>5. PICK S \in SUBSET K : S \subseteq f[m] /\ (S = K \/ Cardinality(S) >= m)
  BY <1>4
<1>6. S = K
  <2>1. S \in SUBSET Task
    BY <1>2, <1>5
  <2>2. Cardinality(S) \in Nat /\ Cardinality(S) <= m /\ (Cardinality(S) = m => S = Task)
    BY <2>1, SmallSets
  <2>3. Cardinality(S) >= m => Cardinality(S) = m
    BY <1>2, <2>2
  <2>4. S = Task => S = K
    BY <1>2, <1>5
  <2> HIDE DEF K, m
  <2> QED BY <1>5, <2>2, <2>3, <2>4
<1>7. f[m] \subseteq K
  BY <1>1, <1>2 DEF OffOf
<1> QED BY <1>1, <1>5, <1>6, <1>7

--------------------------------------------------------------------------------
(* The handlers.                                                               *)

LEMMA AsTheyAre ==
  ASSUME Inv
  PROVE  Leaves(task, order)
BY DEF Inv, Leaves, Known

LEMMA KnownTask ==
  ASSUME Inv, NEW t \in Known
  PROVE  /\ t \in Task /\ task[t] \in RowType /\ task[t].st \in Statuses /\ task[t].st # "absent"
         /\ task[t].runs \in Seq(Outcomes) /\ Len(task[t].runs) <= MaxRuns /\ task[t].deps \subseteq Known
<1>1. t \in Task /\ task[t] \in RowType
  BY ListedTasks DEF Inv, Rows, Known
<1>2. task[t].st # "absent" /\ Len(task[t].runs) <= MaxRuns /\ task[t].deps \subseteq Known
  BY <1>1 DEF Inv, Entered
<1> QED BY <1>1, <1>2, RowFields

\* A row that is written without an evaluation.
LEMMA QuietRow ==
  ASSUME Inv, NEW t \in Known, NEW row \in RowType, row.st # "absent", row.deps \subseteq task[t].deps,
         Len(row.runs) <= MaxRuns, Queued(row) => Queued(task[t]), row.st = "done" => task[t].st = "done",
         Acyclic(task, Known) => row.deps = task[t].deps,
         Idles(row) /\ ~row.skip => Idles(task[t]) /\ ~task[t].skip,
         Quietly([task EXCEPT ![t] = row])
  PROVE  Quiets
<1> DEFINE rows == [task EXCEPT ![t] = row]
<1>1. Leaves(rows, order) /\ t \in Task
  BY RowWritten
<1>2. rows[t] = row /\ \A u \in Task \ {t} : rows[u] = task[u]
  BY <1>1 DEF Inv, Rows
<1>3. task' = rows /\ UNCHANGED <<order, spec, returned>>
  BY DEF Quietly
<1> HIDE DEF rows
<1>4. \A u \in Task : Queued(rows[u]) => Queued(task[u])
  BY <1>2
<1>5. ASSUME Acyclic(task, Known), NEW u \in Task, Forgotten(rows, u)
      PROVE  Forgotten(task, u)
  <2>1. rows[u].deps = task[u].deps
    BY <1>2, <1>5
  <2>2. \A e \in Task : rows[e].st = "done" => task[e].st = "done"
    BY <1>2
  <2>3. task[u].deps \subseteq Task
    <3>1. task[u] \in RowType
      BY DEF Inv, Rows
    <3> QED BY <3>1, RowFields
  <2>4. AllDone(task, u)
    BY <1>5, <2>1, <2>2, <2>3 DEF AllDone, Forgotten
  <2>5. Idles(task[u]) /\ ~task[u].skip
    BY <1>2, <1>5 DEF Forgotten
  <2> QED BY <1>5, <2>1, <2>4, <2>5 DEF Forgotten
<1> QED BY <1>1, <1>3, <1>4, <1>5 DEF Quiets

LEMMA DispatchStep ==
  ASSUME Inv, NEW t \in Known, dispatch(t)
  PROVE  Quiets
<1> DEFINE row == task[t]
<1>1. /\ t \in Task /\ row \in RowType /\ row.st \in Statuses /\ row.runs \in Seq(Outcomes)
      /\ Len(row.runs) <= MaxRuns /\ task \in Rows
  BY KnownTask DEF Inv
<1>2. CASE Quietly([task EXCEPT ![t].st = "blocked", ![t].skip = TRUE])
  <2> DEFINE new == [row EXCEPT !.st = "blocked", !.skip = TRUE]
  <2>1. [task EXCEPT ![t].st = "blocked", ![t].skip = TRUE] = [task EXCEPT ![t] = new]
    BY <1>1 DEF Rows
  <2>2. /\ new \in RowType /\ new.st = "blocked" /\ new.deps = row.deps /\ new.runs = row.runs /\ new.skip
    BY <1>1 DEF RowType, Statuses
  <2> HIDE DEF new
  <2> QED BY <1>1, <1>2, <2>1, <2>2, QuietRow DEF Queued
<1>3. CASE Quietly([task EXCEPT ![t].st = "failed", ![t].skip = FALSE])
  <2> DEFINE new == [row EXCEPT !.st = "failed", !.skip = FALSE]
  <2>1. [task EXCEPT ![t].st = "failed", ![t].skip = FALSE] = [task EXCEPT ![t] = new]
    BY <1>1 DEF Rows
  <2>2. /\ new \in RowType /\ new.st = "failed" /\ new.deps = row.deps /\ new.runs = row.runs
    BY <1>1 DEF RowType, Statuses
  <2> HIDE DEF new
  <2> QED BY <1>1, <1>3, <2>1, <2>2, QuietRow DEF Queued, Idles
<1>4. CASE /\ Len(task[t].runs) < MaxRuns
           /\ Quietly([task EXCEPT ![t].st = "active", ![t].skip = FALSE, ![t].runs = Append(@, "live")])
  <2> DEFINE new == [row EXCEPT !.st = "active", !.skip = FALSE, !.runs = Append(row.runs, "live")]
  <2>1. [task EXCEPT ![t].st = "active", ![t].skip = FALSE, ![t].runs = Append(@, "live")]
          = [task EXCEPT ![t] = new]
    BY <1>1 DEF Rows
  <2>2. Append(row.runs, "live") \in Seq(Outcomes) /\ Len(Append(row.runs, "live")) = Len(row.runs) + 1
    BY <1>1 DEF Outcomes
  <2>3. /\ new \in RowType /\ new.st = "active" /\ new.deps = row.deps /\ Len(new.runs) = Len(row.runs) + 1
    BY <1>1, <2>2 DEF RowType, Statuses
  <2>4. Len(new.runs) <= MaxRuns
    BY <1>1, <1>4, <2>3, BoundsAssumption
  <2> HIDE DEF new
  <2> QED BY <1>1, <1>4, <2>1, <2>3, <2>4, QuietRow DEF Queued, Idles
<1> QED BY <1>2, <1>3, <1>4 DEF dispatch

\* A row that is left to the evaluation.
LEMMA EvaluatedRow ==
  ASSUME Inv, NEW t \in Known, NEW row \in RowType, row.st # "absent", row.deps \subseteq task[t].deps,
         Len(row.runs) <= MaxRuns, Disturb([task EXCEPT ![t] = row])
  PROVE  Evaluates
BY RowWritten DEF Evaluates, Disturb

LEMMA StatusWritten ==
  ASSUME Inv, NEW t \in Known, NEW st \in Statuses, Disturb([task EXCEPT ![t].st = st])
  PROVE  Evaluates
<1> DEFINE new == [task[t] EXCEPT !.st = st]
<1>1. t \in Task /\ task[t] \in RowType /\ Len(task[t].runs) <= MaxRuns
  BY KnownTask
<1>2. new \in RowType /\ new.st = st /\ new.deps = task[t].deps /\ new.runs = task[t].runs
  BY <1>1 DEF RowType
<1>3. [task EXCEPT ![t].st = st] = [task EXCEPT ![t] = new] /\ st # "absent"
  BY DEF Statuses
<1> HIDE DEF new
<1> QED BY <1>1, <1>2, <1>3, EvaluatedRow

\* The last run of a task ends, and its status is what the handler says or what it was.
LEMMA EndWritten ==
  ASSUME Inv, NEW t \in Known, HasRuns(task[t]), NEW o \in Outcomes
  PROVE  /\ \A st \in Statuses : Disturb([Ends(t, o) EXCEPT ![t].st = st]) => Evaluates
         /\ Disturb(Ends(t, o)) => Evaluates
         /\ Quietly(Ends(t, o)) => Quiets
         /\ Ends(t, o)[t].runs # <<>> /\ Last(Ends(t, o)[t].runs) = o
<1> DEFINE q == task[t].runs
           ended == SubSeq(q, 1, Len(q) - 1) \o <<o>>
           row == [task[t] EXCEPT !.runs = ended]
<1>1. /\ t \in Task /\ task[t] \in RowType /\ task[t].st \in Statuses /\ task[t].st # "absent" /\ task \in Rows
      /\ q \in Seq(Outcomes) /\ q # <<>>
  BY KnownTask DEF Inv, HasRuns
<1>2. /\ ended \in Seq(Outcomes) /\ ended # <<>> /\ Len(ended) <= MaxRuns
      /\ Ends(t, o)[t] = row /\ Ends(t, o) = [task EXCEPT ![t] = row]
  BY <1>1, RunEnds
<1>3. Last(ended) = o
  BY <1>1, SubSeqProperties DEF Last
<1> HIDE DEF ended
<1>4. /\ row \in RowType /\ row.st = task[t].st /\ row.deps = task[t].deps /\ row.runs = ended
      /\ row.skip = task[t].skip
  BY <1>1, <1>2 DEF RowType
<1>5. ASSUME NEW st \in Statuses, Disturb([Ends(t, o) EXCEPT ![t].st = st])
      PROVE  Evaluates
  <2> DEFINE new == [row EXCEPT !.st = st]
  <2>1. new \in RowType /\ new.st = st /\ new.deps = task[t].deps /\ new.runs = ended /\ st # "absent"
    BY <1>4 DEF RowType, Statuses
  <2>2. [Ends(t, o) EXCEPT ![t].st = st] = [task EXCEPT ![t] = new]
    BY <1>1, <1>2 DEF Rows
  <2> HIDE DEF new
  <2> QED BY <1>2, <1>5, <2>1, <2>2, EvaluatedRow
<1> HIDE DEF row
<1>6. Disturb(Ends(t, o)) => Evaluates
  BY <1>1, <1>2, <1>4, EvaluatedRow
<1>7. Quietly(Ends(t, o)) => Quiets
  <2>1. HasRuns(row) /\ HasRuns(task[t])
    BY <1>2, <1>4 DEF HasRuns
  <2> QED BY <1>1, <1>2, <1>4, <2>1, QuietRow DEF Queued, Idles
<1> QED BY <1>2, <1>3, <1>4, <1>5, <1>6, <1>7

LEMMA CompletionStep ==
  ASSUME Inv, NEW t \in Known, HasLive(task[t]), NEW o \in {"done", "ended"},
         Disturb(onRunComplete(Ends(t, o), t))
  PROVE  Evaluates
<1>1. HasRuns(task[t]) /\ o \in Outcomes
  BY LiveIsARun DEF Outcomes
<1> DEFINE rows == Ends(t, o)
<1>2. Last(rows[t].runs) = o
  BY <1>1, EndWritten
<1> DEFINE st == IF o = "done" THEN "done" ELSE "failed"
<1>3. onRunComplete(rows, t) = [rows EXCEPT ![t].st = st]
  BY <1>2 DEF onRunComplete
<1>4. st \in Statuses
  BY DEF Statuses
<1> HIDE DEF st
<1>5. Disturb([rows EXCEPT ![t].st = st])
  BY <1>3
<1> QED BY <1>1, <1>4, <1>5, EndWritten

LEMMA StalledStep ==
  ASSUME Inv, NEW t \in Task, retryOrFailStalledTask(t)
  PROVE  Evaluates
<1>1. t \in Known /\ HasRuns(task[t])
  BY LiveIsARun DEF retryOrFailStalledTask
<1>2. "ended" \in Outcomes /\ "quarantined" \in Outcomes /\ {"ready", "failed"} \subseteq Statuses
  BY DEF Outcomes, Statuses
<1>3. CASE Disturb(Ends(t, "quarantined"))
  BY <1>1, <1>2, <1>3, EndWritten
<1>4. CASE \E st \in {"ready", "failed"} : Disturb([Ends(t, "ended") EXCEPT ![t].st = st])
  BY <1>1, <1>2, <1>4, EndWritten
<1> QED BY <1>3, <1>4 DEF retryOrFailStalledTask

LEMMA CreationStep ==
  ASSUME Inv, NEW t \in Task, NEW st \in Statuses, createTask(t, st)
  PROVE  Evaluates
<1> DEFINE row == Row(st, {}, FALSE)
           rows == [task EXCEPT ![t] = row]
           list == Append(order, t)
<1>1. /\ t \notin Known /\ order' = list /\ evaluateTaskDAG(rows, list)
      /\ order \in Seq(Task) /\ IsInjective(order) /\ task \in Rows /\ Entered(task, Known)
  BY DEF createTask, Inv
<1>2. list \in Seq(Task) /\ Listed(list) = Known \cup {t} /\ IsInjective(list)
  <2>1. /\ Len(order) \in Nat /\ DOMAIN list = 1 .. Len(order) + 1 /\ DOMAIN order = 1 .. Len(order)
        /\ list[Len(order) + 1] = t /\ \A i \in 1 .. Len(order) : list[i] = order[i]
    BY <1>1
  <2>2. Listed(list) = Known \cup {t}
    BY <2>1 DEF Listed, Known
  <2>3. \A i \in 1 .. Len(order) : list[i] # t
    BY <1>1, <2>1 DEF Listed, Known
  <2>4. ASSUME NEW i \in DOMAIN list, NEW j \in DOMAIN list, list[i] = list[j]
        PROVE  i = j
    <3>1. CASE i \in 1 .. Len(order) /\ j \in 1 .. Len(order)
      BY <1>1, <2>1, <2>4, <3>1 DEF IsInjective
    <3>2. CASE ~(i \in 1 .. Len(order) /\ j \in 1 .. Len(order))
      BY <2>1, <2>3, <2>4, <3>2
    <3> QED BY <3>1, <3>2
  <2>5. IsInjective(list)
    BY <2>4 DEF IsInjective
  <2> QED BY <1>1, <2>2, <2>5
<1>3. row \in RowType /\ row.st # "absent" /\ row.deps = {} /\ Len(row.runs) = 0
  BY DEF Row, RowType, Statuses
<1> HIDE DEF row
<1>4. rows \in Rows /\ rows[t] = row /\ \A u \in Task \ {t} : rows[u] = task[u]
  BY <1>1, <1>3 DEF Rows
<1> HIDE DEF rows, list
<1>5. Entered(rows, Known \cup {t})
  BY <1>1, <1>3, <1>4, BoundsAssumption DEF Entered
<1>6. ASSUME Acyclic(task, Known)
      PROVE  Acyclic(rows, Known \cup {t})
  <2> SUFFICES ASSUME NEW S \in SUBSET (Known \cup {t}), S # {}
               PROVE  \E u \in S : rows[u].deps \cap S = {}
    BY DEF Acyclic
  <2>1. CASE t \in S
    BY <1>3, <1>4, <2>1
  <2>2. CASE t \notin S
    <3>1. PICK u \in S : task[u].deps \cap S = {}
      BY <1>6, <2>2 DEF Acyclic
    <3>2. u \in Task \ {t}
      BY <1>1, <2>2, ListedTasks DEF Known
    <3> QED BY <1>4, <3>1, <3>2
  <2> QED BY <2>1, <2>2
<1>7. Leaves(rows, list)
  BY <1>2, <1>4, <1>5, <1>6 DEF Leaves
<1> QED BY <1>1, <1>7 DEF Evaluates

LEMMA AdditionStep ==
  ASSUME Inv, NEW t \in Task, NEW d \in Task, addDependency(t, d)
  PROVE  Evaluates \/ Quiets
<1> DEFINE added == [task EXCEPT ![t].deps = @ \cup {d}]
           row == [task[t] EXCEPT !.deps = task[t].deps \cup {d}]
<1>1. /\ t \in Known /\ d \in Known /\ task \in Rows /\ Entered(task, Known) /\ order \in Seq(Task) /\ IsInjective(order)
      /\ task[t] \in RowType /\ task[t].st \in Statuses /\ Len(task[t].runs) <= MaxRuns
      /\ task[t].deps \subseteq Known /\ Known \subseteq Task
  BY KnownTask, ListedTasks DEF addDependency, Inv, Known
<1>2. added = [task EXCEPT ![t] = row]
  OBVIOUS
<1>3. /\ row \in RowType /\ row.deps = task[t].deps \cup {d} /\ row.st = task[t].st /\ row.runs = task[t].runs
  BY <1>1 DEF RowType
<1>4. CASE ~validateDAG(added, order)
  <2> DEFINE old == [task[t] EXCEPT !.deps = task[t].deps \ {d}]
  <2>1. /\ old \in RowType /\ old.deps = task[t].deps \ {d} /\ old.st = task[t].st /\ old.runs = task[t].runs
        /\ old.skip = task[t].skip
    BY <1>1 DEF RowType
  <2>2. Quietly([task EXCEPT ![t] = old])
    BY <1>4 DEF addDependency
  <2>3. ASSUME Acyclic(task, Known)
        PROVE  d \notin task[t].deps
    <3> SUFFICES ASSUME d \in task[t].deps PROVE FALSE
      OBVIOUS
    <3>1. row = task[t]
      <4>1. task[t].deps \cup {d} = task[t].deps
        OBVIOUS
      <4> QED BY <1>1, <4>1 DEF RowType
    <3>2. added = task
      BY <1>1, <1>2, <3>1 DEF Rows
    <3>3. Within(task, Known)
      BY <1>1 DEF Within, Entered
    <3>4. validateDAG(task, order)
      BY <1>1, <2>3, <3>3, AcyclicIsValid DEF Known
    <3> QED BY <1>4, <3>2, <3>4
  <2>4. Acyclic(task, Known) => old.deps = task[t].deps
    BY <2>1, <2>3
  <2>5. old.st # "absent" /\ Len(old.runs) <= MaxRuns /\ (Queued(old) <=> Queued(task[t]))
    BY <1>1, <2>1, KnownTask DEF Queued, HasRuns
  <2> HIDE DEF old
  <2> QED BY <1>1, <2>1, <2>2, <2>4, <2>5, QuietRow DEF Idles
<1>5. CASE validateDAG(added, order)
  <2> DEFINE new == [row EXCEPT !.st = "blocked"]
  <2>1. /\ new \in RowType /\ new.deps = row.deps /\ new.runs = row.runs /\ new.st = "blocked"
    BY <1>3 DEF RowType, Statuses
  <2>2. Acyclic(added, Known)
    BY <1>5, ValidIsAcyclic DEF Known
  <2>3. ASSUME NEW r \in {row, new}
        PROVE  Leaves([task EXCEPT ![t] = r], order)
    <3> DEFINE rows == [task EXCEPT ![t] = r]
    <3>1. r \in RowType /\ r.deps = task[t].deps \cup {d} /\ r.runs = task[t].runs /\ r.st # "absent"
      BY <1>1, <1>3, <2>1, KnownTask
    <3>2. rows \in Rows /\ rows[t] = r /\ \A u \in Task \ {t} : rows[u] = task[u]
      BY <1>1, <3>1 DEF Rows
    <3>3. added[t] = row /\ \A u \in Task \ {t} : added[u] = task[u]
      BY <1>1, <1>2 DEF Rows
    <3> HIDE DEF rows, added, row, new
    <3>4. \A u \in Task : rows[u].deps = added[u].deps
      BY <1>3, <3>1, <3>2, <3>3
    <3>5. Acyclic(rows, Known)
      BY <1>1, <2>2, <3>4 DEF Acyclic
    <3>6. Entered(rows, Known)
      BY <1>1, <3>1, <3>2 DEF Entered
    <3> QED BY <1>1, <3>2, <3>5, <3>6 DEF Leaves, rows, Known
  <2>4. CASE task[t].st = "ready" /\ task[d].st # "done"
    <3> DEFINE rows == [task EXCEPT ![t] = new]
    <3>1. [added EXCEPT ![t].st = "blocked"] = rows
      BY <1>1, <1>2 DEF Rows
    <3>2. task' = rows /\ UNCHANGED <<order, spec, returned>>
      BY <1>5, <2>4, <3>1 DEF addDependency, Quietly
    <3>3. rows[t] = new /\ \A u \in Task \ {t} : rows[u] = task[u]
      BY <1>1 DEF Rows
    <3>4. Leaves(rows, order)
      BY <2>3
    <3>5. t # d
      BY DEF addDependency
    <3> HIDE DEF rows, new, row, added
    <3>6. \A u \in Task : Queued(rows[u]) => Queued(task[u])
      BY <2>1, <3>3 DEF Queued
    <3>7. ASSUME NEW u \in Task, Forgotten(rows, u)
          PROVE  Forgotten(task, u)
      <4>1. u # t
        <5> SUFFICES ASSUME u = t PROVE FALSE
          OBVIOUS
        <5>1. d \in rows[t].deps /\ rows[d].st # "done"
          BY <1>1, <1>3, <2>1, <2>4, <3>3, <3>5
        <5> QED BY <3>7, <5>1 DEF Forgotten, AllDone
      <4>2. rows[u] = task[u] /\ task[u].deps \subseteq Task
        <5>1. task[u] \in RowType
          BY <1>1 DEF Rows
        <5> QED BY <3>3, <4>1, <5>1, RowFields
      <4>3. \A e \in Task : rows[e].st = "done" => task[e].st = "done"
        BY <2>1, <3>3
      <4> QED BY <3>7, <4>2, <4>3 DEF Forgotten, AllDone
    <3> QED BY <3>2, <3>4, <3>6, <3>7 DEF Quiets
  <2>5. CASE ~(task[t].st = "ready" /\ task[d].st # "done")
    <3>1. Disturb(added)
      BY <1>5, <2>5 DEF addDependency
    <3>2. Leaves(added, order)
      BY <1>2, <2>3
    <3> QED BY <3>1, <3>2 DEF Evaluates, Disturb
  <2> QED BY <2>4, <2>5
<1> QED BY <1>4, <1>5

LEMMA RemovalStep ==
  ASSUME Inv, NEW t \in Task, NEW d \in Task, removeDependency(t, d)
  PROVE  Evaluates
<1> DEFINE row == [task[t] EXCEPT !.deps = task[t].deps \ {d}]
<1>1. t \in Known /\ Disturb([task EXCEPT ![t] = row])
  BY DEF removeDependency
<1>2. task[t] \in RowType /\ task[t].st # "absent" /\ Len(task[t].runs) <= MaxRuns
  BY <1>1, KnownTask
<1>3. row \in RowType /\ row.st = task[t].st /\ row.deps \subseteq task[t].deps /\ row.runs = task[t].runs
  BY <1>2 DEF RowType
<1> HIDE DEF row
<1> QED BY <1>1, <1>2, <1>3, EvaluatedRow

LEMMA Steps ==
  ASSUME Inv, Next
  PROVE  (Evaluates \/ Quiets) /\ edits' \in 0 .. MaxEdits
<1>0. MaxEdits \in Nat /\ edits \in 0 .. MaxEdits
  BY BoundsAssumption DEF Inv
<1>1. ASSUME evaluate PROVE (Evaluates \/ Quiets) /\ edits' \in 0 .. MaxEdits
  BY <1>0, <1>1, AsTheyAre DEF evaluate, Disturb, Evaluates
<1>2. ASSUME approve PROVE (Evaluates \/ Quiets) /\ edits' \in 0 .. MaxEdits
  <2>1. Quiets
    BY <1>2, AsTheyAre DEF approve, Quiets
  <2> QED BY <1>0, <1>2, <2>1 DEF approve
<1>3. ASSUME NEW t \in Task,
             \/ CycleDispatches(t) \/ manualDispatch(t) \/ RunCompletes(t) \/ RunFails(t)
             \/ retryOrFailStalledTask(t) \/ completeTask(t) \/ retry(t) \/ repairActiveTaskFailure(t)
             \/ \E st \in Statuses : createTask(t, st) \/ putStatus(t, st)
             \/ \E d \in Task : addDependency(t, d) \/ removeDependency(t, d)
      PROVE  Evaluates \/ Quiets
  <2>1. CASE CycleDispatches(t)
    BY <2>1, DispatchStep DEF CycleDispatches
  <2>2. CASE manualDispatch(t)
    BY <2>2, DispatchStep DEF manualDispatch
  <2>3. CASE RunCompletes(t)
    BY <2>3, CompletionStep DEF RunCompletes
  <2>4. CASE RunFails(t)
    <3>1. t \in Known /\ HasRuns(task[t]) /\ "ended" \in Outcomes
      BY <2>4, LiveIsARun DEF RunFails, Outcomes
    <3> QED BY <2>4, <3>1, EndWritten DEF RunFails
  <2>5. CASE retryOrFailStalledTask(t)
    BY <2>5, StalledStep
  <2>6. CASE completeTask(t)
    BY <2>6, StatusWritten DEF completeTask, Statuses
  <2>7. CASE retry(t)
    <3>1. t \in Known /\ HasRuns(task[t]) /\ "ended" \in Outcomes /\ "ready" \in Statuses
      BY <2>7 DEF retry, Outcomes, Statuses
    <3> QED BY <2>7, <3>1, EndWritten DEF retry
  <2>8. CASE repairActiveTaskFailure(t)
    <3>1. t \in Known
      BY <2>8 DEF repairActiveTaskFailure, Inv, Entered
    <3> QED BY <2>8, <3>1, StatusWritten DEF repairActiveTaskFailure, Statuses
  <2>9. ASSUME NEW st \in Statuses, createTask(t, st) \/ putStatus(t, st)
        PROVE  Evaluates
    BY <2>9, CreationStep, StatusWritten DEF putStatus
  <2>10. ASSUME NEW d \in Task, addDependency(t, d) \/ removeDependency(t, d)
         PROVE  Evaluates \/ Quiets
    BY <2>10, AdditionStep, RemovalStep
  <2> QED BY <1>3, <2>1, <2>2, <2>3, <2>4, <2>5, <2>6, <2>7, <2>8, <2>9, <2>10
<1>4. ASSUME NEW t \in Task,
             \/ CycleDispatches(t) \/ manualDispatch(t) \/ RunCompletes(t) \/ RunFails(t)
             \/ retryOrFailStalledTask(t) \/ completeTask(t) \/ retry(t) \/ repairActiveTaskFailure(t)
             \/ \E st \in Statuses : createTask(t, st) \/ putStatus(t, st)
             \/ \E d \in Task : addDependency(t, d) \/ removeDependency(t, d)
      PROVE  edits' \in 0 .. MaxEdits
  <2>1. edits' = edits \/ Edit
    BY <1>4 DEF CycleDispatches, manualDispatch, RunCompletes, RunFails, retryOrFailStalledTask, completeTask,
                retry, repairActiveTaskFailure, createTask, putStatus, addDependency, removeDependency
  <2> QED BY <1>0, <2>1 DEF Edit
<1> QED BY <1>1, <1>2, <1>3, <1>4 DEF Next

--------------------------------------------------------------------------------
(* What an evaluation leaves.                                                  *)

\* The dependencies of an import are without cycles.  POST specs/import does not look.
AcyclicImports ==
  \A i \in Import : \A S \in SUBSET Listed(i.list) : S # {} => \E t \in S : i.deps[t] \cap S = {}

LEMMA Evaluated ==
  ASSUME NEW rows \in Rows, NEW list \in Seq(Task), Entered(rows, Listed(list))
  PROVE  /\ Settle(rows, list) \in Rows /\ Entered(Settle(rows, list), Listed(list))
         /\ Acyclic(rows, Listed(list)) => Acyclic(Settle(rows, list), Listed(list))
<1> DEFINE R == Settle(rows, list)
           K == Listed(list)
<1>1. R \in Evolved(rows, list) /\ K \subseteq Task
  BY Evolves, ListedTasks
<1> HIDE DEF R
<1>2. \A t \in Task : R[t].deps = rows[t].deps /\ R[t].runs = rows[t].runs
  BY <1>1 DEF Evolved
<1>3. ASSUME NEW t \in Task
      PROVE  (R[t].st = "absent") <=> (t \notin K)
  BY <1>1 DEF Evolved, Entered
<1>4. Entered(R, K)
  BY <1>2, <1>3 DEF Entered
<1>5. Acyclic(rows, K) => Acyclic(R, K)
  BY <1>1, <1>2 DEF Acyclic
<1> QED BY <1>1, <1>4, <1>5 DEF R, Evolved

LEMMA Reconciles ==
  ASSUME NEW rows, NEW list, NEW now \in SpecStatuses
  PROVE  /\ reconcileSpecStatus(rows, list, now) \in SpecStatuses
         /\ reconcileSpecStatus(rows, list, now) \in {"draft", "failed"} =>
              ~ \E t \in Listed(list) : Queued(rows[t])
<1> DEFINE st == {rows[t].st : t \in Listed(list)}
           history == \E t \in Listed(list) : HasRuns(rows[t])
           open == \/ now = "approved" /\ st \cap {"active", "done", "failed"} # {}
                   \/ now \in {"failed", "draft"} /\ st \cap {"ready", "active"} # {} /\ history
           result == reconcileSpecStatus(rows, list, now)
<1>1. result = CASE list = <<>> -> now
                 [] list # <<>> /\ st = {"done"} -> "done"
                 [] "failed" \in st /\ st \subseteq {"done", "failed"} -> "failed"
                 [] OTHER -> IF open THEN "implementing" ELSE now
  BY DEF reconcileSpecStatus
<1>2. ASSUME NEW t \in Listed(list), Queued(rows[t])
      PROVE  "ready" \in st /\ history
  BY <1>2 DEF Queued
<1>3. list = <<>> => Listed(list) = {} /\ st = {}
  BY DEF Listed
<1> HIDE DEF st, history, result
<1>4. CASE list = <<>>
  BY <1>1, <1>3, <1>4 DEF result
<1>5. CASE list # <<>> /\ st = {"done"}
  <2>1. result = "done"
    BY <1>1, <1>5
  <2> QED BY <2>1 DEF SpecStatuses, result
<1>6. CASE "failed" \in st /\ st \subseteq {"done", "failed"}
  <2>1. result = "failed"
    BY <1>1, <1>3, <1>6
  <2>2. ~ \E t \in Listed(list) : Queued(rows[t])
    BY <1>2, <1>6
  <2> QED BY <2>1, <2>2 DEF SpecStatuses, result
<1>7. CASE ~(list = <<>>) /\ ~(list # <<>> /\ st = {"done"}) /\ ~("failed" \in st /\ st \subseteq {"done", "failed"})
  <2>1. result = IF open THEN "implementing" ELSE now
    BY <1>1, <1>7
  <2>2. (\E t \in Listed(list) : Queued(rows[t])) /\ now \in {"failed", "draft"} => open
    BY <1>2
  <2> HIDE DEF open
  <2>3. CASE open
    <3>1. result = "implementing"
      BY <2>1, <2>3
    <3> QED BY <3>1 DEF SpecStatuses, result
  <2>4. CASE ~open
    BY <2>1, <2>2, <2>4 DEF result
  <2> QED BY <2>3, <2>4
<1> QED BY <1>4, <1>5, <1>6, <1>7

\* With sweeps enough, nobody is left behind.
LEMMA EvaluationSettles ==
  ASSUME NEW rows \in Rows, NEW list \in Seq(Task), Entered(rows, Listed(list)), Acyclic(rows, Listed(list)),
         MaxSweeps >= Cardinality(Task)
  PROVE  /\ Sweep(Settle(rows, list), list) = Settle(rows, list)
         /\ \A t \in Task : ~Forgotten(Settle(rows, list), t)
<1> DEFINE R == Settle(rows, list)
           K == Listed(list)
<1>1. R \in Rows /\ Entered(R, K) /\ K \subseteq Task
  BY Evaluated, ListedTasks
<1>2. Within(rows, K)
  BY <1>1 DEF Within, Entered
<1>3. Steady(R, K)
  BY <1>2, LoopSettles
<1> HIDE DEF R
<1>4. Sweep(R, list) = R
  BY <1>1, <1>3, SteadyReturns
<1>5. ASSUME NEW t \in Task, Forgotten(R, t)
      PROVE  FALSE
  <2>1. t \in K /\ Idles(R[t]) /\ R[t].deps # {} /\ AllDone(R, t)
    BY <1>1, <1>5 DEF Forgotten, Idles, Entered
  <2>2. canResolveTaskStatus(R, t) /\ Fixed(R, t)
    BY <1>3, <2>1, Resolution DEF Steady
  <2>3. Over(R, t) /\ ~Fallen(R, t)
    BY <2>1 DEF Over, Fallen, AllDone
  <2>4. resolveTaskStatus(R, t) = "ready"
    BY <2>1, <2>3, Resolution
  <2>5. R[t].st = "ready"
    BY <1>1, <2>2, <2>4, FixedIs
  <2> QED BY <2>1, <2>5 DEF Idles
<1> QED BY <1>4, <1>5 DEF R

LEMMA Initially ==
  ASSUME Init
  PROVE  \E rows, list, now :
           /\ list \in Seq(Task) /\ IsInjective(list) /\ rows \in Rows /\ Entered(rows, Listed(list))
           /\ now \in SpecStatuses
           /\ AcyclicImports => Acyclic(rows, Listed(list))
           /\ order = list /\ task = Settle(rows, list) /\ returned = (Sweep(Settle(rows, list), list) = Settle(rows, list))
           /\ spec = reconcileSpecStatus(Settle(rows, list), list, now) /\ edits = 0
<1>1. PICK i \in Import, now \in {"draft", "approved"} :
        LET known == Listed(i.list)
            rows == [t \in Task |-> IF t \in known
                                    THEN Row("pending", i.deps[t] \cap known, t \in i.blind)
                                    ELSE Row("absent", {}, FALSE)]
            after == Settle(rows, i.list)
        IN /\ order = i.list
           /\ task = after
           /\ returned = (Sweep(after, i.list) = after)
           /\ spec = reconcileSpecStatus(after, i.list, now)
           /\ edits = 0
  BY DEF Init
<1> DEFINE known == Listed(i.list)
           list == i.list
           rows == [t \in Task |-> IF t \in known
                                   THEN Row("pending", i.deps[t] \cap known, t \in i.blind)
                                   ELSE Row("absent", {}, FALSE)]
<1>2. list \in Seq(Task) /\ IsInjective(list) /\ known \subseteq Task /\ i.deps \in [Task -> SUBSET Task]
  BY ImportAssumption, ListedTasks
<1>3. rows \in Rows /\ Entered(rows, known)
  <2>1. ASSUME NEW t \in Task
        PROVE  /\ rows[t] \in RowType /\ ((rows[t].st = "absent") <=> (t \notin known))
               /\ rows[t].deps \subseteq known /\ Len(rows[t].runs) <= MaxRuns
    <3>1. Len(<<>>) <= MaxRuns /\ <<>> \in Seq(Outcomes)
      BY BoundsAssumption
    <3>2. CASE t \in known
      <4>1. rows[t] = [st |-> "pending", deps |-> i.deps[t] \cap known, blind |-> t \in i.blind,
                       runs |-> <<>>, skip |-> FALSE]
        BY <3>2 DEF Row
      <4>2. i.deps[t] \cap known \in SUBSET Task
        BY <1>2
      <4> HIDE DEF rows
      <4> QED BY <3>1, <3>2, <4>1, <4>2 DEF RowType, Statuses
    <3>3. CASE t \notin known
      <4>1. rows[t] = [st |-> "absent", deps |-> {}, blind |-> FALSE, runs |-> <<>>, skip |-> FALSE]
        BY <3>3 DEF Row
      <4> HIDE DEF rows
      <4> QED BY <3>1, <3>3, <4>1 DEF RowType, Statuses
    <3> QED BY <3>2, <3>3
  <2> QED BY <2>1 DEF Rows, Entered
<1>4. AcyclicImports => Acyclic(rows, known)
  <2> SUFFICES ASSUME AcyclicImports, NEW S \in SUBSET known, S # {}
               PROVE  \E t \in S : rows[t].deps \cap S = {}
    BY DEF Acyclic
  <2>1. PICK t \in S : i.deps[t] \cap S = {}
    BY DEF AcyclicImports
  <2>2. rows[t].deps = i.deps[t] \cap known
    BY <1>2 DEF Row
  <2> QED BY <2>1, <2>2
<1>5. now \in SpecStatuses
  BY DEF SpecStatuses
<1>7. known = Listed(list)
  OBVIOUS
<1> HIDE DEF rows, list, known
<1>6. /\ order = list /\ task = Settle(rows, list) /\ returned = (Sweep(Settle(rows, list), list) = Settle(rows, list))
      /\ spec = reconcileSpecStatus(Settle(rows, list), list, now) /\ edits = 0
  BY <1>1 DEF rows, list, known
<1> QED BY <1>2, <1>3, <1>4, <1>5, <1>6, <1>7

--------------------------------------------------------------------------------
(* The order of the tasks does not matter.                                     *)

\* No failed task is about to come back.
NoRevival(rows) == \A t \in Task : rows[t].st = "failed" => ~canResolveTaskStatus(rows, t)

\* What r tells of rows that were evaluated into it: only an idle task has moved, and
\* it is where its dependencies put it, for good.
Told(rows, r) ==
  \A t \in Task :
    /\ ~Idles(rows[t]) => r[t].st = rows[t].st
    /\ Idles(rows[t]) /\ rows[t].deps # {} => Idles(r[t]) \/ r[t].st = resolveTaskStatus(r, t)
    /\ Idles(rows[t]) /\ rows[t].deps = {} =>
         IF rows[t].st = "blocked" THEN r[t].st = "blocked" ELSE r[t].st \in {"pending", "ready"}

LEMMA ToldVisit ==
  ASSUME NEW rows \in Rows, NEW list \in Seq(Task), NEW r \in Evolved(rows, list), NoRevival(rows), Told(rows, r),
         NEW u \in Listed(list), u \notin rows[u].deps
  PROVE  Told(rows, Visit(r, u))
<1> DEFINE R == Visit(r, u)
<1>1. u \in Task /\ r \in Rows
  BY ListedTasks DEF Evolved
<1>2. \A t \in Task : r[t].deps = rows[t].deps /\ r[t].blind = rows[t].blind /\ r[t].runs = rows[t].runs
  BY DEF Evolved
<1>3. \A t \in Task : rows[t].deps \subseteq Task
  <2> SUFFICES ASSUME NEW t \in Task PROVE rows[t].deps \subseteq Task
    OBVIOUS
  <2>1. rows[t] \in RowType
    BY DEF Rows
  <2> QED BY <2>1, RowFields
<1>4. CASE ~canResolveTaskStatus(r, u)
  BY <1>4 DEF Visit
<1>5. CASE canResolveTaskStatus(r, u)
  <2>1. Idles(r[u])
    <3> SUFFICES ASSUME ~Idles(r[u]) PROVE FALSE
      OBVIOUS
    <3>1. r[u].st = "failed" /\ ~HasRuns(r[u]) /\ r[u].deps # {} /\ ~Fallen(r, u)
      BY <1>5, Resolution
    <3>2. CASE Idles(rows[u])
      <4>1. resolveTaskStatus(r, u) = "failed"
        BY <1>1, <1>2, <3>1, <3>2 DEF Told
      <4> QED BY <3>1, <4>1, Resolution
    <3>3. CASE ~Idles(rows[u])
      <4>1. rows[u].st = "failed" /\ ~HasRuns(rows[u]) /\ rows[u].deps # {}
        BY <1>1, <1>2, <3>1, <3>3 DEF Told, HasRuns
      <4>2. Fallen(rows, u)
        BY <1>1, <4>1, Resolution DEF NoRevival
      <4>3. PICK d \in rows[u].deps : rows[d].st = "failed"
        BY <4>2 DEF Fallen
      <4>4. r[d].st = "failed"
        BY <1>1, <1>3, <4>3 DEF Told, Idles
      <4> QED BY <1>1, <1>2, <3>1, <4>4 DEF Fallen
    <3> QED BY <3>2, <3>3
  <2>2. Idles(rows[u])
    BY <1>1, <2>1 DEF Told, Idles
  <2>3. /\ R \in Rows /\ \A t \in Task \ {u} : R[t] = r[t]
        /\ R[u].st = resolveTaskStatus(r, u) /\ R[u].deps = r[u].deps /\ R[u].blind = r[u].blind
    BY <1>1, <1>5, Visited
  <2> HIDE DEF R
  <2>4. \A d \in Task \ {u} : R[d].st = r[d].st
    BY <2>3
  <2>5. ASSUME NEW t \in Task, t # u, Idles(rows[t]), rows[t].deps # {}, ~Idles(R[t])
        PROVE  R[t].st = resolveTaskStatus(R, t)
    <3>1. R[t] = r[t] /\ r[t].st = resolveTaskStatus(r, t) /\ r[t].deps # {} /\ r[t].deps \subseteq Task
      BY <1>2, <1>3, <2>3, <2>5 DEF Told
    <3>2. CASE u \notin r[t].deps
      <4>1. \A d \in r[t].deps : R[d].st = r[d].st
        BY <2>4, <3>1, <3>2
      <4>2. resolveTaskStatus(R, t) = resolveTaskStatus(r, t)
        BY <3>1, <4>1, Local
      <4> QED BY <3>1, <4>2
    <3>3. CASE u \in r[t].deps
      <4>1. ~Over(r, t) /\ ~AllDone(r, t)
        BY <2>1, <3>3 DEF Over, AllDone, Idles
      <4>2. r[t].st # "blocked"
        BY <2>5, <3>1 DEF Idles
      <4>3. ~r[t].blind /\ Fallen(r, t) /\ r[t].st = "failed"
        BY <3>1, <4>1, <4>2, Resolution
      <4>4. Fallen(R, t)
        <5>1. PICK d \in r[t].deps : r[d].st = "failed"
          BY <4>3 DEF Fallen
        <5>2. R[d].st = "failed"
          BY <2>1, <2>4, <3>1, <5>1 DEF Idles
        <5> QED BY <3>1, <5>1, <5>2 DEF Fallen
      <4> QED BY <3>1, <4>3, <4>4, Resolution
    <3> QED BY <3>2, <3>3
  <2>6. ASSUME rows[u].deps = {}
        PROVE  IF rows[u].st = "blocked" THEN R[u].st = "blocked" ELSE R[u].st \in {"pending", "ready"}
    <3>1. r[u].deps = {} /\ ~Fallen(r, u) /\ AllDone(r, u)
      BY <1>1, <1>2, <2>6 DEF Fallen, AllDone
    <3>2. R[u].st = IF r[u].st = "blocked" THEN "blocked" ELSE "ready"
      BY <2>3, <3>1, Resolution
    <3>3. IF rows[u].st = "blocked" THEN r[u].st = "blocked" ELSE r[u].st \in {"pending", "ready"}
      BY <1>1, <2>2, <2>6 DEF Told
    <3>4. r[u].st = "blocked" \/ r[u].st = "pending"
      BY <2>1 DEF Idles
    <3> QED BY <3>2, <3>3, <3>4
  <2>7. ASSUME rows[u].deps # {}
        PROVE  R[u].st = resolveTaskStatus(R, u)
    <3>1. r[u].deps # {} /\ r[u].deps \subseteq Task \ {u}
      BY <1>1, <1>2, <1>3, <2>7
    <3>2. (Over(R, u) <=> Over(r, u)) /\ (Fallen(R, u) <=> Fallen(r, u)) /\ (AllDone(R, u) <=> AllDone(r, u))
      BY <2>3, <2>4, <3>1 DEF Over, Fallen, AllDone
    <3> QED BY <2>3, <3>1, <3>2, Resolution
  <2>8. ASSUME NEW t \in Task
        PROVE  /\ ~Idles(rows[t]) => R[t].st = rows[t].st
               /\ Idles(rows[t]) /\ rows[t].deps # {} => Idles(R[t]) \/ R[t].st = resolveTaskStatus(R, t)
               /\ Idles(rows[t]) /\ rows[t].deps = {} =>
                    IF rows[t].st = "blocked" THEN R[t].st = "blocked" ELSE R[t].st \in {"pending", "ready"}
    <3>1. CASE t = u
      BY <2>2, <2>6, <2>7, <3>1
    <3>2. CASE t # u
      <4>1. R[t].st = r[t].st
        BY <2>4, <3>2
      <4> QED BY <2>5, <3>2, <4>1 DEF Told
    <3> QED BY <3>1, <3>2
  <2>9. Told(rows, R)
    BY <2>8 DEF Told
  <2> QED BY <2>9 DEF R
<1> QED BY <1>4, <1>5

\* What is told and settled is told only once.
LEMMA OneResult ==
  ASSUME NEW rows \in Rows, NEW l1 \in Seq(Task), NEW l2 \in Seq(Task), Listed(l1) = Listed(l2),
         Acyclic(rows, Listed(l1)),
         NEW r1 \in Evolved(rows, l1), NEW r2 \in Evolved(rows, l2),
         Told(rows, r1), Told(rows, r2), Steady(r1, Listed(l1)), Steady(r2, Listed(l1))
  PROVE  r1 = r2
<1> DEFINE K == Listed(l1)
           S == {t \in K : r1[t].st # r2[t].st}
<1>1. K \subseteq Task /\ r1 \in Rows /\ r2 \in Rows
  BY ListedTasks DEF Evolved
<1>2. \A t \in Task : /\ r1[t].deps = rows[t].deps /\ r2[t].deps = rows[t].deps
                      /\ r1[t].blind = rows[t].blind /\ r2[t].blind = rows[t].blind
                      /\ r1[t].runs = rows[t].runs /\ r2[t].runs = rows[t].runs
                      /\ r1[t].skip = rows[t].skip /\ r2[t].skip = rows[t].skip
                      /\ t \notin K => r1[t] = r2[t]
  BY DEF Evolved
<1>3. ASSUME NEW t \in K, rows[t].deps \cap S = {}
      PROVE  r1[t].st = r2[t].st
  <2>1. t \in Task /\ Fixed(r1, t) /\ Fixed(r2, t) /\ rows[t].deps \subseteq K
    BY <1>1, <1>2 DEF Steady
  <2>2. \A d \in rows[t].deps : r1[d].st = r2[d].st
    BY <1>3, <2>1
  <2>3. CASE ~Idles(rows[t])
    BY <2>1, <2>3 DEF Told
  <2>4. CASE Idles(rows[t]) /\ rows[t].deps = {}
    <3>1. ASSUME NEW r \in {r1, r2}
          PROVE  r[t].st = IF rows[t].st = "blocked" THEN "blocked" ELSE "ready"
      <4>1. /\ r \in Rows /\ r[t].deps = {} /\ Fixed(r, t)
            /\ IF rows[t].st = "blocked" THEN r[t].st = "blocked" ELSE r[t].st \in {"pending", "ready"}
        BY <1>1, <1>2, <2>1, <2>4 DEF Told
      <4>2. r[t].st = "pending" => resolveTaskStatus(r, t) = "ready" /\ canResolveTaskStatus(r, t)
        BY <4>1, Resolution DEF Fallen, AllDone, Idles
      <4>3. r[t].st # "pending"
        BY <2>1, <4>1, <4>2, FixedIs
      <4> QED BY <4>1, <4>3
    <3> QED BY <3>1
  <2>5. CASE Idles(rows[t]) /\ rows[t].deps # {}
    <3>1. ASSUME NEW r \in {r1, r2}
          PROVE  r[t].st = resolveTaskStatus(r, t)
      <4>1. CASE Idles(r[t])
        <5>1. canResolveTaskStatus(r, t) /\ Fixed(r, t) /\ r \in Rows
          BY <1>1, <2>1, <4>1, Resolution
        <5> QED BY <2>1, <5>1, FixedIs
      <4>2. CASE ~Idles(r[t])
        BY <2>1, <2>5, <4>2 DEF Told
      <4> QED BY <4>1, <4>2
    <3>2. (Over(r1, t) <=> Over(r2, t)) /\ (Fallen(r1, t) <=> Fallen(r2, t)) /\ (AllDone(r1, t) <=> AllDone(r2, t))
      BY <1>2, <2>1, <2>2 DEF Over, Fallen, AllDone
    <3>3. resolveTaskStatus(r1, t) = resolveTaskStatus(r2, t)
      BY <1>2, <2>1, <2>5, <3>2, Resolution
    <3> QED BY <3>1, <3>3
  <2> QED BY <2>3, <2>4, <2>5
<1>4. S = {}
  <2> SUFFICES ASSUME S # {} PROVE FALSE
    OBVIOUS
  <2>1. PICK t \in S : rows[t].deps \cap S = {}
    BY DEF Acyclic
  <2> QED BY <1>3, <2>1
<1>5. ASSUME NEW t \in Task
      PROVE  r1[t] = r2[t]
  <2>1. CASE t \notin K
    BY <1>2, <2>1
  <2>2. CASE t \in K
    <3>1. r1[t].st = r2[t].st
      BY <1>4, <2>2
    <3>2. r1[t] \in RowType /\ r2[t] \in RowType
      BY <1>1 DEF Rows
    <3> QED BY <1>2, <3>1, <3>2 DEF RowType
  <2> QED BY <2>1, <2>2
<1> QED BY <1>1, <1>5 DEF Rows

\* Two orders of the same tasks.
LEMMA SameResult ==
  ASSUME NEW rows \in Rows, NEW l1 \in Seq(Task), NEW l2 \in Seq(Task), Listed(l1) = Listed(l2),
         Entered(rows, Listed(l1)), Acyclic(rows, Listed(l1)), NoRevival(rows), MaxSweeps >= Cardinality(Task)
  PROVE  Settle(rows, l1) = Settle(rows, l2)
<1>1. ASSUME NEW l \in {l1, l2}
      PROVE  /\ Settle(rows, l) \in Evolved(rows, l) /\ Told(rows, Settle(rows, l))
             /\ Steady(Settle(rows, l), Listed(l1))
  <2> DEFINE Good == {r \in Evolved(rows, l) : Told(rows, r)}
  <2>1. l \in Seq(Task) /\ Listed(l) = Listed(l1) /\ Listed(l) \subseteq Task
    BY ListedTasks
  <2>2. rows \in Good
    <3>1. rows \in Evolved(rows, l)
      BY <2>1, Evolves
    <3>2. \A t \in Task : Idles(rows[t]) /\ rows[t].st # "blocked" => rows[t].st = "pending"
      BY DEF Idles
    <3> QED BY <3>1, <3>2 DEF Told
  <2>3. ASSUME NEW r \in Good, NEW u \in Listed(l)
        PROVE  Visit(r, u) \in Good
    <3>1. u \notin rows[u].deps
      <4>1. {u} \in SUBSET Listed(l1) /\ {u} # {}
        BY <2>1
      <4>2. \E t \in {u} : rows[t].deps \cap {u} = {}
        BY <4>1 DEF Acyclic
      <4> QED BY <4>2
    <3>2. Told(rows, Visit(r, u))
      BY <2>1, <3>1, ToldVisit
    <3>3. Visit(r, u) \in Evolved(rows, l)
      BY <2>1, Evolves
    <3> QED BY <3>2, <3>3
  <2> HIDE DEF Good
  <2>4. Settle(rows, l) \in Good
    BY <2>1, <2>2, <2>3, LoopKeeps
  <2>5. Within(rows, Listed(l))
    BY <2>1 DEF Entered, Within
  <2>6. Steady(Settle(rows, l), Listed(l))
    BY <2>1, <2>5, LoopSettles
  <2> QED BY <2>1, <2>4, <2>6 DEF Good
<1> DEFINE r1 == Settle(rows, l1)
           r2 == Settle(rows, l2)
<1>2. /\ r1 \in Evolved(rows, l1) /\ Told(rows, r1) /\ Steady(r1, Listed(l1))
      /\ r2 \in Evolved(rows, l2) /\ Told(rows, r2) /\ Steady(r2, Listed(l1))
  BY <1>1
<1> HIDE DEF r1, r2
<1>3. r1 = r2
  BY <1>2, OneResult
<1> QED BY <1>3 DEF r1, r2

\* A permutation of the tasks lists them all.
LEMMA Permuted ==
  ASSUME NEW K \in SUBSET Task, NEW list \in SetToSeqs(K)
  PROVE  list \in Seq(Task) /\ Listed(list) = K
<1> DEFINE n == Cardinality(K)
<1>1. IsFiniteSet(K) /\ n \in Nat
  BY SmallSets
<1>2. list \in [1 .. n -> K] /\ \A i, j \in 1 .. n : i # j => list[i] # list[j]
  BY DEF SetToSeqs
<1> HIDE DEF n
<1>3. Cardinality(1 .. n) = n
  <2>1. Cardinality(1 .. n) = IF 1 > n THEN 0 ELSE n - 1 + 1
    BY <1>1, FS_Interval
  <2> QED BY <1>1, <2>1
<1>4. list \in Injection(1 .. n, K)
  BY <1>2 DEF Injection, IsInjective
<1>5. list \in Surjection(1 .. n, K)
  BY <1>1, <1>3, <1>4, FS_Injection DEF n
<1>6. Listed(list) = K
  BY <1>2, <1>5 DEF Surjection, Listed
<1>7. list \in Seq(Task)
  BY <1>1, <1>2
<1> QED BY <1>6, <1>7

--------------------------------------------------------------------------------
(* The theorems.                                                               *)

LEMMA InvStep ==
  ASSUME Inv, [Next]_vars
  PROVE  Inv'
<1>1. CASE UNCHANGED vars
  BY <1>1 DEF Inv, vars, Known, Listed, Entered
<1>2. CASE Next
  <2>1. (Evaluates \/ Quiets) /\ edits' \in 0 .. MaxEdits
    BY <1>2, Steps
  <2>2. CASE Evaluates
    <3>1. PICK rows, list : Leaves(rows, list) /\ order' = list /\ evaluateTaskDAG(rows, list)
      BY <2>2 DEF Evaluates
    <3>2. /\ list \in Seq(Task) /\ IsInjective(list) /\ rows \in Rows /\ Entered(rows, Listed(list))
      BY <3>1 DEF Leaves
    <3>3. task' \in Rows /\ Entered(task', Listed(order'))
      BY <3>1, <3>2, Evaluated DEF evaluateTaskDAG
    <3>4. returned' \in BOOLEAN
      BY <3>1 DEF evaluateTaskDAG
    <3>5. spec' \in SpecStatuses
      BY <3>1, Reconciles DEF evaluateTaskDAG, Inv
    <3> QED BY <2>1, <3>1, <3>2, <3>3, <3>4, <3>5 DEF Inv, Known
  <2>3. CASE Quiets
    <3>1. PICK rows : /\ Leaves(rows, order) /\ task' = rows /\ UNCHANGED order /\ UNCHANGED returned
                      /\ spec' \in {spec, "approved"}
      BY <2>3 DEF Quiets
    <3>2. spec' \in SpecStatuses
      BY <3>1 DEF Inv, SpecStatuses
    <3> QED BY <2>1, <3>1, <3>2 DEF Inv, Known, Leaves
  <2> QED BY <2>1, <2>2, <2>3
<1> QED BY <1>1, <1>2

LEMMA InvInit ==
  ASSUME Init
  PROVE  Inv
<1>1. PICK rows, list, now :
           /\ list \in Seq(Task) /\ IsInjective(list) /\ rows \in Rows /\ Entered(rows, Listed(list))
           /\ now \in SpecStatuses
           /\ order = list /\ task = Settle(rows, list) /\ returned = (Sweep(Settle(rows, list), list) = Settle(rows, list))
           /\ spec = reconcileSpecStatus(Settle(rows, list), list, now) /\ edits = 0
  BY Initially
<1>2. spec \in SpecStatuses
  BY <1>1, Reconciles
<1>3. task \in Rows /\ Entered(task, Listed(list))
  BY <1>1, Evaluated
<1>4. returned \in BOOLEAN /\ edits \in 0 .. MaxEdits
  BY <1>1, BoundsAssumption
<1> QED BY <1>1, <1>2, <1>3, <1>4 DEF Inv, Known

LEMMA Invariance == Spec => []Inv
<1>1. Init => Inv
  BY InvInit
<1>2. Inv /\ [Next]_vars => Inv'
  BY InvStep
<1> QED BY <1>1, <1>2, PTL DEF Spec

\* A task has a row exactly when the spec lists it, depends on listed tasks only,
\* and the spec lists it once: through imports, edits, runs and evaluations.
THEOREM TypeCorrect == Spec => []TypeOK
<1>1. Inv => TypeOK
  <2> SUFFICES ASSUME Inv PROVE TypeOK
    OBVIOUS
  <2>1. ASSUME NEW t \in Task
        PROVE  /\ task[t].st \in Statuses \cup {"absent"}
               /\ (task[t].st = "absent") = (t \notin Known)
               /\ task[t].deps \subseteq Known
               /\ Len(task[t].runs) <= MaxRuns /\ ToSet(task[t].runs) \subseteq Outcomes
               /\ {task[t].blind, task[t].skip} \subseteq BOOLEAN
    <3>1. task[t] \in RowType
      BY DEF Inv, Rows
    <3>2. /\ task[t].st \in Statuses \cup {"absent"} /\ task[t].blind \in BOOLEAN /\ task[t].skip \in BOOLEAN
          /\ task[t].runs \in Seq(Outcomes)
      BY <3>1, RowFields
    <3>3. ToSet(task[t].runs) \subseteq Outcomes
      BY <3>2 DEF ToSet
    <3>4. (task[t].st = "absent") = (t \notin Known) /\ task[t].deps \subseteq Known /\ Len(task[t].runs) <= MaxRuns
      BY DEF Inv, Entered
    <3> QED BY <3>2, <3>3, <3>4
  <2> QED BY <2>1 DEF Inv, TypeOK, SpecStatuses
<1> QED BY <1>1, Invariance, PTL

\* A retry is never stranded (issue #243), whatever the imports and the sweeps: an
\* evaluation that ends opens the spec of a task that is queued again, and what a
\* handler writes without an evaluation queues nobody.
THEOREM RetriesReopen == Spec => []QueuedRetryReopens
<1>1. Init => QueuedRetryReopens
  <2> SUFFICES ASSUME Init PROVE QueuedRetryReopens
    OBVIOUS
  <2>1. PICK list, now : /\ now \in SpecStatuses /\ order = list
                         /\ spec = reconcileSpecStatus(task, list, now)
    BY Initially
  <2> QED BY <2>1, Reconciles DEF QueuedRetryReopens, Known, Queued
<1>2. Inv /\ QueuedRetryReopens /\ [Next]_vars => QueuedRetryReopens'
  <2> SUFFICES ASSUME Inv, QueuedRetryReopens, [Next]_vars PROVE QueuedRetryReopens'
    OBVIOUS
  <2>1. CASE UNCHANGED vars
    BY <2>1 DEF QueuedRetryReopens, vars, Known, Listed
  <2>2. CASE Next /\ Evaluates
    <3>1. PICK rows, list : order' = list /\ evaluateTaskDAG(rows, list)
      BY <2>2 DEF Evaluates
    <3>2. returned' => spec' = reconcileSpecStatus(task', list, spec)
      BY <3>1 DEF evaluateTaskDAG
    <3>3. spec \in SpecStatuses
      BY DEF Inv
    <3> QED BY <3>1, <3>2, <3>3, Reconciles DEF QueuedRetryReopens, Known, Queued
  <2>3. CASE Next /\ Quiets
    <3>1. /\ UNCHANGED order /\ UNCHANGED returned /\ spec' \in {spec, "approved"}
          /\ \A t \in Task : Queued(task'[t]) => Queued(task[t])
      BY <2>3 DEF Quiets
    <3>2. Known' = Known /\ Known \subseteq Task
      BY <3>1, ListedTasks DEF Known, Inv
    <3> QED BY <3>1, <3>2 DEF QueuedRetryReopens, Queued
  <2> QED BY <2>1, <2>2, <2>3, Steps
<1> QED BY <1>1, <1>2, Invariance, PTL DEF Spec

\* Without cycles, with sweeps enough.
Ordered == /\ Acyclic(task, Known) /\ returned
           /\ \A t \in Task : ~Forgotten(task, t)

LEMMA OrderedAlways ==
  ASSUME AcyclicImports, MaxSweeps >= Cardinality(Task)
  PROVE  Spec => []Ordered
<1>1. ASSUME Init PROVE Ordered
  <2>1. PICK rows, list :
             /\ list \in Seq(Task) /\ rows \in Rows /\ Entered(rows, Listed(list)) /\ Acyclic(rows, Listed(list))
             /\ order = list /\ task = Settle(rows, list) /\ returned = (Sweep(Settle(rows, list), list) = Settle(rows, list))
    BY <1>1, Initially
  <2> QED BY <2>1, Evaluated, EvaluationSettles DEF Ordered, Known
<1>2. ASSUME Inv, Ordered, [Next]_vars PROVE Ordered'
  <2>1. CASE UNCHANGED vars
    BY <1>2, <2>1 DEF Ordered, vars, Known, Listed, Acyclic, Forgotten, AllDone
  <2>2. CASE Next /\ Evaluates
    <3>1. PICK rows, list : Leaves(rows, list) /\ order' = list /\ evaluateTaskDAG(rows, list)
      BY <2>2 DEF Evaluates
    <3>2. /\ list \in Seq(Task) /\ rows \in Rows /\ Entered(rows, Listed(list)) /\ Acyclic(rows, Listed(list))
      BY <1>2, <3>1 DEF Leaves, Ordered
    <3>3. /\ task' = Settle(rows, list) /\ returned' = (Sweep(Settle(rows, list), list) = Settle(rows, list))
      BY <3>1 DEF evaluateTaskDAG
    <3> DEFINE R == Settle(rows, list)
    <3>4. Acyclic(R, Listed(list)) /\ Sweep(R, list) = R /\ \A t \in Task : ~Forgotten(R, t)
      BY <3>2, Evaluated, EvaluationSettles
    <3> HIDE DEF R
    <3> QED BY <3>1, <3>3, <3>4 DEF Ordered, Known, R
  <2>3. CASE Next /\ Quiets
    <3>1. PICK rows : /\ Leaves(rows, order) /\ task' = rows /\ UNCHANGED order /\ UNCHANGED returned
                      /\ \A t \in Task : Forgotten(rows, t) => Forgotten(task, t)
      BY <1>2, <2>3 DEF Quiets, Ordered
    <3>2. Acyclic(rows, Known)
      BY <1>2, <3>1 DEF Leaves, Known, Ordered
    <3> QED BY <1>2, <3>1, <3>2 DEF Ordered, Known
  <2> QED BY <1>2, <2>1, <2>2, <2>3, Steps
<1> QED BY <1>1, <1>2, Invariance, PTL DEF Spec

\* Every evaluation ends: whatever the edits, failures and retries before it, no two
\* tasks flip each other for ever.
THEOREM EvaluationEnds ==
  ASSUME AcyclicImports, MaxSweeps >= Cardinality(Task)
  PROVE  Spec => []EvaluationReturns
<1>1. Ordered => EvaluationReturns
  BY DEF Ordered, EvaluationReturns
<1> QED BY <1>1, OrderedAlways, PTL

\* A task whose dependencies are all done does not wait, unless the dispatcher found
\* a prerequisite missing: every handler that could free it ends in an evaluation
\* that reaches it, and the refusal of a dependency that closes a cycle takes none away.
THEOREM NobodyIsForgotten ==
  ASSUME AcyclicImports, MaxSweeps >= Cardinality(Task)
  PROVE  Spec => []NobodyForgotten
<1>1. Inv /\ Ordered => NobodyForgotten
  <2> SUFFICES ASSUME Inv, Ordered PROVE NobodyForgotten
    OBVIOUS
  <2>1. Known \subseteq Task
    BY ListedTasks DEF Inv, Known
  <2> QED BY <2>1 DEF Ordered, Forgotten, NobodyForgotten, Idles, AllDone
<1> QED BY <1>1, Invariance, OrderedAlways, PTL

\* What an evaluation finds does not depend on the order in which the tasks were
\* created, once no failed task is about to come back: only idle tasks move, each to
\* where its dependencies put it, and of two results the first to differ along the
\* dependencies would contradict that.
THEOREM ResultIsUnique ==
  ASSUME AcyclicImports, MaxSweeps >= Cardinality(Task)
  PROVE  Spec => []OrderIrrelevant
<1>1. Inv /\ Ordered => OrderIrrelevant
  <2> SUFFICES ASSUME Inv, Ordered, ~Revivable, NEW list \in SetToSeqs(Known)
               PROVE  Settle(task, list) = Settle(task, order)
    BY DEF OrderIrrelevant
  <2>1. Known \subseteq Task
    BY ListedTasks DEF Inv, Known
  <2>2. list \in Seq(Task) /\ Listed(list) = Known
    BY <2>1, Permuted
  <2>3. NoRevival(task)
    <3>1. \A t \in Task : task[t].st = "failed" => t \in Known
      BY DEF Inv, Entered
    <3> QED BY <3>1 DEF NoRevival, Revivable
  <2> QED BY <2>2, <2>3, SameResult DEF Inv, Ordered, Known
<1> QED BY <1>1, Invariance, OrderedAlways, PTL
================================================================================
