-------------------------- MODULE Dispatcher_proofs --------------------------
(***************************************************************************)
(* For any tasks, agents, slots, retries, runs, crashes and operators: the   *)
(* types, the charged retries, the routing of completions and, where the     *)
(* cycle is the only one to dispatch, the slots, the agents and the tasks.    *)
(***************************************************************************)
EXTENDS Dispatcher, FiniteSetTheorems, TLAPS

\* Runs are numbered as they are created.
Created == {i \in Run : run[i].st # "absent"}
Numbered == \E n \in 0 .. MaxRuns : Created = 1 .. n

\* Only runs that exist are dispatched, have a worker, a session or an end of one,
\* and what was routed was handled, and is not being handled again.
Sound(m, e) ==
  /\ m \in Memory
  /\ e \in [Run -> EndCalls \cup {NoCall}]
  /\ m.active \cup m.ending \cup m.fallback \subseteq Created
  /\ m.routed \subseteq m.handled
  /\ m.routed \cap m.finishing = {}
  /\ \A i \in Run : e[i].pc # "none" => i \in Created /\ i \in m.finishing

Known ==
  /\ \A i \in Run : dpc[i] # "none" \/ worker[i] # "none" => i \in Created
  /\ Sound(mem, epc)

\* The cycle waits for a run, with a slot for it.
Waits ==
  /\ cyc.pc = "gcMark" => cyc.run \in Run
  /\ cyc.pc = "await" => cyc.slots > 0

Kept == TypeOK /\ Numbered /\ Known /\ Waits

\* What a step does to the rows of the runs, unless it dispatches one ...
RowsKept ==
  \A i \in Run : /\ run'[i].st = "absent" <=> run[i].st = "absent"
                 /\ run[i].st # "absent" =>
                      /\ run'[i].task = run[i].task /\ run'[i].agent = run[i].agent
                      /\ run'[i].st = "live" => run[i].st = "live"

\* ... to the retries that its task is charged ...
RetriesKept == \A t \in Task : task'[t].retries = task[t].retries
Charges(i) ==
  /\ run[i].st = "live" /\ run'[i].st # "live"
  /\ \A t \in Task : task'[t].retries = task[t].retries + IF t = run[i].task THEN 1 ELSE 0
Charged == RetriesKept \/ \E i \in Run : Charges(i)

\* ... and to the sessions, the spawns and the plan of the cycle.
Calm ==
  /\ mem'.active \subseteq mem.active
  /\ \A i \in Run : dpc'[i] # "none" => dpc[i] # "none"
  /\ cyc'.pc \in {"loop", "await"} => /\ cyc'.pc = cyc.pc /\ cyc'.run = cyc.run
                                      /\ cyc'.slots = cyc.slots /\ cyc'.tasks \subseteq cyc.tasks
  /\ cyc.pc = "await" => cyc'.pc = "await" \/ \A i \in Run : dpc'[i] = "none"

--------------------------------------------------------------------------------
(* Rows.                                                                       *)

\* A run that exists has a row with a task; one that is ended keeps the rest of it.
LEMMA Rowed ==
  ASSUME run \in [Run -> Rows \cup {Absent}], NEW i \in Run, i \in Created
  PROVE  run[i] \in Rows /\ run[i].task \in Task
BY DEF Created, Rows, Absent

LEMMA Written ==
  ASSUME run \in [Run -> Rows \cup {Absent}], NEW i \in Run, i \in Created, NEW row \in Rows,
         row.task = run[i].task, row.agent = run[i].agent, row.st = "live" => Live(i),
         run' = [run EXCEPT ![i] = row]
  PROVE  /\ run' \in [Run -> Rows \cup {Absent}]
         /\ RowsKept
         /\ Created' = Created
BY DEF Created, Rows, Absent, RowsKept, Ended, Live

LEMMA RowEnded ==
  ASSUME run \in [Run -> Rows \cup {Absent}], NEW i \in Run, i \in Created, NEW st \in Ended,
         run' = [run EXCEPT ![i].st = st]
  PROVE  /\ run' \in [Run -> Rows \cup {Absent}]
         /\ RowsKept
         /\ Created' = Created
         /\ run'[i].st = st
<1> DEFINE row == [run[i] EXCEPT !.st = st]
<1>1. run[i] \in Rows
  BY Rowed
<1>2. /\ row \in Rows /\ row.task = run[i].task /\ row.agent = run[i].agent
      /\ row.st = st /\ st # "live"
  BY <1>1 DEF Rows, Ended
<1>3. run' = [run EXCEPT ![i] = row]
  OBVIOUS
<1> HIDE DEF row
<1> QED BY <1>2, <1>3, Written

LEMMA RowsUntouched ==
  ASSUME UNCHANGED run
  PROVE  RowsKept /\ Created' = Created
BY DEF RowsKept, Created

\* What is neither a dispatch nor an exit keeps what is known of the runs.
LEMMA StillKnown ==
  ASSUME Kept, Created' = Created, Sound(mem', epc'),
         \A i \in Run : dpc'[i] # "none" \/ worker'[i] # "none" => i \in Created
  PROVE  Numbered' /\ Known'
BY DEF Kept, Known, Numbered, Sound

--------------------------------------------------------------------------------
(* The end of a session.                                                       *)

Leases == [Run -> {"none", "active", "released", "expired"}]

LEMMA ReleasedTyped ==
  ASSUME NEW i \in Run, lease \in Leases
  PROVE  Released(i) \in Leases
BY DEF Released, Leases

\* The finally block leaves a sound memory, whatever the try block did.
LEMMA ReturnKeeps ==
  ASSUME NEW i \in Run, NEW m \in Memory, NEW had \in BOOLEAN, NEW ok \in BOOLEAN,
         lease \in Leases, epc \in [Run -> EndCalls \cup {NoCall}],
         m.active \cup m.ending \cup m.fallback \subseteq Created,
         m.routed \subseteq m.handled \cup (IF ok THEN {i} ELSE {}),
         m.routed \cap m.finishing \subseteq {i},
         \A j \in Run \ {i} : epc[j].pc # "none" => j \in Created /\ j \in m.finishing,
         EndReturns(i, m, had, ok)
  PROVE  Sound(mem', epc') /\ mem'.active \subseteq m.active /\ lease' \in Leases
<1>1. /\ mem' \in Memory
      /\ mem'.active \subseteq m.active /\ mem'.ending = m.ending /\ mem'.fallback = m.fallback
      /\ mem'.routed = m.routed /\ m.handled \subseteq mem'.handled /\ (ok => i \in mem'.handled)
      /\ mem'.finishing = m.finishing \ {i}
  BY DEF EndReturns, Memory
<1>2. /\ epc' \in [Run -> EndCalls \cup {NoCall}]
      /\ epc'[i].pc = "none"
      /\ \A j \in Run \ {i} : epc'[j] = epc[j]
  BY DEF EndReturns, NoCall
<1>3. lease' \in Leases
  BY ReleasedTyped DEF EndReturns
<1>4. Sound(mem', epc')
  BY <1>1, <1>2 DEF Sound
<1> QED BY <1>1, <1>3, <1>4

\* A crash is charged to the task of a run that was live.
LEMMA RetryCharges ==
  ASSUME TypeOK, NEW i \in Run, Live(i), retryOrFail(i)
  PROVE  /\ run' \in [Run -> Rows \cup {Absent}] /\ RowsKept /\ Created' = Created
         /\ task' \in [Task -> [st : {"ready", "active", "blocked", "failed", "done"},
                                retries : Nat, backoff : BOOLEAN]]
         /\ Charges(i)
<1> DEFINE t == run[i].task
           n == task[t].retries + 1
           TaskRows == [st : {"ready", "active", "blocked", "failed", "done"},
                        retries : Nat, backoff : BOOLEAN]
<1>1. run \in [Run -> Rows \cup {Absent}] /\ task \in [Task -> TaskRows]
  BY DEF TypeOK
<1>2. i \in Created
  BY DEF Live, Created
<1>3. t \in Task
  BY <1>1, <1>2, Rowed
<1>4. n \in Nat /\ n = task[t].retries + 1
  BY <1>1, <1>3
<1>5. \E st \in Ended : run' = [run EXCEPT ![i].st = st]
  BY DEF retryOrFail, Ended
<1>6. /\ run' \in [Run -> Rows \cup {Absent}] /\ RowsKept /\ Created' = Created
      /\ run'[i].st # "live"
  BY <1>1, <1>2, <1>5, RowEnded DEF Ended
<1>7. \/ task' = [task EXCEPT ![t] = [st |-> "ready", retries |-> n, backoff |-> TRUE]]
      \/ task' = [task EXCEPT ![t] = [st |-> "failed", retries |-> n, backoff |-> FALSE]]
      \/ task' = [task EXCEPT ![t].retries = n, ![t].backoff = FALSE]
  BY DEF retryOrFail
<1> HIDE DEF n
<1>8. /\ task' \in [Task -> TaskRows] /\ task'[t].retries = n
      /\ \A u \in Task \ {t} : task'[u] = task[u]
  <2>1. CASE task' = [task EXCEPT ![t] = [st |-> "ready", retries |-> n, backoff |-> TRUE]]
    BY <1>1, <1>3, <1>4, <2>1
  <2>2. CASE task' = [task EXCEPT ![t] = [st |-> "failed", retries |-> n, backoff |-> FALSE]]
    BY <1>1, <1>3, <1>4, <2>2
  <2>3. CASE task' = [task EXCEPT ![t].retries = n, ![t].backoff = FALSE]
    <3> DEFINE row == [task[t] EXCEPT !.retries = n, !.backoff = FALSE]
    <3>0. n \in Nat /\ \E old \in TaskRows : task[t] = old
      BY <1>1, <1>3, <1>4
    <3>1. row \in TaskRows /\ row.retries = n
      BY <3>0
    <3>a. DOMAIN task = Task
      BY <1>1
    <3> HIDE DEF TaskRows
    <3>2. task' = [task EXCEPT ![t] = row]
      BY <1>3, <2>3, <3>a
    <3> HIDE DEF row
    <3> QED BY <1>1, <1>3, <3>1, <3>2
  <2> QED BY <1>7, <2>1, <2>2, <2>3
<1>9. Charges(i)
  BY <1>1, <1>3, <1>4, <1>6, <1>8 DEF Charges, Live
<1> QED BY <1>6, <1>8, <1>9

\* What the end of a session leaves of the rows, the tasks and the memory.
Ending ==
  /\ run' \in [Run -> Rows \cup {Absent}] /\ RowsKept /\ Created' = Created
  /\ task' \in [Task -> [st : {"ready", "active", "blocked", "failed", "done"},
                         retries : Nat, backoff : BOOLEAN]]
  /\ Charged
  /\ lease' \in Leases
  /\ Sound(mem', epc')

LEMMA NothingWritten ==
  ASSUME TypeOK, UNCHANGED <<run, task>>
  PROVE  /\ run' \in [Run -> Rows \cup {Absent}] /\ RowsKept /\ Created' = Created
         /\ task' \in [Task -> [st : {"ready", "active", "blocked", "failed", "done"},
                                retries : Nat, backoff : BOOLEAN]]
         /\ Charged
BY RowsUntouched DEF TypeOK, Charged, RetriesKept

LEMMA HandlingKeeps ==
  ASSUME TypeOK, NEW i \in Run, NEW exit \in Exits \cup {"killed"}, NEW m,
         Sound(m, epc), i \in Created, i \notin m.handled \cup m.finishing,
         handleSessionEnd(i, exit, m)
  PROVE  Ending /\ mem'.active \subseteq m.active
<1> DEFINE why == IF i \in m.fallback THEN "completed" ELSE exit
           had == i \in m.active
           entered == [m EXCEPT !.fallback = @ \ {i}, !.finishing = @ \cup {i}]
           Call(pc, live) == [pc |-> pc, why |-> why, had |-> had, live |-> live]
           Awaits(pc, live) == /\ mem' = entered
                               /\ epc' = [epc EXCEPT ![i] = Call(pc, live)]
                               /\ UNCHANGED lease
<1>1. why \in Exits \cup {"killed"} /\ had \in BOOLEAN
  BY DEF Exits
<1>2. lease \in Leases /\ m \in Memory
  BY DEF TypeOK, Leases, Sound
<1>3. /\ entered \in Memory /\ entered.active = m.active /\ entered.ending = m.ending
      /\ entered.fallback \subseteq m.fallback /\ entered.routed = m.routed
      /\ entered.handled = m.handled /\ entered.finishing = m.finishing \cup {i}
  BY <1>2 DEF Memory
<1>4. i \notin m.routed
  BY DEF Sound
<1>5. \/ /\ Live(i) /\ retryOrFail(i) /\ Awaits("evidence", FALSE)
      \/ /\ EndReturns(i, entered, had, FALSE) /\ UNCHANGED <<run, task>>
      \/ /\ Awaits("limits", TRUE) /\ UNCHANGED <<run, task>>
      \/ /\ Awaits("evidence", Live(i)) /\ UNCHANGED <<run, task>>
  BY DEF handleSessionEnd
<1> HIDE DEF why, had, entered
<1>6. ASSUME NEW pc \in {"limits", "evidence"}, NEW live \in BOOLEAN, Awaits(pc, live)
      PROVE  lease' \in Leases /\ Sound(mem', epc') /\ mem'.active \subseteq m.active
  <2>1. Call(pc, live) \in EndCalls
    BY <1>1 DEF EndCalls, Exits
  <2>2. /\ epc' \in [Run -> EndCalls \cup {NoCall}]
        /\ \A j \in Run \ {i} : epc'[j] = epc[j]
    BY <1>6, <2>1 DEF Sound
  <2> QED BY <1>2, <1>3, <1>4, <1>6, <2>2 DEF Sound
<1>7. CASE Live(i) /\ retryOrFail(i) /\ Awaits("evidence", FALSE)
  BY <1>6, <1>7, RetryCharges DEF Ending, Charged
<1>8. CASE EndReturns(i, entered, had, FALSE) /\ UNCHANGED <<run, task>>
  <2>0. /\ entered.active \cup entered.ending \cup entered.fallback \subseteq Created
        /\ entered.routed \subseteq entered.handled
        /\ entered.routed \cap entered.finishing = {}
        /\ epc \in [Run -> EndCalls \cup {NoCall}]
        /\ \A j \in Run : epc[j].pc # "none" => j \in Created /\ j \in entered.finishing
    BY <1>3, <1>4 DEF Sound
  <2>1. Sound(mem', epc') /\ mem'.active \subseteq entered.active /\ lease' \in Leases
    <3>1. /\ FALSE \in BOOLEAN /\ entered \in Memory /\ EndReturns(i, entered, had, FALSE)
          /\ entered.routed \subseteq entered.handled \cup (IF FALSE THEN {i} ELSE {})
          /\ entered.routed \cap entered.finishing \subseteq {i}
      BY <1>3, <1>8, <2>0
    <3> QED BY <1>1, <1>2, <2>0, <3>1, ReturnKeeps, Zenon
  <2> QED BY <1>3, <1>8, <2>1, NothingWritten DEF Ending
<1>9. CASE Awaits("limits", TRUE) /\ UNCHANGED <<run, task>>
  BY <1>6, <1>9, NothingWritten DEF Ending
<1>10. CASE Awaits("evidence", Live(i)) /\ UNCHANGED <<run, task>>
  <2>1. Live(i) \in BOOLEAN
    BY DEF Live
  <2> QED BY <1>6, <1>10, <2>1, NothingWritten DEF Ending
<1> QED BY <1>5, <1>7, <1>8, <1>9, <1>10

LEMMA EndKeeps ==
  ASSUME TypeOK, NEW i \in Run, NEW exit \in Exits \cup {"killed"}, NEW m,
         Sound(m, epc), i \in Created, sessionEnd(i, exit, m)
  PROVE  Ending /\ mem'.active \subseteq m.active
<1>1. CASE i \in m.handled \cup m.finishing
  BY <1>1, NothingWritten DEF sessionEnd, Ending, TypeOK, Leases, Sound
<1>2. CASE i \notin m.handled \cup m.finishing
  BY <1>2, HandlingKeeps DEF sessionEnd
<1> QED BY <1>1, <1>2


--------------------------------------------------------------------------------
(* What the other variables may do, and a step as the sum of its parts.         *)

Workers == [Run -> {"none", "running", "killed"} \cup Exits]
Cycles == [pc : Phases, runs : SUBSET Run, closed : SUBSET Run, tasks : SUBSET Task,
           slots : Nat, run : Run \cup {0}]

Settling ==
  /\ beat' \in [Run -> 0 .. 2]
  /\ dpc' \in [Run -> {"none", "mcp", "prep", "spawn", "unwind"}]
  /\ \A i \in Run : dpc'[i] # "none" => dpc[i] # "none"
  /\ kpc' \in [Run -> {"none", "kill", "mark"}]
  /\ worker' \in Workers
  /\ \A i \in Run : worker'[i] # "none" => worker[i] # "none" \/ dpc[i] # "none"
  /\ crashes' \in Nat

Planning ==
  /\ cyc' \in Cycles
  /\ Waits'
  /\ cyc'.pc \in {"loop", "await"} => /\ cyc'.pc = cyc.pc /\ cyc'.run = cyc.run
                                      /\ cyc'.slots = cyc.slots /\ cyc'.tasks \subseteq cyc.tasks
  /\ cyc.pc = "await" => cyc'.pc = "await" \/ \A i \in Run : dpc'[i] = "none"

Harmless == Kept' /\ RowsKept /\ Charged /\ Calm

LEMMA SumOfParts ==
  ASSUME Kept, Ending, mem'.active \subseteq mem.active, Settling, Planning
  PROVE  Harmless
<1>1. /\ \A i \in Run : dpc'[i] # "none" \/ worker'[i] # "none" => i \in Created
      /\ Created' = Created /\ Sound(mem', epc')
  BY DEF Kept, Known, Settling, Ending
<1>2. Numbered' /\ Known'
  BY <1>1, StillKnown
<1>3. mem' \in Memory /\ epc' \in [Run -> EndCalls \cup {NoCall}]
  BY <1>1 DEF Sound
<1>4. TypeOK'
  BY <1>3 DEF Ending, Settling, Planning, TypeOK, Leases, Workers, Cycles
<1>5. Kept'
  BY <1>2, <1>4 DEF Kept, Planning
<1>6. Calm
  BY DEF Calm, Settling, Planning
<1> QED BY <1>5, <1>6 DEF Harmless, Ending

LEMMA NothingEnds ==
  ASSUME Kept, UNCHANGED <<run, task, lease, mem, epc>>
  PROVE  Ending /\ mem'.active \subseteq mem.active
BY NothingWritten DEF Kept, TypeOK, Known, Sound, Ending, Leases

LEMMA NothingSettles ==
  ASSUME Kept, UNCHANGED <<beat, dpc, kpc, worker, crashes>>
  PROVE  Settling
BY DEF Kept, TypeOK, Settling, Workers

LEMMA NothingPlanned ==
  ASSUME Kept, UNCHANGED cyc
  PROVE  Planning
BY DEF Kept, TypeOK, Planning, Cycles, Waits

\* A worker that is killed does not appear anywhere.
LEMMA KilledTyped ==
  ASSUME worker \in Workers, NEW i \in Run, NEW exit \in Exits \cup {"killed"}
  PROVE  /\ Killed(i, exit) \in Workers
         /\ \A j \in Run : Killed(i, exit)[j] # "none" => worker[j] # "none"
BY DEF Killed, Workers, Exits

LEMMA WorkerSettles ==
  ASSUME Kept, UNCHANGED <<beat, dpc, kpc, crashes>>, NEW i \in Run,
         \E exit \in Exits \cup {"killed"} : worker' \in {worker, Killed(i, exit)}
  PROVE  Settling
BY KilledTyped DEF Kept, TypeOK, Settling, Workers

--------------------------------------------------------------------------------
(* Session ends, fallbacks and nudges.                                         *)

LEMMA SessionExitKeeps ==
  ASSUME Kept, NEW i \in Run, SessionExit(i)
  PROVE  Harmless
<1> DEFINE m == [mem EXCEPT !.bound = @ \ {i}]
<1>1. /\ worker' = [worker EXCEPT ![i] = "none"] /\ UNCHANGED <<beat, cyc, dpc, kpc, crashes>>
      /\ worker[i] \in Exits \cup {"killed"} /\ sessionEnd(i, worker[i], m)
  BY DEF SessionExit
<1>2. Sound(m, epc) /\ m.active = mem.active
  BY DEF Kept, Known, Sound, Memory
<1>3. i \in Created /\ TypeOK
  BY <1>1 DEF Kept, Known, Exits
<1> HIDE DEF m
<1>4. Ending /\ mem'.active \subseteq mem.active
  BY <1>1, <1>2, <1>3, EndKeeps
<1>5. Settling
  BY <1>1 DEF Kept, TypeOK, Settling, Workers
<1> QED BY <1>1, <1>4, <1>5, NothingPlanned, SumOfParts

LEMMA EndSessionKeeps ==
  ASSUME Kept, NEW i \in Created, NEW m, Sound(m, epc), m.active = mem.active,
         endSession(i, m)
  PROVE  Harmless
<1> DEFINE armed == IF i \in m.routed THEN m ELSE [m EXCEPT !.fallback = @ \cup {i}]
           again == [armed EXCEPT !.handled = @ \ {i}]
<1>1. i \in Run /\ TypeOK
  BY DEF Created, Kept
<1>2. Settling
  <2>1. worker' \in {worker, Killed(i, "completed")} /\ UNCHANGED <<beat, dpc, kpc, crashes>>
    BY DEF endSession
  <2> QED BY <1>1, <2>1, WorkerSettles DEF Exits
<1>3. Planning
  BY NothingPlanned DEF endSession
<1>4. CASE i \in m.routed
  <2>1. mem' = m /\ UNCHANGED <<run, task, lease, epc>>
    BY <1>4 DEF endSession
  <2>2. Ending /\ mem'.active \subseteq mem.active
    BY <1>1, <2>1, NothingWritten DEF Ending, TypeOK, Leases
  <2> QED BY <1>2, <1>3, <2>2, SumOfParts
<1>5. CASE i \notin m.routed
  <2>1. sessionEnd(i, "completed", again)
    BY <1>5 DEF endSession
  <2>2. /\ again \in Memory /\ again.active = m.active /\ again.ending = m.ending
        /\ again.fallback = m.fallback \cup {i} /\ again.handled = m.handled \ {i}
        /\ again.routed = m.routed /\ again.finishing = m.finishing
    BY <1>1, <1>5 DEF Sound, Memory
  <2> HIDE DEF armed, again
  <2>3. Sound(again, epc)
    BY <1>5, <2>2 DEF Sound
  <2>4. Ending /\ mem'.active \subseteq mem.active
    BY <1>1, <2>1, <2>2, <2>3, EndKeeps DEF Exits
  <2> QED BY <1>2, <1>3, <2>4, SumOfParts
<1> QED BY <1>4, <1>5

LEMMA ScheduledKeeps ==
  ASSUME Kept, NEW i \in Run, ScheduledEnd(i)
  PROVE  Harmless
<1> DEFINE m == [mem EXCEPT !.ending = @ \ {i}]
<1>1. Sound(m, epc) /\ m.active = mem.active
  BY DEF Kept, Known, Sound, Memory
<1>2. i \in Created /\ endSession(i, m)
  BY DEF ScheduledEnd, Kept, Known, Sound
<1> HIDE DEF m
<1> QED BY <1>1, <1>2, EndSessionKeeps

LEMMA FallbackKeeps ==
  ASSUME Kept, NEW i \in Run, CompletionFallback(i)
  PROVE  Harmless
<1> DEFINE fired == [mem EXCEPT !.fallback = @ \ {i}]
           again == [fired EXCEPT !.handled = @ \ {i}]
<1>1. Settling /\ Planning
  BY NothingSettles, NothingPlanned DEF CompletionFallback
<1>2. TypeOK /\ i \in Created /\ mem \in Memory
  BY DEF Kept, Known, Sound, CompletionFallback
<1>3. CASE i \in mem.routed \/ ~Live(i)
  <2>1. mem' = fired /\ UNCHANGED <<run, task, lease, epc>>
    BY <1>3 DEF CompletionFallback
  <2>2. Sound(mem', epc') /\ mem'.active \subseteq mem.active
    BY <1>2, <2>1 DEF Kept, Known, Sound, Memory
  <2>3. Ending
    BY <1>2, <2>1, <2>2, NothingWritten DEF Ending, TypeOK, Leases
  <2> QED BY <1>1, <2>2, <2>3, SumOfParts
<1>4. CASE i \notin mem.routed /\ Live(i)
  <2>1. sessionEnd(i, "completed", again)
    BY <1>4 DEF CompletionFallback
  <2>2. /\ again \in Memory /\ again.active = mem.active /\ again.ending = mem.ending
        /\ again.fallback \subseteq mem.fallback /\ again.handled = mem.handled \ {i}
        /\ again.routed = mem.routed /\ again.finishing = mem.finishing
    BY <1>2 DEF Memory
  <2> HIDE DEF fired, again
  <2>3. Sound(again, epc)
    BY <1>4, <2>2 DEF Sound, Kept, Known
  <2>4. Ending /\ mem'.active \subseteq mem.active
    BY <1>2, <2>1, <2>2, <2>3, EndKeeps DEF Exits
  <2> QED BY <1>1, <2>4, SumOfParts
<1> QED BY <1>3, <1>4

\* The pipeline begins in a call that nobody else is in.
LEMMA StoredKeeps ==
  ASSUME Kept, NEW i \in Run, routeStoredCompletion(i), UNCHANGED <<run, task, lease>>
  PROVE  Ending /\ mem'.active \subseteq mem.active
<1> DEFINE call == [pc |-> "route", why |-> "completed", had |-> FALSE, live |-> TRUE]
<1>1. /\ i \notin mem.routed \cup mem.finishing /\ i \in Created
      /\ mem' = [mem EXCEPT !.finishing = @ \cup {i}]
      /\ epc' = [epc EXCEPT ![i] = call]
  BY DEF routeStoredCompletion, Live, Created
<1>2. call \in EndCalls
  BY DEF EndCalls, Exits
<1>3. TypeOK /\ Sound(mem, epc)
  BY DEF Kept, Known
<1> HIDE DEF call
<1>4. Sound(mem', epc') /\ mem'.active = mem.active
  BY <1>1, <1>2, <1>3 DEF Sound, Memory
<1> QED BY <1>3, <1>4, NothingWritten DEF Ending, TypeOK, Leases

LEMMA NudgeKeeps ==
  ASSUME Kept, NEW i \in Run, nudge(i)
  PROVE  Harmless
<1>1. i \in Created
  BY DEF nudge, Created
<1>2. CASE i \in mem.active
  BY <1>1, <1>2, EndSessionKeeps DEF nudge, Kept, Known
<1>3. CASE i \notin mem.active
  <2>1. routeStoredCompletion(i) /\ UNCHANGED <<durable, cyc, dpc, kpc, worker, crashes>>
    BY <1>3 DEF nudge
  <2>2. Settling /\ Planning
    BY <2>1, NothingSettles, NothingPlanned DEF durable
  <2> QED BY <2>1, <2>2, StoredKeeps, SumOfParts DEF durable
<1> QED BY <1>2, <1>3

\* completeRun only schedules the end.
LEMMA CompleteKeeps ==
  ASSUME Kept, NEW i \in Run, completeRun(i)
  PROVE  Harmless
<1> DEFINE row == [run[i] EXCEPT !.complete = TRUE]
<1>1. TypeOK /\ Sound(mem, epc) /\ i \in Created
  BY DEF Kept, Known, completeRun, Live, Created
<1>2. run[i] \in Rows
  BY <1>1, Rowed DEF TypeOK
<1>3. /\ row \in Rows /\ row.task = run[i].task /\ row.agent = run[i].agent
      /\ row.st = run[i].st
  BY <1>2 DEF Rows
<1>4. run' = [run EXCEPT ![i] = row]
  BY DEF completeRun
<1> HIDE DEF row
<1>5. run' \in [Run -> Rows \cup {Absent}] /\ RowsKept /\ Created' = Created
  BY <1>1, <1>3, <1>4, Written DEF TypeOK, Live
<1>6. Sound(mem', epc') /\ mem'.active = mem.active
  BY <1>1 DEF completeRun, Sound, Memory
<1>7. Ending
  BY <1>1, <1>5, <1>6 DEF completeRun, Ending, TypeOK, Leases, Charged, RetriesKept
<1>8. Settling /\ Planning
  BY NothingSettles, NothingPlanned DEF completeRun
<1> QED BY <1>6, <1>7, <1>8, SumOfParts


--------------------------------------------------------------------------------
(* A session end after its awaits.                                             *)

\* A call that is suspended in a session end holds the run, unrouted.
LEMMA Suspended ==
  ASSUME Kept, NEW i \in Run, epc[i].pc # "none"
  PROVE  /\ TypeOK /\ mem \in Memory /\ epc \in [Run -> EndCalls \cup {NoCall}]
         /\ lease \in Leases
         /\ epc[i] \in EndCalls /\ i \in Created /\ i \in mem.finishing /\ i \notin mem.routed
BY DEF Kept, Known, Sound, TypeOK, Leases, NoCall

\* It returns, routed or not.
LEMMA Returned ==
  ASSUME Kept, NEW i \in Run, epc[i].pc # "none", NEW had \in BOOLEAN,
         \/ \E ok \in BOOLEAN : EndReturns(i, mem, had, ok)
         \/ EndReturns(i, Routed(i), had, TRUE)
  PROVE  Sound(mem', epc') /\ mem'.active \subseteq mem.active /\ lease' \in Leases
<1>1. /\ mem.active \cup mem.ending \cup mem.fallback \subseteq Created
      /\ mem.routed \subseteq mem.handled /\ mem.routed \cap mem.finishing = {}
      /\ \A j \in Run : epc[j].pc # "none" => j \in Created /\ j \in mem.finishing
  BY DEF Kept, Known, Sound
<1>2. CASE \E ok \in BOOLEAN : EndReturns(i, mem, had, ok)
  <2>1. PICK ok \in BOOLEAN : EndReturns(i, mem, had, ok)
    BY <1>2
  <2>2. /\ mem.routed \subseteq mem.handled \cup (IF ok THEN {i} ELSE {})
        /\ mem.routed \cap mem.finishing \subseteq {i}
    BY <1>1
  <2>3. /\ mem \in Memory /\ epc \in [Run -> EndCalls \cup {NoCall}] /\ lease \in Leases
    BY Suspended
  <2> QED BY <1>1, <2>1, <2>2, <2>3, ReturnKeeps
<1>3. CASE EndReturns(i, Routed(i), had, TRUE)
  <2> DEFINE m == Routed(i)
  <2>1. /\ m \in Memory /\ m.active = mem.active /\ m.ending = mem.ending
        /\ m.fallback = mem.fallback /\ m.handled = mem.handled
        /\ m.routed = mem.routed \cup {i} /\ m.finishing = mem.finishing
    BY Suspended DEF Routed, Memory
  <2>2. EndReturns(i, m, had, TRUE)
    BY <1>3
  <2> HIDE DEF m
  <2>3. /\ m.active \cup m.ending \cup m.fallback \subseteq Created
        /\ m.routed \subseteq m.handled \cup (IF TRUE THEN {i} ELSE {})
        /\ m.routed \cap m.finishing \subseteq {i}
        /\ \A j \in Run \ {i} : epc[j].pc # "none" => j \in Created /\ j \in m.finishing
    BY <1>1, <2>1
  <2>4. epc \in [Run -> EndCalls \cup {NoCall}] /\ lease \in Leases /\ TRUE \in BOOLEAN
    BY Suspended
  <2> QED BY <2>1, <2>2, <2>3, <2>4, ReturnKeeps
<1> QED BY <1>2, <1>3

LEMMA LimitsKeep ==
  ASSUME Kept, NEW i \in Run, Limits(i)
  PROVE  Harmless
<1>1. /\ epc[i].pc # "none" /\ UNCHANGED <<beat, task, cyc, dpc, kpc, worker, crashes>>
  BY DEF Limits
<1>2. Settling /\ Planning
  BY <1>1, NothingSettles, NothingPlanned
<1>3. epc[i].had \in BOOLEAN /\ i \in Created /\ TypeOK
  BY <1>1, Suspended DEF EndCalls
<1>4. CASE Fenced(i, epc[i].had)
  <2>1. /\ run' = [run EXCEPT ![i].st = "failed"]
        /\ epc' = [epc EXCEPT ![i].pc = "evidence", ![i].live = FALSE]
        /\ UNCHANGED <<mem, lease>>
    BY <1>4 DEF Limits
  <2>2. run' \in [Run -> Rows \cup {Absent}] /\ RowsKept /\ Created' = Created
    BY <1>3, <2>1, RowEnded DEF TypeOK, Ended
  <2> DEFINE e == [epc[i] EXCEPT !.pc = "evidence", !.live = FALSE]
  <2>a. e \in EndCalls
    BY <1>1, Suspended DEF EndCalls
  <2>b. epc \in [Run -> EndCalls \cup {NoCall}] /\ epc' = [epc EXCEPT ![i] = e]
    BY <1>1, <2>1, Suspended
  <2> HIDE DEF e
  <2>3. /\ epc' \in [Run -> EndCalls \cup {NoCall}] /\ \A j \in Run \ {i} : epc'[j] = epc[j]
    BY <2>a, <2>b
  <2>4. Sound(mem', epc')
    BY <1>1, <2>1, <2>3, Suspended DEF Sound, Kept, Known
  <2>5. Ending
    BY <1>1, <1>3, <2>1, <2>2, <2>4 DEF Ending, TypeOK, Leases, Charged, RetriesKept
  <2> QED BY <1>2, <2>1, <2>5, SumOfParts
<1>5. CASE ~Fenced(i, epc[i].had)
  <2>1. EndReturns(i, mem, epc[i].had, FALSE) /\ UNCHANGED run
    BY <1>5 DEF Limits
  <2>2. Sound(mem', epc') /\ mem'.active \subseteq mem.active /\ lease' \in Leases
    BY <1>1, <1>3, <2>1, Returned
  <2>3. Ending
    BY <1>1, <1>3, <2>1, <2>2, NothingWritten DEF Ending
  <2> QED BY <1>2, <2>2, <2>3, SumOfParts
<1> QED BY <1>4, <1>5

LEMMA EvidenceKeeps ==
  ASSUME Kept, NEW i \in Run, Evidence(i)
  PROVE  Harmless
<1>1. epc[i].pc # "none" /\ UNCHANGED <<run, beat, task, cyc, dpc, kpc, worker, crashes>>
  BY DEF Evidence
<1>2. Settling /\ Planning
  BY <1>1, NothingSettles, NothingPlanned
<1>3. epc[i] \in EndCalls /\ epc[i].had \in BOOLEAN /\ TypeOK
  BY <1>1, Suspended DEF EndCalls
<1>4. \/ \E had \in BOOLEAN : \/ \E ok \in BOOLEAN : EndReturns(i, mem, had, ok)
                              \/ EndReturns(i, Routed(i), had, TRUE)
      \/ \E pc \in {"release", "route"} : /\ epc' = [epc EXCEPT ![i].pc = pc]
                                          /\ UNCHANGED <<mem, lease>>
  BY <1>3 DEF Evidence
<1>5. Sound(mem', epc') /\ mem'.active \subseteq mem.active /\ lease' \in Leases
  <2>1. CASE \E pc \in {"release", "route"} : /\ epc' = [epc EXCEPT ![i].pc = pc]
                                              /\ UNCHANGED <<mem, lease>>
    <3>1. /\ epc' \in [Run -> EndCalls \cup {NoCall}] /\ \A j \in Run \ {i} : epc'[j] = epc[j]
      BY <1>1, <2>1, Suspended DEF EndCalls
    <3> QED BY <1>1, <2>1, <3>1, Suspended DEF Sound, Kept, Known
  <2> QED BY <1>1, <1>4, <2>1, Returned
<1>6. Ending
  BY <1>1, <1>3, <1>5, NothingWritten DEF Ending
<1> QED BY <1>2, <1>5, <1>6, SumOfParts

LEMMA ReleaseKeeps ==
  ASSUME Kept, NEW i \in Run, Release(i)
  PROVE  Harmless
<1>1. epc[i].pc # "none" /\ UNCHANGED <<run, beat, task, cyc, dpc, kpc, worker, crashes>>
  BY DEF Release
<1>2. Settling /\ Planning
  BY <1>1, NothingSettles, NothingPlanned
<1> DEFINE e == [epc[i] EXCEPT !.pc = "route", !.had = FALSE]
<1>a. e \in EndCalls
  BY <1>1, Suspended DEF EndCalls
<1>b. epc \in [Run -> EndCalls \cup {NoCall}] /\ epc' = [epc EXCEPT ![i] = e]
  BY <1>1, Suspended DEF Release
<1> HIDE DEF e
<1>3. /\ epc' \in [Run -> EndCalls \cup {NoCall}] /\ \A j \in Run \ {i} : epc'[j] = epc[j]
  BY <1>a, <1>b
<1>4. /\ mem' \in Memory /\ mem'.active \subseteq mem.active
      /\ \A f \in {"ending", "fallback", "routed", "handled", "finishing"} : mem'[f] = mem[f]
  BY <1>1, Suspended DEF Release, Memory
<1>5. Sound(mem', epc')
  BY <1>1, <1>3, <1>4, Suspended DEF Sound, Kept, Known
<1>6. lease' \in Leases
  BY <1>1, ReleasedTyped, Suspended DEF Release
<1>7. Ending
  BY <1>1, <1>5, <1>6, NothingWritten, Suspended DEF Ending
<1> QED BY <1>2, <1>4, <1>7, SumOfParts

LEMMA ReleaseEndedKeeps ==
  ASSUME Kept, NEW i \in Run, ReleaseEnded(i)
  PROVE  Harmless
<1>1. /\ epc[i].pc # "none" /\ EndReturns(i, Routed(i), TRUE, TRUE)
      /\ UNCHANGED <<run, beat, task, cyc, dpc, kpc, worker, crashes>>
  BY DEF ReleaseEnded
<1>2. Sound(mem', epc') /\ mem'.active \subseteq mem.active /\ lease' \in Leases
  BY <1>1, Returned
<1>3. Ending
  BY <1>1, <1>2, NothingWritten, Suspended DEF Ending
<1> QED BY <1>1, <1>2, <1>3, NothingSettles, NothingPlanned, SumOfParts

LEMMA ReleaseFailedKeeps ==
  ASSUME Kept, NEW i \in Run, ReleaseFailed(i)
  PROVE  Harmless
<1>1. /\ epc[i].pc # "none" /\ EndReturns(i, mem, TRUE, lease[i] = "active")
      /\ run' = IF Live(i) /\ lease[i] = "active" THEN [run EXCEPT ![i].st = "failed"] ELSE run
      /\ UNCHANGED <<beat, task, cyc, dpc, kpc, worker, crashes>>
  BY DEF ReleaseFailed
<1>2. Sound(mem', epc') /\ mem'.active \subseteq mem.active /\ lease' \in Leases
  BY <1>1, Returned
<1>3. TypeOK /\ i \in Created
  BY <1>1, Suspended
<1>4. run' \in [Run -> Rows \cup {Absent}] /\ RowsKept /\ Created' = Created
  BY <1>1, <1>3, RowEnded, RowsUntouched DEF TypeOK, Ended
<1>5. Ending
  BY <1>1, <1>2, <1>3, <1>4 DEF Ending, TypeOK, Charged, RetriesKept
<1> QED BY <1>1, <1>2, <1>5, NothingSettles, NothingPlanned, SumOfParts

LEMMA RouteKeeps ==
  ASSUME Kept, NEW i \in Run, Route(i)
  PROVE  Harmless
<1>1. /\ epc[i].pc # "none" /\ EndReturns(i, Routed(i), FALSE, TRUE)
      /\ UNCHANGED <<beat, task, cyc, dpc, kpc, worker, crashes>>
  BY DEF Route
<1>2. Sound(mem', epc') /\ mem'.active \subseteq mem.active /\ lease' \in Leases
  BY <1>1, Returned
<1>3. TypeOK /\ i \in Created
  BY <1>1, Suspended
<1>4. run[i] \in Rows
  BY <1>3, Rowed DEF TypeOK
<1>5. PICK row \in {[run[i] EXCEPT !.st = "done"], [run[i] EXCEPT !.st = "failed"],
                    [run[i] EXCEPT !.owned = TRUE], run[i]} : run' = [run EXCEPT ![i] = row]
  BY DEF Route
<1>6. row \in Rows /\ row.task = run[i].task /\ row.agent = run[i].agent
  BY <1>4, <1>5 DEF Rows, Ended
<1>7. row.st = "live" => Live(i)
  BY <1>4, <1>5 DEF Rows, Live
<1>8. run' \in [Run -> Rows \cup {Absent}] /\ RowsKept /\ Created' = Created
  BY <1>3, <1>5, <1>6, <1>7, Written DEF TypeOK
<1>9. Ending
  BY <1>1, <1>2, <1>3, <1>8 DEF Ending, TypeOK, Charged, RetriesKept
<1> QED BY <1>1, <1>2, <1>9, NothingSettles, NothingPlanned, SumOfParts

LEMMA RouteThrowsKeeps ==
  ASSUME Kept, NEW i \in Run, RouteThrows(i)
  PROVE  Harmless
<1>1. /\ epc[i].pc # "none" /\ EndReturns(i, mem, FALSE, FALSE)
      /\ UNCHANGED <<run, beat, task, cyc, dpc, kpc, worker, crashes>>
  BY DEF RouteThrows
<1>2. Sound(mem', epc') /\ mem'.active \subseteq mem.active /\ lease' \in Leases
  BY <1>1, Returned
<1>3. Ending
  BY <1>1, <1>2, NothingWritten, Suspended DEF Ending
<1> QED BY <1>1, <1>2, <1>3, NothingSettles, NothingPlanned, SumOfParts


--------------------------------------------------------------------------------
(* The poll cycle.                                                             *)

LEMMA PhaseBegins ==
  ASSUME Kept, cyc.pc # "await", NEW X \in SUBSET Run,
         NEW pc \in Phases \ {"loop", "await", "gcMark"},
         cyc' = At(pc) \/ cyc' = [At(pc) EXCEPT !.runs = X]
  PROVE  Planning
BY DEF At, Planning, Cycles, Waits

LEMMA PhaseGoesOn ==
  ASSUME Kept, cyc.pc \notin {"await", "loop"}, NEW pc \in Phases \ {"loop", "await"},
         NEW i \in Run, NEW k \in Run \cup {0}, pc = "gcMark" => k \in Run,
         NEW X \in SUBSET Run, NEW Y \in SUBSET Run,
         cyc' = [cyc EXCEPT !.pc = pc, !.run = k, !.runs = X, !.closed = Y]
  PROVE  Planning
BY DEF Kept, TypeOK, Planning, Cycles, Waits

LEMMA CycleBeginsKeeps ==
  ASSUME Kept, CycleBegins
  PROVE  Harmless
<1>1. Planning
  <2>1. mem.active \in SUBSET Run /\ cyc' = [At("refresh") EXCEPT !.runs = mem.active]
        /\ cyc.pc # "await" /\ "refresh" \in Phases \ {"loop", "await", "gcMark"}
    BY DEF CycleBegins, Kept, Known, Sound, Memory, Phases
  <2> QED BY <2>1, PhaseBegins
<1> QED BY <1>1, NothingEnds, NothingSettles, SumOfParts DEF CycleBegins, durable

LEMMA GcBeginsKeeps ==
  ASSUME Kept, GcBegins
  PROVE  Harmless
<1>1. Planning
  <2>1. StaleSlots \in SUBSET Run /\ cyc' = [At("gc") EXCEPT !.runs = StaleSlots]
        /\ cyc.pc # "await" /\ "gc" \in Phases \ {"loop", "await", "gcMark"}
    BY DEF GcBegins, StaleSlots, Phases
  <2> QED BY <2>1, PhaseBegins
<1> QED BY <1>1, NothingEnds, NothingSettles, SumOfParts DEF GcBegins, durable

LEMMA CycleEndsKeeps ==
  ASSUME Kept, CycleEnds
  PROVE  Harmless
<1>1. Planning
  BY PhaseBegins DEF CycleEnds, Phases
<1> QED BY <1>1, NothingEnds, NothingSettles, SumOfParts DEF CycleEnds, durable

LEMMA RefreshKeeps ==
  ASSUME Kept, NEW i \in Run, refreshHeartbeat(i)
  PROVE  Harmless
<1>1. /\ cyc.pc = "refresh" /\ cyc' = [cyc EXCEPT !.runs = @ \ {i}]
      /\ UNCHANGED <<run, lease, task, dpc, epc, kpc, crashes>>
  BY DEF refreshHeartbeat
<1>2. Planning
  BY <1>1 DEF Kept, TypeOK, Planning, Cycles, Waits
<1>3. \/ UNCHANGED <<beat, mem, worker>>
      \/ beat' = [beat EXCEPT ![i] = 0] /\ UNCHANGED <<mem, worker>>
      \/ /\ mem' = [mem EXCEPT !.active = @ \ {i}] /\ worker' = Killed(i, "killed")
         /\ UNCHANGED beat
  BY DEF refreshHeartbeat
<1>4. Settling
  <2>1. beat \in [Run -> 0 .. 2] /\ worker \in Workers
    BY DEF Kept, TypeOK, Workers
  <2>2. beat' \in [Run -> 0 .. 2]
    BY <1>3, <2>1
  <2>3. worker' \in Workers /\ \A j \in Run : worker'[j] # "none" => worker[j] # "none"
    BY <1>3, <2>1, KilledTyped
  <2> QED BY <1>1, <2>2, <2>3 DEF Settling, Kept, TypeOK
<1>5. mem' \in Memory /\ mem'.active \subseteq mem.active /\ Sound(mem', epc')
  BY <1>1, <1>3 DEF Kept, Known, Sound, Memory
<1>6. Ending
  BY <1>1, <1>5, NothingWritten DEF Ending, Kept, TypeOK, Leases
<1> QED BY <1>2, <1>4, <1>5, <1>6, SumOfParts

LEMMA GcReapsKeeps ==
  ASSUME Kept, NEW i \in Run, GcReaps(i)
  PROVE  Harmless
<1>1. Planning
  BY DEF GcReaps, Kept, TypeOK, Planning, Cycles, Waits, Phases
<1>2. Settling
  BY WorkerSettles DEF GcReaps, durable
<1> QED BY <1>1, <1>2, NothingEnds, SumOfParts DEF GcReaps, durable

LEMMA GcMarksKeeps ==
  ASSUME Kept, GcMarks
  PROVE  Harmless
<1> DEFINE i == cyc.run
<1>1. /\ i \in Run /\ TypeOK /\ UNCHANGED <<beat, lease, task, mem, dpc, epc, kpc, worker, crashes>>
  BY DEF GcMarks, Kept, Waits
<1>2. \/ /\ Stallable(i) /\ run' = [run EXCEPT ![i].st = "stalled"]
         /\ cyc' = [cyc EXCEPT !.pc = "gc", !.run = 0, !.runs = @ \ {i}, !.closed = @ \cup {i}]
      \/ cyc' = At("idle") /\ UNCHANGED run
  BY DEF GcMarks
<1>3. cyc.pc = "gcMark"
  BY DEF GcMarks
<1> HIDE DEF i
<1>4. run' \in [Run -> Rows \cup {Absent}] /\ RowsKept /\ Created' = Created
  <2>1. CASE Stallable(i) /\ run' = [run EXCEPT ![i].st = "stalled"]
    BY <1>1, <2>1, RowEnded DEF TypeOK, Ended, Stallable, Created
  <2> QED BY <1>1, <1>2, <2>1, NothingWritten
<1>5. Planning
  <2>1. CASE cyc' = [cyc EXCEPT !.pc = "gc", !.run = 0, !.runs = @ \ {i}, !.closed = @ \cup {i}]
    BY <1>1, <1>3, <2>1 DEF TypeOK, Planning, Cycles, Waits, Phases
  <2>2. CASE cyc' = At("idle")
    BY <1>3, <2>2, PhaseBegins DEF Phases
  <2> QED BY <1>2, <2>1, <2>2
<1>6. Ending /\ mem'.active \subseteq mem.active
  BY <1>1, <1>4 DEF Kept, Known, Sound, Ending, TypeOK, Leases, Charged, RetriesKept
<1> QED BY <1>1, <1>5, <1>6, NothingSettles, SumOfParts

\* Failing the tasks of some runs charges nobody.
LEMMA FailingKeeps ==
  ASSUME TypeOK, NEW S, task' = TasksFailed(S)
  PROVE  /\ task' \in [Task -> [st : {"ready", "active", "blocked", "failed", "done"},
                                retries : Nat, backoff : BOOLEAN]]
         /\ RetriesKept
BY DEF TypeOK, TasksFailed, RetriesKept

LEMMA GcEndsKeeps ==
  ASSUME Kept, GcEnds
  PROVE  Harmless
<1>1. /\ UNCHANGED <<beat, mem, dpc, epc, kpc, worker, crashes>> /\ TypeOK
      /\ task' = TasksFailed(cyc.closed)
      /\ lease' = [i \in Run |-> IF i \in cyc.closed /\ lease[i] = "active" THEN "expired" ELSE lease[i]]
      /\ run' = [i \in Run |-> IF i \in HeartbeatStalled THEN [run[i] EXCEPT !.st = "stalled"] ELSE run[i]]
  BY DEF GcEnds, Kept
<1>2. lease' \in Leases
  BY <1>1 DEF TypeOK, Leases
<1>3. HeartbeatStalled \in SUBSET Run /\ \A i \in HeartbeatStalled : i \in Created
  BY DEF HeartbeatStalled, Live, Created, Kept, Known, Sound, Memory
<1>4. \A i \in HeartbeatStalled : run[i] \in Rows
  BY <1>1, <1>3, Rowed DEF TypeOK
<1>5. \A i \in HeartbeatStalled :
        /\ [run[i] EXCEPT !.st = "stalled"] \in Rows
        /\ [run[i] EXCEPT !.st = "stalled"].st = "stalled"
        /\ [run[i] EXCEPT !.st = "stalled"].task = run[i].task
        /\ [run[i] EXCEPT !.st = "stalled"].agent = run[i].agent
  BY <1>4 DEF Rows, Ended
<1>6. run' \in [Run -> Rows \cup {Absent}]
  BY <1>1, <1>3, <1>5 DEF TypeOK
<1>7. RowsKept
  BY <1>1, <1>3, <1>5 DEF RowsKept, Created
<1>8. Created' = Created
  BY <1>7 DEF RowsKept, Created
<1>9. Planning
  <2>1. /\ cyc' = [At("stall") EXCEPT !.runs = HeartbeatStalled] /\ cyc.pc # "await"
        /\ "stall" \in Phases \ {"loop", "await", "gcMark"}
    BY DEF GcEnds, Phases
  <2> QED BY <1>3, <2>1, PhaseBegins
<1>10. Ending /\ mem'.active \subseteq mem.active
  BY <1>1, <1>2, <1>6, <1>7, <1>8, FailingKeeps DEF Kept, Known, Sound, Ending, Charged
<1> QED BY <1>1, <1>9, <1>10, NothingSettles, SumOfParts

LEMMA StallKillsKeeps ==
  ASSUME Kept, NEW i \in Run, StallKills(i)
  PROVE  Harmless
<1>1. Planning
  BY DEF StallKills, Kept, TypeOK, Planning, Cycles, Waits, Phases
<1>2. Settling
  BY WorkerSettles DEF StallKills, durable
<1> QED BY <1>1, <1>2, NothingEnds, SumOfParts DEF StallKills, durable

LEMMA StallClosesKeeps ==
  ASSUME Kept, NEW i \in Run, StallCloses(i)
  PROVE  Harmless
<1>1. /\ UNCHANGED <<run, beat, dpc, epc, kpc, worker, crashes>> /\ TypeOK
      /\ cyc.pc \in {"stall", "stallKill"}
      /\ cyc' = [cyc EXCEPT !.pc = "stall", !.run = 0, !.runs = @ \ {i}]
      /\ task' = TasksFailed({i})
      /\ \/ mem' = [mem EXCEPT !.active = @ \ {i}] /\ lease' = Released(i)
         \/ UNCHANGED <<mem, lease>>
  BY DEF StallCloses, Kept
<1>2. Planning
  BY <1>1 DEF Kept, TypeOK, Planning, Cycles, Waits, Phases
<1>3. Sound(mem', epc') /\ mem'.active \subseteq mem.active
  BY <1>1 DEF Kept, Known, Sound, Memory
<1>4. lease' \in Leases
  BY <1>1, ReleasedTyped DEF TypeOK, Leases
<1>5. Ending
  BY <1>1, <1>3, <1>4, FailingKeeps, RowsUntouched DEF Ending, Charged, TypeOK
<1> QED BY <1>1, <1>2, <1>3, <1>5, NothingSettles, SumOfParts

\* A rejected dispatch blocks or fails the task, and nothing else.
LEMMA RejectKeeps ==
  ASSUME Kept, NEW t \in Task, rejectDispatch(t), UNCHANGED <<lease, mem, epc>>
  PROVE  Ending /\ mem'.active \subseteq mem.active
BY RowsUntouched
   DEF rejectDispatch, Kept, Known, Sound, Ending, TypeOK, Leases, Charged, RetriesKept

LEMMA CycleRejectsKeeps ==
  ASSUME Kept, NEW t \in Task, CycleRejects(t)
  PROVE  Harmless
<1>1. Planning
  BY DEF CycleRejects, CanTake, Kept, TypeOK, Planning, Cycles, Waits
<1> QED BY <1>1, RejectKeeps, NothingSettles, SumOfParts DEF CycleRejects, rejectDispatch

LEMMA CycleSkipsKeeps ==
  ASSUME Kept, NEW t \in Task, CycleSkips(t)
  PROVE  Harmless
<1>1. Planning
  BY DEF CycleSkips, CanTake, Kept, TypeOK, Planning, Cycles, Waits
<1> QED BY <1>1, NothingEnds, NothingSettles, SumOfParts DEF CycleSkips, durable

--------------------------------------------------------------------------------
(* Startup, time, workers and crashes.                                         *)

LEMMA StartKeeps ==
  ASSUME Kept, Start
  PROVE  Harmless
<1>1. Planning
  <2>1. /\ {i \in Run : Live(i)} \in SUBSET Run /\ cyc.pc # "await"
        /\ cyc' = [At("reconcile") EXCEPT !.runs = {i \in Run : Live(i)}]
        /\ "reconcile" \in Phases \ {"loop", "await", "gcMark"}
    BY DEF Start, Phases
  <2> QED BY <2>1, PhaseBegins
<1> QED BY <1>1, NothingEnds, NothingSettles, SumOfParts DEF Start, durable

LEMMA FinalizesKeeps ==
  ASSUME Kept, NEW i \in Run, ReconcileFinalizes(i)
  PROVE  Harmless
<1>1. Planning
  <2>1. cyc \in Cycles /\ cyc.pc = "reconcile"
    BY DEF ReconcileFinalizes, Kept, TypeOK, Cycles
  <2>2. CASE cyc' = [cyc EXCEPT !.pc = "finalize", !.run = i, !.runs = @ \ {i}]
    BY <2>1, <2>2 DEF Planning, Cycles, Waits, Phases
  <2>3. CASE cyc' = [cyc EXCEPT !.runs = @ \ {i}]
    BY <2>1, <2>3 DEF Planning, Cycles, Waits
  <2> QED BY <2>2, <2>3 DEF ReconcileFinalizes
<1>2. Settling
  BY WorkerSettles DEF ReconcileFinalizes, durable
<1>3. Ending /\ mem'.active \subseteq mem.active
  BY StoredKeeps, NothingEnds DEF ReconcileFinalizes, durable
<1> QED BY <1>1, <1>2, <1>3, SumOfParts

LEMMA ReconcileKeeps ==
  ASSUME Kept, ReconcileFinalized \/ ReconcileEnds \/ \E i \in Run : ReconcileSpares(i)
  PROVE  Harmless
<1>1. Planning
  <2>1. cyc \in Cycles
    BY DEF Kept, TypeOK, Cycles
  <2>2. CASE ReconcileFinalized
    BY <2>1, <2>2 DEF ReconcileFinalized, Planning, Cycles, Waits, Phases
  <2>3. CASE ReconcileEnds
    BY <2>3, PhaseBegins DEF ReconcileEnds, Phases
  <2>4. CASE \E i \in Run : ReconcileSpares(i)
    BY <2>1, <2>4 DEF ReconcileSpares, Planning, Cycles, Waits
  <2> QED BY <2>2, <2>3, <2>4
<1>2. UNCHANGED <<durable, mem, dpc, epc, kpc, worker, crashes>>
  BY DEF ReconcileFinalized, ReconcileEnds, ReconcileSpares
<1> QED BY <1>1, <1>2, NothingEnds, NothingSettles, SumOfParts DEF durable

LEMMA ReconcileStallsKeeps ==
  ASSUME Kept, NEW i \in Run, ReconcileStalls(i)
  PROVE  Harmless
<1>1. /\ UNCHANGED <<beat, lease, task, mem, dpc, epc, kpc, crashes>> /\ TypeOK
      /\ worker' \in {worker, Killed(i, "killed")}
      /\ run' = IF Stallable(i) THEN [run EXCEPT ![i].st = "stalled"] ELSE run
  BY DEF ReconcileStalls, Kept
<1>2. Planning
  BY DEF ReconcileStalls, Kept, TypeOK, Planning, Cycles, Waits
<1>3. run' \in [Run -> Rows \cup {Absent}] /\ RowsKept /\ Created' = Created
  <2>1. CASE Stallable(i)
    BY <1>1, <2>1, RowEnded DEF TypeOK, Ended, Stallable, Created
  <2> QED BY <1>1, <2>1, RowsUntouched DEF TypeOK
<1>4. Ending /\ mem'.active \subseteq mem.active
  BY <1>1, <1>3 DEF Kept, Known, Sound, Ending, TypeOK, Leases, Charged, RetriesKept
<1> QED BY <1>1, <1>2, <1>4, WorkerSettles, SumOfParts

LEMMA CrashKeeps ==
  ASSUME Kept, Crash
  PROVE  Harmless
<1>1. /\ UNCHANGED <<run, beat, lease, task>> /\ crashes' = crashes + 1
      /\ cyc' = At("down") /\ mem' = EmptyMemory
      /\ dpc' = [i \in Run |-> "none"] /\ epc' = [i \in Run |-> NoCall]
      /\ kpc' = [i \in Run |-> "none"]
  BY DEF Crash, durable
<1>2. PICK S \in SUBSET {i \in Run : worker[i] = "running" \/ dpc[i] = "spawn"} :
         worker' = [i \in Run |-> IF i \in S THEN "running" ELSE "none"]
  BY DEF Crash
<1>3. Settling
  BY <1>1, <1>2 DEF Settling, Kept, TypeOK, Workers
<1>4. Planning
  BY <1>1 DEF Planning, Cycles, At, Waits, Phases
<1>5. Sound(mem', epc') /\ mem'.active \subseteq mem.active
  BY <1>1 DEF Sound, EmptyMemory, Memory, NoCall
<1>6. Ending
  BY <1>1, <1>5, NothingWritten DEF Ending, Kept, TypeOK, Leases
<1> QED BY <1>3, <1>4, <1>5, <1>6, SumOfParts

LEMMA TimeKeeps ==
  ASSUME Kept, NEW i \in Run, WorkerExits(i) \/ HeartbeatAges(i)
  PROVE  Harmless
<1>1. UNCHANGED <<run, lease, task, mem, cyc, dpc, epc, kpc, crashes>>
  BY DEF WorkerExits, HeartbeatAges, durable
<1>2. beat' \in [Run -> 0 .. 2]
  BY BoundsAssumption DEF WorkerExits, HeartbeatAges, durable, Kept, TypeOK
<1>3. worker' \in Workers /\ \A j \in Run : worker'[j] # "none" => worker[j] # "none"
  BY DEF WorkerExits, HeartbeatAges, Kept, TypeOK, Workers
<1>4. Settling
  BY <1>1, <1>2, <1>3 DEF Settling, Kept, TypeOK
<1> QED BY <1>1, <1>4, NothingEnds, NothingPlanned, SumOfParts

LEMMA LeaseExpiresKeeps ==
  ASSUME Kept, NEW i \in Run, LeaseExpires(i)
  PROVE  Harmless
<1>1. lease' \in Leases /\ UNCHANGED <<run, beat, task, mem, cyc, dpc, epc, kpc, worker, crashes>>
  BY DEF LeaseExpires, Kept, TypeOK, Leases
<1>2. Ending /\ mem'.active \subseteq mem.active
  BY <1>1, NothingWritten DEF Ending, Kept, Known, Sound
<1> QED BY <1>1, <1>2, NothingSettles, NothingPlanned, SumOfParts

LEMMA BackoffEndsKeeps ==
  ASSUME Kept, NEW t \in Task, BackoffEnds(t)
  PROVE  Harmless
<1>1. /\ UNCHANGED <<run, beat, lease, mem, cyc, dpc, epc, kpc, worker, crashes>>
      /\ task' = [task EXCEPT ![t].backoff = FALSE]
  BY DEF BackoffEnds
<1> DEFINE row == [task[t] EXCEPT !.backoff = FALSE]
           TaskRows == [st : {"ready", "active", "blocked", "failed", "done"},
                        retries : Nat, backoff : BOOLEAN]
<1>a. task \in [Task -> TaskRows] /\ run \in [Run -> Rows \cup {Absent}] /\ lease \in Leases
  BY DEF Kept, TypeOK, Leases
<1>b. row \in TaskRows /\ row.retries = task[t].retries
  BY <1>a
<1>c. task' = [task EXCEPT ![t] = row]
  BY <1>1, <1>a
<1> HIDE DEF row
<1>d. task' \in [Task -> TaskRows]
  BY <1>a, <1>b, <1>c
<1>e. Charged
  BY <1>a, <1>b, <1>c DEF Charged, RetriesKept
<1>f. run' \in [Run -> Rows \cup {Absent}] /\ RowsKept /\ Created' = Created
  BY <1>1, <1>a, RowsUntouched
<1>g. Sound(mem', epc')
  BY <1>1 DEF Kept, Known, Sound
<1>2. Ending /\ mem'.active \subseteq mem.active
  BY <1>1, <1>a, <1>d, <1>e, <1>f, <1>g DEF Ending
<1> QED BY <1>1, <1>2, NothingSettles, NothingPlanned, SumOfParts

--------------------------------------------------------------------------------
(* A dispatch up to its spawn, and the operator's other calls.                 *)

LEMMA SpawningKeeps ==
  ASSUME Kept, NEW i \in Run, McpReady(i) \/ PrepDone(i) \/ SpawnFailed(i)
  PROVE  Harmless
<1>1. /\ UNCHANGED <<run, beat, task, cyc, epc, kpc, worker, crashes>> /\ dpc[i] # "none"
      /\ \E pc \in {"prep", "spawn", "unwind"} : dpc' = [dpc EXCEPT ![i] = pc]
  BY DEF McpReady, PrepDone, SpawnFailed, durable
<1>2. Settling
  BY <1>1 DEF Settling, Kept, TypeOK, Workers
<1>3. lease' \in Leases
  BY DEF McpReady, PrepDone, SpawnFailed, durable, Kept, TypeOK, Leases
<1>4. /\ mem' \in Memory
      /\ \A f \in {"active", "ending", "fallback", "routed", "handled", "finishing"} : mem'[f] = mem[f]
  BY DEF McpReady, PrepDone, SpawnFailed, Kept, Known, Sound, Memory
<1>5. Sound(mem', epc') /\ mem'.active \subseteq mem.active
  BY <1>1, <1>4 DEF Kept, Known, Sound
<1>6. Ending
  BY <1>1, <1>3, <1>5, NothingWritten DEF Ending, Kept
<1> QED BY <1>1, <1>2, <1>5, <1>6, NothingPlanned, SumOfParts

LEMMA CancelRunKeeps ==
  ASSUME Kept, NEW i \in Run, cancelRun(i)
  PROVE  Harmless
<1>1. /\ UNCHANGED <<durable, mem, cyc, dpc, epc, crashes>>
      /\ worker' \in {worker, Killed(i, "killed")}
      /\ kpc' = [kpc EXCEPT ![i] = IF i \in mem.active THEN "kill" ELSE "mark"]
  BY DEF cancelRun
<1>2. worker' \in Workers /\ \A j \in Run : worker'[j] # "none" => worker[j] # "none"
  BY <1>1, KilledTyped DEF Kept, TypeOK, Workers
<1>3. Settling
  BY <1>1, <1>2 DEF Settling, Kept, TypeOK, durable
<1> QED BY <1>1, <1>3, NothingEnds, NothingPlanned, SumOfParts DEF durable

LEMMA KillRunKeeps ==
  ASSUME Kept, NEW i \in Run, killRun(i)
  PROVE  Harmless
<1>1. /\ UNCHANGED <<run, beat, task, cyc, dpc, epc, worker, crashes>>
      /\ mem' = [mem EXCEPT !.active = @ \ {i}] /\ lease' = Released(i)
  BY DEF killRun
<1>2. Settling
  BY <1>1 DEF killRun, Settling, Kept, TypeOK, Workers
<1>3. Sound(mem', epc') /\ mem'.active \subseteq mem.active
  BY <1>1 DEF Kept, Known, Sound, Memory
<1>4. Ending
  BY <1>1, <1>3, ReleasedTyped, NothingWritten DEF Ending, Kept, TypeOK, Leases
<1> QED BY <1>1, <1>2, <1>3, <1>4, NothingPlanned, SumOfParts

LEMMA CancelMarksKeeps ==
  ASSUME Kept, NEW i \in Run, CancelMarks(i)
  PROVE  Harmless
<1> DEFINE rows == [run EXCEPT ![i].st = "cancelled"]
<1>1. /\ UNCHANGED <<beat, lease, mem, cyc, dpc, epc, worker, crashes>> /\ TypeOK
      /\ kpc' = [kpc EXCEPT ![i] = "none"]
      /\ \/ Live(i) /\ run' = rows /\ task' = onRunComplete(run[i].task, rows)
         \/ UNCHANGED <<run, task>>
  BY DEF CancelMarks, Kept
<1>2. Settling
  BY <1>1 DEF Settling, TypeOK, Workers
<1>3. /\ run' \in [Run -> Rows \cup {Absent}] /\ RowsKept /\ Created' = Created
      /\ task' \in [Task -> [st : {"ready", "active", "blocked", "failed", "done"},
                             retries : Nat, backoff : BOOLEAN]]
      /\ Charged
  <2>1. CASE Live(i) /\ run' = rows /\ task' = onRunComplete(run[i].task, rows)
    <3>1. i \in Created /\ run' = [run EXCEPT ![i].st = "cancelled"]
      BY <2>1 DEF Live, Created
    <3>2. run' \in [Run -> Rows \cup {Absent}] /\ RowsKept /\ Created' = Created
      BY <1>1, <3>1, RowEnded DEF TypeOK, Ended
    <3>3. run[i].task \in Task
      BY <1>1, <3>1, Rowed DEF TypeOK
    <3>4. \/ task' = task
          \/ \E st \in {"done", "failed"} : task' = [task EXCEPT ![run[i].task].st = st]
      BY <2>1 DEF onRunComplete
    <3>5. /\ task' \in [Task -> [st : {"ready", "active", "blocked", "failed", "done"},
                                 retries : Nat, backoff : BOOLEAN]]
          /\ RetriesKept
      <4> DEFINE TaskRows == [st : {"ready", "active", "blocked", "failed", "done"},
                              retries : Nat, backoff : BOOLEAN]
      <4>1. task \in [Task -> TaskRows]
        BY <1>1 DEF TypeOK
      <4>2. CASE task' = task
        BY <4>1, <4>2 DEF RetriesKept
      <4>3. ASSUME NEW st \in {"done", "failed"}, task' = [task EXCEPT ![run[i].task].st = st]
            PROVE  task' \in [Task -> TaskRows] /\ RetriesKept
        <5> DEFINE row == [task[run[i].task] EXCEPT !.st = st]
        <5>1. row \in TaskRows /\ row.retries = task[run[i].task].retries
          BY <3>3, <4>1
        <5>2. task' = [task EXCEPT ![run[i].task] = row]
          BY <3>3, <4>1, <4>3
        <5> HIDE DEF row
        <5> QED BY <3>3, <4>1, <5>1, <5>2 DEF RetriesKept
      <4> QED BY <3>4, <4>2, <4>3
    <3> QED BY <3>2, <3>5 DEF Charged
  <2> QED BY <1>1, <2>1, NothingWritten
<1>4. Ending /\ mem'.active \subseteq mem.active
  BY <1>1, <1>3 DEF Kept, Known, Sound, Ending, TypeOK, Leases
<1> QED BY <1>1, <1>2, <1>4, NothingPlanned, SumOfParts


--------------------------------------------------------------------------------
(* The steps that are not harmless: a dispatch, its end, and the plan.          *)

\* The next run is one that does not exist.
LEMMA FreshIsNew ==
  ASSUME Numbered
  PROVE  /\ Fresh \in Nat \ {0} /\ Created = 1 .. (Fresh - 1)
         /\ Fresh \notin Created
<1>1. PICK n \in 0 .. MaxRuns : Created = 1 .. n
  BY DEF Numbered
<1>2. n \in Nat /\ MaxRuns \in Nat
  BY BoundsAssumption
<1>3. Cardinality(1 .. n) = n
  BY <1>2, FS_Interval
<1>4. Fresh = n + 1
  BY <1>1, <1>3 DEF Fresh, Created
<1> QED BY <1>1, <1>2, <1>4

Attempt(t, a) == [st |-> "live", task |-> t, agent |-> a, complete |-> FALSE, owned |-> FALSE]

LEMMA DispatchKeeps ==
  ASSUME Kept, NEW t \in Task, NEW a \in Agent, dispatch(t, a)
  PROVE  /\ Fresh \in Run \ Created
         /\ run' \in [Run -> Rows \cup {Absent}]
         /\ run'[Fresh] = Attempt(t, a) /\ \A i \in Run \ {Fresh} : run'[i] = run[i]
         /\ Created' = Created \cup {Fresh} /\ Numbered'
         /\ beat' \in [Run -> 0 .. 2]
         /\ task' \in [Task -> [st : {"ready", "active", "blocked", "failed", "done"},
                                retries : Nat, backoff : BOOLEAN]]
         /\ RetriesKept
         /\ dpc' \in [Run -> {"none", "mcp", "prep", "spawn", "unwind"}]
         /\ dpc'[Fresh] = "mcp" /\ \A i \in Run \ {Fresh} : dpc'[i] = dpc[i]
<1> DEFINE k == Fresh
<1>1. k \in Nat \ {0} /\ Created = 1 .. (k - 1) /\ k \notin Created /\ k \in Run
  BY FreshIsNew DEF Kept, dispatch
<1>2. /\ run' = [run EXCEPT ![k] = Attempt(t, a)]
      /\ beat' = [beat EXCEPT ![k] = 0]
      /\ task' = [task EXCEPT ![t].st = "active"]
      /\ dpc' = [dpc EXCEPT ![k] = "mcp"]
  BY DEF dispatch, Attempt
<1> HIDE DEF k
<1>3. TypeOK
  BY DEF Kept
<1>4. Attempt(t, a) \in Rows /\ Attempt(t, a).st # "absent"
  BY DEF Attempt, Rows
<1>5. /\ run' \in [Run -> Rows \cup {Absent}]
      /\ run'[k] = Attempt(t, a) /\ \A i \in Run \ {k} : run'[i] = run[i]
  BY <1>1, <1>2, <1>3, <1>4 DEF TypeOK
<1>6. Created' = Created \cup {k}
  BY <1>1, <1>4, <1>5 DEF Created
<1>7. Numbered'
  <2>1. MaxRuns \in Nat
    BY BoundsAssumption
  <2>2. k \in 0 .. MaxRuns /\ Created' = 1 .. k
    BY <1>1, <1>6, <2>1 DEF Run
  <2> QED BY <2>2 DEF Numbered
<1>8. /\ task' \in [Task -> [st : {"ready", "active", "blocked", "failed", "done"},
                             retries : Nat, backoff : BOOLEAN]]
      /\ RetriesKept
  BY <1>2, <1>3 DEF TypeOK, RetriesKept
<1>9. /\ beat' \in [Run -> 0 .. 2]
      /\ dpc' \in [Run -> {"none", "mcp", "prep", "spawn", "unwind"}]
      /\ dpc'[k] = "mcp" /\ \A i \in Run \ {k} : dpc'[i] = dpc[i]
  BY <1>1, <1>2, <1>3 DEF TypeOK
<1> QED BY <1>1, <1>5, <1>6, <1>7, <1>8, <1>9 DEF k

\* A dispatch keeps the types, whoever asks for it.
LEMMA DispatchTyped ==
  ASSUME Kept, NEW t \in Task, NEW a \in Agent, dispatch(t, a), cyc' \in Cycles, Waits',
         UNCHANGED <<lease, mem, epc, kpc, worker, crashes>>
  PROVE  Kept'
<1>1. TypeOK'
  BY DispatchKeeps DEF Kept, TypeOK, Cycles
<1>2. Known'
  BY DispatchKeeps DEF Kept, Known, Sound
<1> QED BY <1>1, <1>2, DispatchKeeps DEF Kept

LEMMA CycleDispatchesTyped ==
  ASSUME Kept, NEW t \in Task, NEW a \in Agent, CycleDispatches(t, a)
  PROVE  Kept'
<1>1. dispatch(t, a) /\ UNCHANGED <<lease, mem, epc, kpc, worker, crashes>>
  BY DEF CycleDispatches
<1>2. Fresh \in Run
  BY <1>1, DispatchKeeps
<1>3. cyc' \in Cycles /\ Waits'
  BY <1>2 DEF CycleDispatches, CanTake, Kept, TypeOK, Cycles, Phases, Waits
<1> QED BY <1>1, <1>3, DispatchTyped

\* The operator's dispatch leaves the cycle alone, and a rejected one is harmless.
LEMMA ManualTyped ==
  ASSUME Kept, NEW t \in Task, NEW a \in Agent, manualDispatch(t, a)
  PROVE  Kept' /\ (dispatch(t, a) \/ Harmless)
<1>1. UNCHANGED <<lease, mem, cyc, epc, kpc, worker, crashes>>
  BY DEF manualDispatch
<1>2. CASE dispatch(t, a)
  BY <1>1, <1>2, DispatchTyped DEF Kept, TypeOK, Cycles, Waits
<1>3. CASE rejectDispatch(t)
  <2>1. Ending /\ mem'.active \subseteq mem.active
    BY <1>1, <1>3, RejectKeeps
  <2>2. UNCHANGED <<beat, dpc, kpc, worker, crashes>>
    BY <1>1, <1>3 DEF rejectDispatch
  <2> QED BY <1>1, <2>1, <2>2, NothingSettles, NothingPlanned, SumOfParts DEF Harmless
<1> QED BY <1>2, <1>3 DEF manualDispatch

\* The cycle goes on with a slot less, or with the slot it had.
LEMMA ResumedTyped ==
  ASSUME Kept, NEW i \in Run, NEW used \in {0, 1}, cyc' = Resumed(i, used)
  PROVE  cyc' \in Cycles /\ Waits'
<1>1. cyc \in Cycles /\ Waits
  BY DEF Kept, TypeOK, Cycles
<1>2. CASE cyc.pc = "await" /\ cyc.run = i
  <2>1. cyc.slots - used \in Nat
    BY <1>1, <1>2 DEF Waits, Cycles
  <2>2. cyc' = [cyc EXCEPT !.pc = "loop", !.run = 0, !.slots = cyc.slots - used]
    BY <1>2 DEF Resumed
  <2> QED BY <1>1, <2>1, <2>2 DEF Cycles, Phases, Waits
<1>3. CASE ~(cyc.pc = "await" /\ cyc.run = i)
  BY <1>1, <1>3 DEF Resumed, Waits
<1> QED BY <1>2, <1>3

LEMMA SpawnDoneTyped ==
  ASSUME Kept, NEW i \in Run, SpawnDone(i)
  PROVE  Kept' /\ RowsKept /\ RetriesKept /\ mem'.active = mem.active \cup {i}
<1>1. /\ dpc' = [dpc EXCEPT ![i] = "none"] /\ worker' = [worker EXCEPT ![i] = "running"]
      /\ mem' = [mem EXCEPT !.starting = @ \ {i}, !.active = @ \cup {i}, !.bound = @ \cup {i}]
      /\ UNCHANGED <<run, beat, lease, task, epc, kpc, crashes>>
  BY DEF SpawnDone, durable
<1>2. i \in Created /\ TypeOK /\ Numbered
  BY DEF SpawnDone, Kept, Known
<1>3. RowsKept /\ Created' = Created
  BY <1>1, RowsUntouched
<1>4. /\ mem' \in Memory /\ mem'.active = mem.active \cup {i}
      /\ \A f \in {"ending", "fallback", "routed", "handled", "finishing"} : mem'[f] = mem[f]
  BY <1>1 DEF Kept, Known, Sound, Memory
<1>5. Sound(mem', epc')
  BY <1>1, <1>2, <1>4 DEF Kept, Known, Sound
<1>6. cyc' \in Cycles /\ Waits'
  BY ResumedTyped DEF SpawnDone
<1>7. Numbered' /\ Known'
  <2>1. \A j \in Run : dpc'[j] # "none" \/ worker'[j] # "none" => j \in Created
    BY <1>1, <1>2 DEF Kept, Known, TypeOK
  <2> QED BY <1>3, <1>5, <2>1, StillKnown
<1>8. TypeOK'
  BY <1>1, <1>2, <1>4, <1>6 DEF TypeOK, Cycles
<1>9. RetriesKept
  BY <1>1 DEF RetriesKept
<1> QED BY <1>3, <1>4, <1>6, <1>7, <1>8, <1>9 DEF Kept

\* A dispatch fails before its session is recorded, inside or outside of the try block.
DispatchThrows(i) == Unwind(i) \/ McpFails(i)

LEMMA UnwindTyped ==
  ASSUME Kept, NEW i \in Run, DispatchThrows(i)
  PROVE  Kept' /\ RowsKept /\ RetriesKept /\ UNCHANGED mem
<1>1. /\ dpc' = [dpc EXCEPT ![i] = "none"] /\ lease' \in {lease, Released(i)}
      /\ run' \in {run, [run EXCEPT ![i].st = "stalled"]}
      /\ UNCHANGED <<beat, task, mem, epc, kpc, worker, crashes>>
  BY DEF DispatchThrows, Unwind, McpFails, durable
<1>2. i \in Created /\ TypeOK /\ Numbered
  BY DEF DispatchThrows, Unwind, McpFails, Kept, Known
<1>3. run' \in [Run -> Rows \cup {Absent}] /\ RowsKept /\ Created' = Created
  <2>1. CASE run' = run
    BY <1>2, <2>1, RowsUntouched DEF TypeOK
  <2>2. CASE run' = [run EXCEPT ![i].st = "stalled"]
    BY <1>2, <2>2, RowEnded DEF TypeOK, Ended
  <2> QED BY <1>1, <2>1, <2>2
<1>4. Sound(mem', epc')
  BY <1>1 DEF Kept, Known, Sound
<1>5. cyc' \in Cycles /\ Waits'
  BY ResumedTyped DEF DispatchThrows, Unwind, McpFails
<1>6. Numbered' /\ Known'
  <2>1. \A j \in Run : dpc'[j] # "none" \/ worker'[j] # "none" => j \in Created
    BY <1>1, <1>2 DEF Kept, Known, TypeOK
  <2> QED BY <1>3, <1>4, <2>1, StillKnown
<1>7. TypeOK'
  BY <1>1, <1>2, <1>3, <1>5, ReleasedTyped DEF TypeOK, Cycles, Leases
<1>8. RetriesKept
  BY <1>1 DEF RetriesKept
<1> QED BY <1>1, <1>3, <1>5, <1>6, <1>7, <1>8 DEF Kept

\* The sessions are as many as the cycle can count.
LEMMA SessionsFinite ==
  ASSUME mem \in Memory
  PROVE  IsFiniteSet(mem.active) /\ Cardinality(mem.active) \in Nat
<1>1. IsFiniteSet(Run)
  BY BoundsAssumption, FS_Interval DEF Run
<1>2. mem.active \in SUBSET Run
  BY DEF Memory
<1> QED BY <1>1, <1>2, FS_Subset, FS_CardinalityType

LEMMA CyclePlansTyped ==
  ASSUME Kept, CyclePlans
  PROVE  /\ Kept' /\ UNCHANGED <<run, task, mem, dpc>> /\ cyc.pc = "stall"
         /\ \/ cyc'.pc = "idle"
            \/ /\ cyc'.pc = "loop" /\ cyc'.tasks = {t \in Task : Takeable(t)}
               /\ cyc'.slots = MaxConcurrentRuns - Cardinality(mem.active)
               /\ Cardinality(mem.active) < MaxConcurrentRuns
<1>1. /\ UNCHANGED <<run, beat, lease, task, mem, dpc, epc, kpc, worker, crashes>>
      /\ cyc.pc = "stall"
  BY DEF CyclePlans, durable
<1>2. Cardinality(mem.active) \in Nat /\ MaxConcurrentRuns \in Nat
  BY SessionsFinite, LimitsAssumption DEF Kept, Known, Sound
<1> DEFINE free == MaxConcurrentRuns - Cardinality(mem.active)
           ready == {t \in Task : Takeable(t)}
           plan == [pc |-> "loop", runs |-> {}, closed |-> {}, tasks |-> ready,
                    slots |-> free, run |-> 0]
<1>3. \/ cyc' = At("idle")
      \/ /\ Cardinality(mem.active) < MaxConcurrentRuns
         /\ cyc' = [At("loop") EXCEPT !.slots = free, !.tasks = ready]
  BY <1>2 DEF CyclePlans
<1>4. ready \in SUBSET Task /\ (Cardinality(mem.active) < MaxConcurrentRuns => free \in Nat)
  BY <1>2
<1> HIDE DEF free, ready
<1>5. cyc' = At("idle") \/ (Cardinality(mem.active) < MaxConcurrentRuns /\ cyc' = plan)
  BY <1>3 DEF At
<1>6. cyc' \in Cycles /\ Waits'
  <2>1. CASE cyc' = At("idle")
    BY <2>1 DEF At, Cycles, Phases, Waits
  <2>2. CASE Cardinality(mem.active) < MaxConcurrentRuns /\ cyc' = plan
    BY <1>4, <2>2 DEF Cycles, Phases, Waits
  <2> QED BY <1>5, <2>1, <2>2
<1>7. Ending /\ Settling
  BY <1>1, NothingEnds, NothingSettles
<1>8. Numbered' /\ Known'
  BY <1>1, <1>7, StillKnown DEF Ending, Kept, Known
<1>9. TypeOK'
  BY <1>1, <1>6 DEF Kept, TypeOK, Cycles
<1>10. \/ cyc'.pc = "idle"
      \/ /\ cyc'.pc = "loop" /\ cyc'.tasks = {t \in Task : Takeable(t)}
         /\ cyc'.slots = MaxConcurrentRuns - Cardinality(mem.active)
         /\ Cardinality(mem.active) < MaxConcurrentRuns
  BY <1>5 DEF At, free, ready
<1>11. Kept' /\ UNCHANGED <<run, task, mem, dpc>>
  BY <1>1, <1>6, <1>8, <1>9 DEF Kept
<1> QED BY <1>1, <1>10, <1>11


--------------------------------------------------------------------------------
(* Every step.                                                                 *)

\* A step is harmless, or it is one of those.
Eventful ==
  \/ CyclePlans
  \/ \E i \in Run : SpawnDone(i) \/ DispatchThrows(i)
  \/ \E t \in Task, a \in Agent : CycleDispatches(t, a)
  \/ \E t \in Task, a \in Agent : manualDispatch(t, a) /\ dispatch(t, a)

LEMMA Initially == Init => Kept
<1> SUFFICES ASSUME Init PROVE Kept
  OBVIOUS
<1>1. TypeOK
  BY DEF Init, TypeOK, Absent, EmptyMemory, Memory, At, Phases, NoCall
<1>2. Numbered
  <2>1. Created = {} /\ 1 .. 0 = {} /\ 0 \in 0 .. MaxRuns
    BY BoundsAssumption DEF Init, Created, Absent
  <2> QED BY <2>1 DEF Numbered
<1>3. Known /\ Waits
  BY <1>1 DEF Init, Known, Sound, EmptyMemory, NoCall, At, Waits, TypeOK
<1> QED BY <1>1, <1>2, <1>3 DEF Kept

LEMMA StepKinds ==
  ASSUME Kept, [Next]_vars
  PROVE  Harmless \/ Eventful
<1>1. CASE CycleNext
  BY <1>1, CycleBeginsKeeps, GcBeginsKeeps, GcMarksKeeps, GcEndsKeeps, CycleEndsKeeps, RefreshKeeps,
     GcReapsKeeps, StallKillsKeeps, StallClosesKeeps, CycleRejectsKeeps, CycleSkipsKeeps
     DEF CycleNext, Eventful
<1>2. CASE StartupNext
  BY <1>2, StartKeeps, FinalizesKeeps, ReconcileKeeps, ReconcileStallsKeeps DEF StartupNext
<1>3. CASE OperatorNext
  BY <1>3, ManualTyped, CancelRunKeeps, KillRunKeeps, CancelMarksKeeps, NudgeKeeps
     DEF OperatorNext, Eventful
<1>4. CASE Crash
  BY <1>4, CrashKeeps
<1>5. ASSUME NEW i \in Run, DispatchNext(i)
      PROVE  Harmless \/ Eventful
  BY <1>5, SpawningKeeps DEF DispatchNext, Eventful, DispatchThrows
<1>6. ASSUME NEW i \in Run, EndNext(i)
      PROVE  Harmless
  BY <1>6, SessionExitKeeps, ScheduledKeeps, FallbackKeeps, LimitsKeep, EvidenceKeeps, ReleaseKeeps,
     ReleaseEndedKeeps, ReleaseFailedKeeps, RouteKeeps, RouteThrowsKeeps DEF EndNext
<1>7. ASSUME NEW i \in Run, completeRun(i) \/ WorkerExits(i) \/ HeartbeatAges(i) \/ LeaseExpires(i)
      PROVE  Harmless
  BY <1>7, CompleteKeeps, TimeKeeps, LeaseExpiresKeeps
<1>8. ASSUME NEW t \in Task, BackoffEnds(t)
      PROVE  Harmless
  BY <1>8, BackoffEndsKeeps
<1>9. CASE UNCHANGED vars
  BY <1>9, NothingEnds, NothingSettles, NothingPlanned, SumOfParts DEF vars
<1> QED BY <1>1, <1>2, <1>3, <1>4, <1>5, <1>6, <1>7, <1>8, <1>9 DEF Next

LEMMA Invariance == Spec => []Kept
<1>1. ASSUME Kept, [Next]_vars PROVE Kept'
  <2>1. CASE Harmless
    BY <2>1 DEF Harmless
  <2>2. CASE Eventful
    BY <1>1, <2>2, CyclePlansTyped, SpawnDoneTyped, UnwindTyped, CycleDispatchesTyped, ManualTyped
       DEF Eventful
  <2> QED BY <1>1, <2>1, <2>2, StepKinds
<1> QED BY <1>1, Initially, PTL DEF Spec

\* The rows, the memory and the suspended calls of the dispatcher always have
\* their types: the free slots of a cycle, above all, never go below zero.
THEOREM TypeCorrect == Spec => []TypeOK
<1>1. Kept => TypeOK
  BY DEF Kept
<1> QED BY <1>1, Invariance, PTL

--------------------------------------------------------------------------------
(* The retries.                                                                *)

\* The runs that have ended, and that paid for a retry each.
Dead(t) == {i \in RunsOf(t) : ~Live(i)}

LEMMA DeadFinite ==
  ASSUME NEW S \in SUBSET Run
  PROVE  IsFiniteSet(S) /\ Cardinality(S) \in Nat
<1>1. IsFiniteSet(Run)
  BY BoundsAssumption, FS_Interval DEF Run
<1> QED BY <1>1, FS_Subset, FS_CardinalityType

\* Ended runs stay, and a retry is charged with one more of them.
LEMMA PaidStays ==
  ASSUME TypeOK, RowsKept, Charged, RetriesPaidByRuns
  PROVE  RetriesPaidByRuns'
<1> SUFFICES ASSUME NEW t \in Task
             PROVE  task'[t].retries <= Cardinality(Dead(t)')
  BY DEF RetriesPaidByRuns, Dead
<1> DEFINE D == Dead(t)
           E == Dead(t)'
<1>1. D \in SUBSET Run /\ E \in SUBSET Run /\ D \subseteq E
  BY DEF Dead, RunsOf, Live, RowsKept
<1>2. task[t].retries \in Nat /\ task[t].retries <= Cardinality(D)
  BY DEF TypeOK, RetriesPaidByRuns, Dead
<1>3. CASE RetriesKept
  <2>1. Cardinality(D) \in Nat /\ Cardinality(E) \in Nat /\ Cardinality(D) <= Cardinality(E)
    BY <1>1, DeadFinite, FS_Subset
  <2> HIDE DEF D, E
  <2>2. task'[t].retries <= Cardinality(E)
    BY <1>2, <1>3, <2>1 DEF RetriesKept
  <2> QED BY <2>2 DEF E
<1>4. CASE \E i \in Run : Charges(i)
  <2>1. PICK i \in Run : Charges(i)
    BY <1>4
  <2>2. CASE t # run[i].task
    <3>1. task'[t].retries = task[t].retries
      BY <1>2, <2>1, <2>2 DEF Charges
    <3>2. Cardinality(D) \in Nat /\ Cardinality(E) \in Nat /\ Cardinality(D) <= Cardinality(E)
      BY <1>1, DeadFinite, FS_Subset
    <3> HIDE DEF D, E
    <3>3. task'[t].retries <= Cardinality(E)
      BY <1>2, <3>1, <3>2
    <3> QED BY <3>3 DEF E
  <2>3. CASE t = run[i].task
    <3>1. task'[t].retries = task[t].retries + 1
      BY <2>1, <2>3 DEF Charges
    <3>2. i \notin D /\ i \in E
      BY <2>1, <2>3 DEF Charges, RowsKept, Dead, RunsOf, Live
    <3>3. /\ Cardinality(D) \in Nat /\ Cardinality(E) \in Nat
          /\ Cardinality(D \cup {i}) = Cardinality(D) + 1
          /\ Cardinality(D \cup {i}) <= Cardinality(E)
      <4>1. IsFiniteSet(D) /\ IsFiniteSet(E) /\ Cardinality(D) \in Nat /\ Cardinality(E) \in Nat
        BY <1>1, DeadFinite
      <4>2. D \cup {i} \in SUBSET E
        BY <1>1, <3>2
      <4> HIDE DEF D, E
      <4> QED BY <3>2, <4>1, <4>2, FS_AddElement, FS_Subset
    <3> HIDE DEF D, E
    <3>4. task'[t].retries <= Cardinality(E)
      BY <1>2, <3>1, <3>3
    <3> QED BY <3>4 DEF E
  <2> QED BY <2>2, <2>3
<1> QED BY <1>3, <1>4 DEF Charged

\* A dispatch charges nobody: its run is new, and live.
LEMMA PaidByOthers ==
  ASSUME Kept, NEW t \in Task, NEW a \in Agent, dispatch(t, a), RetriesPaidByRuns
  PROVE  RetriesPaidByRuns'
<1>1. /\ Fresh \in Run \ Created /\ RetriesKept
      /\ run'[Fresh].st = "live" /\ \A i \in Run \ {Fresh} : run'[i] = run[i]
  <2>1. /\ Fresh \in Run \ Created /\ RetriesKept
        /\ run'[Fresh] = Attempt(t, a) /\ \A i \in Run \ {Fresh} : run'[i] = run[i]
    BY DispatchKeeps, Zenon
  <2> QED BY <2>1 DEF Attempt
<1>2. \A u \in Task : Dead(u)' = Dead(u)
  BY <1>1 DEF Dead, RunsOf, Live, Created
<1> QED BY <1>1, <1>2 DEF RetriesPaidByRuns, RetriesKept, Dead

\* Crash callbacks, heartbeat timeouts and teardowns of one attempt never charge
\* its task twice: retries are at most the attempts that ended.
THEOREM RetriesArePaid == Spec => []RetriesPaidByRuns
<1>1. Init => RetriesPaidByRuns
  <2>1. ASSUME NEW S \in SUBSET Run PROVE 0 <= Cardinality(S)
    BY <2>1, DeadFinite
  <2> QED BY <2>1 DEF Init, RetriesPaidByRuns, RunsOf
<1>2. ASSUME Kept, [Next]_vars, RetriesPaidByRuns PROVE RetriesPaidByRuns'
  <2>1. TypeOK
    BY <1>2 DEF Kept
  <2>2. CASE Harmless
    BY <1>2, <2>1, <2>2, PaidStays DEF Harmless
  <2>3. CASE CyclePlans
    BY <1>2, <2>1, <2>3, CyclePlansTyped, RowsUntouched, PaidStays DEF Charged, RetriesKept
  <2>4. ASSUME NEW i \in Run, SpawnDone(i) \/ DispatchThrows(i) PROVE RetriesPaidByRuns'
    BY <1>2, <2>1, <2>4, SpawnDoneTyped, UnwindTyped, PaidStays DEF Charged
  <2>5. ASSUME NEW t \in Task, NEW a \in Agent, dispatch(t, a) PROVE RetriesPaidByRuns'
    BY <1>2, <2>5, PaidByOthers
  <2> QED BY <1>2, <2>2, <2>3, <2>4, <2>5, StepKinds DEF Eventful, CycleDispatches
<1> QED BY <1>1, <1>2, Invariance, PTL DEF Spec


--------------------------------------------------------------------------------
(* The routing.                                                                *)

\* What was routed stays so while the process lives: in a session end ...
LEMMA ReturnRoutes ==
  ASSUME NEW i \in Run, NEW m \in Memory, NEW had, NEW ok, EndReturns(i, m, had, ok)
  PROVE  mem'.routed = m.routed
BY DEF EndReturns, Memory

LEMMA EndRoutes ==
  ASSUME NEW i \in Run, NEW exit, NEW m \in Memory, sessionEnd(i, exit, m)
  PROVE  mem'.routed = m.routed
<1> DEFINE entered == [m EXCEPT !.fallback = @ \ {i}, !.finishing = @ \cup {i}]
<1>1. entered \in Memory /\ entered.routed = m.routed
  BY DEF Memory
<1>2. CASE i \in m.handled \cup m.finishing
  BY <1>2 DEF sessionEnd
<1>3. CASE i \notin m.handled \cup m.finishing
  <2>1. mem' = entered \/ EndReturns(i, entered, i \in m.active, FALSE)
    BY <1>3 DEF sessionEnd, handleSessionEnd
  <2> HIDE DEF entered
  <2> QED BY <1>1, <2>1, ReturnRoutes
<1> QED BY <1>2, <1>3

\* ... in an end that somebody asks for ...
LEMMA EndSessionRoutes ==
  ASSUME NEW i \in Run, NEW m \in Memory, endSession(i, m)
  PROVE  m.routed = mem'.routed
<1>1. CASE i \in m.routed
  BY <1>1 DEF endSession
<1>2. CASE i \notin m.routed
  <2> DEFINE armed == [m EXCEPT !.fallback = @ \cup {i}]
             again == [armed EXCEPT !.handled = @ \ {i}]
  <2>1. again \in Memory /\ again.routed = m.routed
    BY DEF Memory
  <2>2. sessionEnd(i, "completed", again)
    BY <1>2 DEF endSession
  <2> HIDE DEF armed, again
  <2> QED BY <2>1, <2>2, EndRoutes
<1> QED BY <1>1, <1>2

\* ... and in every step but a crash.
LEMMA RoutedStays ==
  ASSUME Kept, [Next]_vars
  PROVE  mem.routed \subseteq mem'.routed \/ Crash
<1>1. mem \in Memory
  BY DEF Kept, TypeOK
<1>2. CASE CycleNext
  <2>1. UNCHANGED mem \/ \E i \in Run : mem' = [mem EXCEPT !.active = @ \ {i}]
    BY <1>2 DEF CycleNext, CycleBegins, GcBegins, GcMarks, GcEnds, CyclePlans, CycleEnds, GcReaps,
       refreshHeartbeat, StallKills, StallCloses, CycleRejects, CycleSkips, CycleDispatches
  <2> QED BY <1>1, <2>1 DEF Memory
<1>3. CASE StartupNext
  <2>1. UNCHANGED mem \/ \E i \in Run : routeStoredCompletion(i)
    BY <1>3 DEF StartupNext, Start, ReconcileFinalized, ReconcileEnds, ReconcileFinalizes,
       ReconcileSpares, ReconcileStalls
  <2> QED BY <1>1, <2>1 DEF routeStoredCompletion, Memory
<1>4. CASE OperatorNext
  <2>1. ASSUME NEW i \in Run, nudge(i) PROVE mem.routed \subseteq mem'.routed
    BY <1>1, <2>1, EndSessionRoutes DEF nudge, routeStoredCompletion, Memory
  <2>2. ASSUME NEW i \in Run, killRun(i) PROVE mem.routed \subseteq mem'.routed
    BY <1>1, <2>2 DEF killRun, Memory
  <2> QED BY <1>4, <2>1, <2>2 DEF OperatorNext, manualDispatch, cancelRun, CancelMarks
<1>5. ASSUME NEW i \in Run, DispatchNext(i) PROVE mem.routed \subseteq mem'.routed
  BY <1>1, <1>5 DEF DispatchNext, McpReady, McpFails, PrepDone, SpawnDone, SpawnFailed, Unwind,
       Memory
<1>6. ASSUME NEW i \in Run, EndNext(i) PROVE mem.routed \subseteq mem'.routed
  <2>1. CASE SessionExit(i)
    <3> DEFINE m == [mem EXCEPT !.bound = @ \ {i}]
    <3>1. m \in Memory /\ m.routed = mem.routed /\ sessionEnd(i, worker[i], m)
      BY <1>1, <2>1 DEF Memory, SessionExit
    <3> HIDE DEF m
    <3> QED BY <3>1, EndRoutes
  <2>2. CASE ScheduledEnd(i)
    <3> DEFINE m == [mem EXCEPT !.ending = @ \ {i}]
    <3>1. m \in Memory /\ m.routed = mem.routed /\ endSession(i, m)
      BY <1>1, <2>2 DEF Memory, ScheduledEnd
    <3> HIDE DEF m
    <3> QED BY <3>1, EndSessionRoutes
  <2>3. CASE CompletionFallback(i)
    <3> DEFINE fired == [mem EXCEPT !.fallback = @ \ {i}]
               m == [fired EXCEPT !.handled = @ \ {i}]
    <3>1. /\ m \in Memory /\ m.routed = mem.routed /\ fired.routed = mem.routed
          /\ mem' = fired \/ sessionEnd(i, "completed", m)
      BY <1>1, <2>3 DEF Memory, CompletionFallback
    <3> HIDE DEF fired, m
    <3> QED BY <3>1, EndRoutes
  <2>4. CASE \/ Limits(i) \/ Evidence(i) \/ Release(i) \/ ReleaseEnded(i) \/ ReleaseFailed(i)
             \/ Route(i) \/ RouteThrows(i)
    <3>1. \/ UNCHANGED mem \/ mem' = [mem EXCEPT !.active = @ \ {i}]
          \/ \E had, ok : EndReturns(i, mem, had, ok) \/ EndReturns(i, Routed(i), had, ok)
      BY <2>4 DEF Limits, Evidence, Release, ReleaseEnded, ReleaseFailed, Route, RouteThrows
    <3>2. Routed(i) \in Memory /\ Routed(i).routed = mem.routed \cup {i}
      BY <1>1 DEF Routed, Memory
    <3>3. CASE UNCHANGED mem \/ mem' = [mem EXCEPT !.active = @ \ {i}]
      BY <1>1, <3>3 DEF Memory
    <3> QED BY <1>1, <3>1, <3>2, <3>3, ReturnRoutes
  <2> QED BY <1>6, <2>1, <2>2, <2>3, <2>4 DEF EndNext
<1>7. ASSUME NEW i \in Run, completeRun(i) \/ WorkerExits(i) \/ HeartbeatAges(i) \/ LeaseExpires(i)
      PROVE  mem.routed \subseteq mem'.routed
  BY <1>1, <1>7 DEF completeRun, WorkerExits, HeartbeatAges, LeaseExpires, Memory
<1>8. ASSUME NEW t \in Task, BackoffEnds(t) PROVE mem.routed \subseteq mem'.routed
  BY <1>8 DEF BackoffEnds
<1>9. CASE UNCHANGED vars
  BY <1>9 DEF vars
<1> QED BY <1>2, <1>3, <1>4, <1>5, <1>6, <1>7, <1>8, <1>9 DEF Next

\* The callback of a session, the teardown, the fallback timer and a nudge never
\* run a second pipeline: a run that was routed is not taken up again.
THEOREM CompletionsRouteOnce == Spec => NoSecondPipeline
<1>1. ASSUME Kept, Kept', [Next]_vars, NEW i \in Run, i \in mem.routed
      PROVE  epc'[i].pc # "route"
  <2>1. CASE Crash
    BY <2>1 DEF Crash, NoCall
  <2>2. CASE i \in mem'.routed
    BY <1>1, <2>2 DEF Kept, Known, Sound
  <2> QED BY <1>1, <2>1, <2>2, RoutedStays
<1>2. Kept /\ Kept' /\ [Next]_vars
        => [\A i \in Run : i \in mem.routed /\ epc[i].pc # "route" => epc'[i].pc # "route"]_vars
  BY <1>1
<1> QED BY <1>2, Invariance, PTL DEF Spec, NoSecondPipeline


--------------------------------------------------------------------------------
(* One live run of a task.                                                     *)

\* Nobody but the cycle dispatches.
SoleDispatcher == "dispatch" \notin Operator

Single(t) == \A i, j \in RunsOf(t) : Live(i) /\ Live(j) => i = j

\* What the cycle has read as ready has no live run, although it has awaited since.
Tasked ==
  /\ \A t \in Task : t \notin Lineage \/ SoleDispatcher => Single(t)
  /\ SoleDispatcher /\ cyc.pc \in {"loop", "await"} =>
       \A t \in cyc.tasks : \A i \in RunsOf(t) : ~Live(i)

\* Nothing comes to life, and the plan only gets shorter.
LEMMA TaskedStays ==
  ASSUME RowsKept, Tasked,
         cyc'.pc \in {"loop", "await"} => /\ cyc.pc \in {"loop", "await"}
                                          /\ cyc'.tasks \subseteq cyc.tasks
  PROVE  Tasked'
<1>1. \A t : RunsOf(t)' = RunsOf(t)
  BY DEF RowsKept, RunsOf
<1>2. \A t : \A i \in RunsOf(t) : Live(i)' => Live(i)
  BY DEF RowsKept, RunsOf, Live
<1>3. ASSUME NEW t \in Task, t \notin Lineage \/ SoleDispatcher PROVE Single(t)'
  BY <1>1, <1>2, <1>3 DEF Tasked, Single
<1> QED BY <1>1, <1>2, <1>3 DEF Tasked, SoleDispatcher

\* A dispatch brings one run of its task to life.
LEMMA SingleStays ==
  ASSUME Kept, NEW t \in Task, NEW a \in Agent, dispatch(t, a), \A i \in RunsOf(t) : ~Live(i)
  PROVE  /\ Single(t)'
         /\ \A u \in Task \ {t} : RunsOf(u)' = RunsOf(u) /\ \A i \in RunsOf(u) : Live(i)' = Live(i)
<1>1. /\ Fresh \in Run \ Created
      /\ run'[Fresh] = Attempt(t, a) /\ \A i \in Run \ {Fresh} : run'[i] = run[i]
  BY DispatchKeeps, Zenon
<1>2. Attempt(t, a).task = t
  BY DEF Attempt
<1>3. Single(t)'
  BY <1>1 DEF Single, RunsOf, Live
<1>4. ASSUME NEW u \in Task \ {t}
      PROVE  RunsOf(u)' = RunsOf(u) /\ \A i \in RunsOf(u) : Live(i)' = Live(i)
  BY <1>1, <1>2 DEF RunsOf, Live, Created
<1> QED BY <1>3, <1>4

LEMMA TaskedNext ==
  ASSUME Kept, Tasked, [Next]_vars
  PROVE  Tasked'
<1>1. CASE Harmless
  BY <1>1, TaskedStays DEF Harmless, Calm
<1>2. CASE CyclePlans
  <2>1. /\ UNCHANGED run
        /\ cyc'.pc \in {"loop", "await"} => cyc'.tasks = {t \in Task : Takeable(t)}
    BY <1>2, CyclePlansTyped
  <2> QED BY <2>1 DEF Tasked, Single, RunsOf, Live, Takeable, SoleDispatcher
<1>3. ASSUME NEW i \in Run, SpawnDone(i) \/ DispatchThrows(i) PROVE Tasked'
  <2>1. RowsKept
    BY <1>3, SpawnDoneTyped, UnwindTyped
  <2>2. cyc'.pc \in {"loop", "await"} => /\ cyc.pc \in {"loop", "await"}
                                         /\ cyc'.tasks \subseteq cyc.tasks
    <3>1. cyc \in Cycles
      BY DEF Kept, TypeOK, Cycles
    <3> QED BY <1>3, <3>1 DEF SpawnDone, DispatchThrows, Unwind, McpFails, Resumed, Cycles
  <2> QED BY <2>1, <2>2, TaskedStays
<1>4. ASSUME NEW t \in Task, NEW a \in Agent, CycleDispatches(t, a) PROVE Tasked'
  <2>1. dispatch(t, a) /\ Creatable(t) /\ cyc.pc = "loop" /\ t \in cyc.tasks
    BY <1>4 DEF CycleDispatches, CanTake, dispatch
  <2>2. cyc'.tasks = cyc.tasks \ {t} /\ cyc.tasks \subseteq Task
    BY <1>4 DEF CycleDispatches, Kept, TypeOK
  <2>3. CASE \A i \in RunsOf(t) : ~Live(i)
    <3>1. /\ Single(t)'
          /\ \A u \in Task \ {t} : RunsOf(u)' = RunsOf(u) /\ \A i \in RunsOf(u) : Live(i)' = Live(i)
      BY <2>1, <2>3, SingleStays
    <3>2. ASSUME NEW u \in Task, u \notin Lineage \/ SoleDispatcher PROVE Single(u)'
      BY <3>1, <3>2 DEF Tasked, Single
    <3>3. SoleDispatcher => \A u \in cyc'.tasks : \A i \in RunsOf(u)' : ~Live(i)'
      BY <2>1, <2>2, <3>1 DEF Tasked
    <3> QED BY <3>2, <3>3 DEF Tasked, SoleDispatcher
  <2>4. CASE ~SoleDispatcher /\ t \in Lineage
    <3>1. /\ Fresh \in Run \ Created
          /\ run'[Fresh] = Attempt(t, a) /\ \A i \in Run \ {Fresh} : run'[i] = run[i]
      BY <2>1, DispatchKeeps, Zenon
    <3>2. Attempt(t, a).task = t
      BY DEF Attempt
    <3>3. ASSUME NEW u \in Task, u \notin Lineage PROVE Single(u)'
      BY <2>4, <3>1, <3>2, <3>3 DEF Tasked, Single, RunsOf, Live, Created
    <3> QED BY <2>4, <3>3 DEF Tasked, SoleDispatcher
  <2> QED BY <2>1, <2>3, <2>4 DEF Creatable, Tasked
<1>5. ASSUME NEW t \in Task, NEW a \in Agent, manualDispatch(t, a), dispatch(t, a) PROVE Tasked'
  <2>1. ~SoleDispatcher /\ \A i \in RunsOf(t) : ~Live(i)
    BY <1>5 DEF manualDispatch, SoleDispatcher
  <2>2. /\ Single(t)'
        /\ \A u \in Task \ {t} : RunsOf(u)' = RunsOf(u) /\ \A i \in RunsOf(u) : Live(i)' = Live(i)
    BY <1>5, <2>1, SingleStays
  <2>3. ASSUME NEW u \in Task, u \notin Lineage PROVE Single(u)'
    BY <2>2, <2>3 DEF Tasked, Single
  <2> QED BY <2>1, <2>3 DEF Tasked, SoleDispatcher
<1> QED BY <1>1, <1>2, <1>3, <1>4, <1>5, StepKinds DEF Eventful

LEMMA TaskedAlways == Spec => []Tasked
<1>1. Init => Tasked
  BY DEF Init, Tasked, Single, RunsOf, Live, At, Absent
<1> QED BY <1>1, TaskedNext, Invariance, PTL DEF Spec

\* No task has two live runs, although a cycle dispatches what it read before it
\* awaited other dispatches: where the cycle is the only one to dispatch, or where no
\* task is a fix or a review, whose runs RunRepo.create() does not count.
THEOREM OneAttemptPerTask ==
  SoleDispatcher \/ Lineage = {} => (Spec => []OneLiveRunPerTask)
<1> SUFFICES ASSUME SoleDispatcher \/ Lineage = {} PROVE Spec => []OneLiveRunPerTask
  OBVIOUS
<1>1. Tasked => OneLiveRunPerTask
  BY DEF Tasked, Single, OneLiveRunPerTask
<1> QED BY <1>1, TaskedAlways, PTL

--------------------------------------------------------------------------------
(* Slots and agents.                                                           *)

Spawning == {i \in Run : dpc[i] # "none"}

\* One spawn at a time, of the run that the cycle awaits, in a slot that it counted.
Slotted ==
  /\ \A i \in Spawning : cyc.pc = "await" /\ cyc.run = i /\ i \notin mem.active
  /\ Cardinality(mem.active) <= MaxConcurrentRuns
  /\ cyc.pc \in {"loop", "await"} => Cardinality(mem.active) + cyc.slots <= MaxConcurrentRuns
  /\ AgentExclusive

LEMMA SlottedStays ==
  ASSUME Kept, Slotted, Harmless
  PROVE  Slotted'
<1>1. mem.active \in SUBSET Run /\ mem'.active \in SUBSET mem.active
  BY DEF Kept, TypeOK, Memory, Harmless, Calm
<1>2. /\ Cardinality(mem.active) \in Nat /\ Cardinality(mem'.active) \in Nat
      /\ Cardinality(mem'.active) <= Cardinality(mem.active)
  BY <1>1, DeadFinite, FS_Subset
<1>3. \A i \in Spawning' : cyc'.pc = "await" /\ cyc'.run = i /\ i \notin mem'.active
  BY <1>1 DEF Spawning, Slotted, Harmless, Calm
<1>4. MaxConcurrentRuns \in Nat /\ cyc.slots \in Nat
  BY LimitsAssumption DEF Kept, TypeOK
<1>5. Cardinality(mem'.active) <= MaxConcurrentRuns
  BY <1>2, <1>4 DEF Slotted
<1>6. cyc'.pc \in {"loop", "await"} => Cardinality(mem'.active) + cyc'.slots <= MaxConcurrentRuns
  BY <1>2, <1>4 DEF Slotted, Harmless, Calm
<1>7. AgentExclusive'
  <2>1. \A i \in mem'.active \cup Spawning' : i \in mem.active \cup Spawning /\ i \in Run
    BY <1>1 DEF Spawning, Harmless, Calm
  <2>2. \A i \in mem.active \cup Spawning : run'[i].agent = run[i].agent
    BY <1>1 DEF Kept, Known, Sound, Created, Spawning, Harmless, RowsKept
  <2> QED BY <2>1, <2>2 DEF Slotted, AgentExclusive, Spawning
<1> QED BY <1>3, <1>5, <1>6, <1>7 DEF Slotted

LEMMA SlottedNext ==
  ASSUME SoleDispatcher, Kept, Slotted, [Next]_vars
  PROVE  Slotted'
<1>1. /\ MaxConcurrentRuns \in Nat /\ cyc.slots \in Nat /\ Cardinality(mem.active) \in Nat
      /\ mem.active \in SUBSET Run /\ cyc \in Cycles /\ TypeOK
  BY LimitsAssumption, SessionsFinite DEF Kept, TypeOK, Memory, Cycles
<1>2. CASE CyclePlans
  <2>1. UNCHANGED <<run, mem, dpc>> /\ cyc.pc = "stall"
    BY <1>2, CyclePlansTyped
  <2>2. Spawning' = {}
    BY <2>1 DEF Slotted, Spawning
  <2>3. cyc'.pc \in {"loop", "await"} => Cardinality(mem'.active) + cyc'.slots <= MaxConcurrentRuns
    BY <1>1, <1>2, <2>1, CyclePlansTyped
  <2>4. AgentExclusive' /\ Cardinality(mem'.active) <= MaxConcurrentRuns
    BY <2>1 DEF Slotted, AgentExclusive
  <2> QED BY <2>2, <2>3, <2>4 DEF Slotted
<1>3. ASSUME NEW i \in Run, SpawnDone(i) PROVE Slotted'
  <2>1. /\ cyc.pc = "await" /\ cyc.run = i /\ i \notin mem.active /\ i \in Spawning
        /\ \A j \in Run : dpc[j] # "none" => j = i
    BY <1>3 DEF SpawnDone, Slotted, Spawning
  <2>2. /\ mem'.active = mem.active \cup {i} /\ UNCHANGED run
        /\ dpc' = [dpc EXCEPT ![i] = "none"]
    BY <1>3, SpawnDoneTyped DEF SpawnDone, durable
  <2>3. cyc'.pc = "loop" /\ cyc'.slots = cyc.slots - 1
    BY <1>1, <1>3, <2>1 DEF SpawnDone, Resumed, Cycles
  <2>4. Spawning' = {}
    BY <1>1, <2>1, <2>2 DEF Spawning, TypeOK
  <2>5. Cardinality(mem'.active) = Cardinality(mem.active) + 1
    <3>1. IsFiniteSet(mem.active)
      BY <1>1, DeadFinite
    <3> QED BY <2>1, <2>2, <3>1, FS_AddElement
  <2>6. cyc.slots > 0 /\ Cardinality(mem.active) + cyc.slots <= MaxConcurrentRuns
    BY <2>1 DEF Kept, Waits, Slotted
  <2>7. AgentExclusive'
    <3>1. mem'.active \cup Spawning' \subseteq mem.active \cup Spawning
      BY <2>1, <2>2, <2>4
    <3> QED BY <2>2, <3>1 DEF Slotted, AgentExclusive, Spawning
  <2>8. /\ Cardinality(mem'.active) <= MaxConcurrentRuns
        /\ Cardinality(mem'.active) + cyc'.slots <= MaxConcurrentRuns
    BY <1>1, <2>3, <2>5, <2>6
  <2> QED BY <2>4, <2>7, <2>8 DEF Slotted
<1>4. ASSUME NEW i \in Run, DispatchThrows(i) PROVE Slotted'
  <2>1. /\ cyc.pc = "await" /\ cyc.run = i
        /\ \A j \in Run : dpc[j] # "none" => j = i
    BY <1>4 DEF DispatchThrows, Unwind, McpFails, Slotted, Spawning
  <2>2. UNCHANGED mem /\ RowsKept /\ dpc' = [dpc EXCEPT ![i] = "none"]
    BY <1>4, UnwindTyped DEF DispatchThrows, Unwind, McpFails
  <2>3. cyc'.pc = "loop" /\ cyc'.slots = cyc.slots
    <3>1. cyc' = Resumed(i, 0)
      BY <1>4 DEF DispatchThrows, Unwind, McpFails
    <3>2. cyc' = [cyc EXCEPT !.pc = "loop", !.run = 0, !.slots = cyc.slots - 0]
      BY <2>1, <3>1 DEF Resumed
    <3>3. cyc.slots - 0 = cyc.slots /\ cyc \in Cycles
      BY <1>1 DEF Kept, TypeOK, Cycles
    <3> QED BY <3>2, <3>3 DEF Cycles
  <2>4. Spawning' = {}
    BY <1>1, <2>1, <2>2 DEF Spawning, TypeOK
  <2>5. AgentExclusive'
    <3>1. \A j \in mem.active : run'[j].agent = run[j].agent
      BY <1>1, <2>2 DEF Kept, Known, Sound, Created, RowsKept
    <3> QED BY <2>2, <2>4, <3>1 DEF Slotted, AgentExclusive, Spawning
  <2> QED BY <2>1, <2>2, <2>3, <2>4, <2>5 DEF Slotted
<1>5. ASSUME NEW t \in Task, NEW a \in Agent, CycleDispatches(t, a) PROVE Slotted'
  <2> DEFINE k == Fresh
  <2>1. /\ dispatch(t, a) /\ ~isAgentBusy(a) /\ cyc.pc = "loop" /\ UNCHANGED mem
        /\ cyc' = [cyc EXCEPT !.pc = "await", !.run = k, !.tasks = @ \ {t}]
    BY <1>5 DEF CycleDispatches, CanTake
  <2>2. /\ k \in Run \ Created
        /\ run'[k] = Attempt(t, a) /\ \A i \in Run \ {k} : run'[i] = run[i]
        /\ \A i \in Run \ {k} : dpc'[i] = dpc[i]
    BY <2>1, DispatchKeeps, Zenon
  <2> HIDE DEF k
  <2>3. k \notin mem.active
    BY <2>2 DEF Kept, Known, Sound
  <2>4. \A i \in Run \ {k} : dpc[i] = "none"
    BY <2>1 DEF Slotted, Spawning
  <2>5. Spawning' \subseteq {k}
    BY <2>2, <2>4 DEF Spawning
  <2>6. cyc'.pc = "await" /\ cyc'.run = k /\ cyc'.slots = cyc.slots
    BY <1>1, <2>1 DEF Cycles
  <2>7. run'[k].agent = a
    BY <2>2 DEF Attempt
  <2>8. AgentExclusive'
    <3>1. \A i \in mem.active : run'[i].agent = run[i].agent /\ run[i].agent # a
      BY <1>1, <2>1, <2>2, <2>3 DEF isAgentBusy
    <3>2. \A i \in mem'.active \cup Spawning' : i \in mem.active \/ i = k
      BY <2>1, <2>5
    <3>3. \A i, j \in mem.active : run[i].agent = run[j].agent => i = j
      BY DEF Slotted, AgentExclusive
    <3>4. \A i, j \in mem'.active \cup Spawning' : run'[i].agent = run'[j].agent => i = j
      BY <2>7, <3>1, <3>2, <3>3
    <3> QED BY <3>4 DEF AgentExclusive, Spawning
  <2>9. /\ Cardinality(mem'.active) <= MaxConcurrentRuns
        /\ Cardinality(mem'.active) + cyc'.slots <= MaxConcurrentRuns
    BY <2>1, <2>6 DEF Slotted
  <2> QED BY <2>1, <2>3, <2>5, <2>6, <2>8, <2>9 DEF Slotted
<1>6. ASSUME NEW t \in Task, NEW a \in Agent, manualDispatch(t, a) PROVE FALSE
  BY <1>6 DEF manualDispatch, SoleDispatcher
<1> QED BY <1>2, <1>3, <1>4, <1>5, <1>6, SlottedStays, StepKinds DEF Eventful

LEMMA SlottedAlways == SoleDispatcher => (Spec => []Slotted)
<1> SUFFICES ASSUME SoleDispatcher PROVE Spec => []Slotted
  OBVIOUS
<1>1. Init => Slotted
  <2>1. Cardinality({}) = 0 /\ MaxConcurrentRuns \in Nat
    BY FS_EmptySet, LimitsAssumption
  <2> QED BY <2>1 DEF Init, Slotted, Spawning, EmptyMemory, AgentExclusive, At
<1>2. Kept /\ Slotted /\ [Next]_vars => Slotted'
  BY SlottedNext
<1> QED BY <1>1, <1>2, Invariance, PTL DEF Spec

\* Sessions and spawns together stay within maxConcurrentRuns, although a cycle counts
\* only the sessions, and only once; an operator's dispatch asks for no slot.
THEOREM SlotsAreRespected == SoleDispatcher => (Spec => []SlotsRespected)
<1>1. ASSUME Kept, Slotted PROVE SlotsRespected
  <2>1. /\ MaxConcurrentRuns \in Nat /\ Cardinality(mem.active) \in Nat /\ IsFiniteSet(mem.active)
        /\ cyc.slots \in Nat
    BY <1>1, LimitsAssumption, SessionsFinite DEF Kept, TypeOK
  <2>2. CASE Spawning = {}
    <3>1. mem.active \cup Spawning = mem.active
      BY <2>2
    <3> QED BY <1>1, <3>1 DEF SlotsRespected, Slotted, Spawning
  <2>3. CASE Spawning # {}
    <3>1. PICK i : i \in Spawning
      BY <2>3
    <3>2. /\ i \notin mem.active /\ mem.active \cup Spawning = mem.active \cup {i}
          /\ cyc.pc = "await"
      BY <1>1, <3>1 DEF Slotted
    <3>3. Cardinality(mem.active \cup Spawning) = Cardinality(mem.active) + 1
      <4> DEFINE S == mem.active
      <4>1. IsFiniteSet(S) /\ i \notin S
        BY <2>1, <3>2
      <4> HIDE DEF S
      <4>2. Cardinality(S \cup {i}) = Cardinality(S) + 1
        BY <4>1, FS_AddElement
      <4> QED BY <3>2, <4>2 DEF S
    <3>4. cyc.slots > 0 /\ Cardinality(mem.active) + cyc.slots <= MaxConcurrentRuns
      BY <1>1, <3>2 DEF Kept, Waits, Slotted
    <3>5. Cardinality(mem.active \cup Spawning) <= MaxConcurrentRuns
      BY <2>1, <3>3, <3>4
    <3> QED BY <3>5 DEF SlotsRespected, Spawning
  <2> QED BY <2>2, <2>3
<1> QED BY <1>1, Invariance, SlottedAlways, PTL

\* The cycle never gives an agent two attempts: whoever is free when it is asked has
\* neither a session nor a spawn.
THEOREM AgentsAreExclusive == SoleDispatcher => (Spec => []AgentExclusive)
<1>1. Slotted => AgentExclusive
  BY DEF Slotted
<1> QED BY <1>1, SlottedAlways, PTL

================================================================================
