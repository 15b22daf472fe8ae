----------------------------- MODULE AttemptLease -----------------------------
(***************************************************************************)
(* The attempt lease (core/src/repos/attempt-lease.ts) and the writes that  *)
(* are fenced with its token (repos/run.ts, run-checkpoint.ts, evidence.ts),*)
(* as several factory processes use them over one SQLite file.              *)
(*                                                                          *)
(* The table is keyed by attempt; its only caller uses the run id as the    *)
(* attempt id (dispatcher-lease.ts), so a run has one row.  A session is    *)
(* named by the process that spawned it.  A call that checks the fence and  *)
(* then issues a second statement is two steps, because nothing holds the   *)
(* database in between; inside one process JavaScript runs the two without  *)
(* a turn of the event loop, so a process with a call under way starts no   *)
(* other.                                                                   *)
(***************************************************************************)
EXTENDS Naturals

CONSTANTS Run,
          Owner,          \* process incarnations (host, pid, start time)
          NoOwner,
          Ttl,            \* lease duration: twice the heartbeat timeout
          MaxClock,       \* bound on the clock
          MaxToken,       \* bound on the fence sequence
          SingleProcess   \* TRUE: a process starts only when no other is up

ASSUME NoOwnerAssumption == NoOwner \notin Owner
ASSUME TtlAssumption == Ttl \in Nat \ {0}
ASSUME BoundsAssumption == MaxClock \in Nat /\ MaxToken \in Nat
ASSUME SingleProcessAssumption == SingleProcess \in BOOLEAN

VARIABLES phase,   \* "new", "up" or "dead", per process
          clock,   \* wall clock shared by the processes of one host
          seq,     \* last value of attempt_fence_sequence
          lease,   \* the attempt_leases table
          held,    \* fence token each process keeps in memory, 0 for none
          call,    \* the call each process has between its check and its write
          row      \* token under which the run's row was last written

vars == <<phase, clock, seq, lease, held, call, row>>

Idle == [op |-> "idle"]
Calls == [op : {"write", "attach", "renew"}, run : Run, token : Nat, at : Nat]
Rows == [status : {"none", "active", "released", "expired"},
         owner : Owner \cup {NoOwner}, session : Owner \cup {NoOwner},
         token : Nat, expires : Nat]

TypeOK ==
  /\ phase \in [Owner -> {"new", "up", "dead"}]
  /\ clock \in Nat
  /\ seq \in Nat
  /\ lease \in [Run -> Rows]
  /\ held \in [Owner -> [Run -> Nat]]
  /\ call \in [Owner -> Calls \cup {Idle}]
  /\ row \in [Run -> Nat]

Absent == [status |-> "none", owner |-> NoOwner, session |-> NoOwner, token |-> 0, expires |-> 0]

Active(table, r) == table[r].status = "active"

Init ==
  /\ phase = [p \in Owner |-> "new"]
  /\ clock = 0
  /\ seq = 0
  /\ lease = [r \in Run |-> Absent]
  /\ held = [p \in Owner |-> [r \in Run |-> 0]]
  /\ call = [p \in Owner |-> Idle]
  /\ row = [r \in Run |-> 0]

Ready(p) == phase[p] = "up" /\ call[p] = Idle

--------------------------------------------------------------------------------
(* Processes and time.                                                        *)

Start(p) ==
  /\ phase[p] = "new"
  /\ SingleProcess => \A q \in Owner : phase[q] # "up"
  /\ phase' = [phase EXCEPT ![p] = "up"]
  /\ UNCHANGED <<clock, seq, lease, held, call, row>>

\* The process dies: its memory goes, the table and the rows stay.
Crash(p) ==
  /\ phase[p] = "up"
  /\ phase' = [phase EXCEPT ![p] = "dead"]
  /\ held' = [held EXCEPT ![p] = [r \in Run |-> 0]]
  /\ call' = [call EXCEPT ![p] = Idle]
  /\ UNCHANGED <<clock, seq, lease, row>>

Tick ==
  /\ clock < MaxClock
  /\ clock' = clock + 1
  /\ UNCHANGED <<phase, seq, lease, held, call, row>>

--------------------------------------------------------------------------------
(* The lease repository.                                                      *)

\* UPDATE ... SET status = 'expired' WHERE status = 'active' AND expires_at <= now.
expireDueLeases ==
  [r \in Run |-> IF Active(lease, r) /\ lease[r].expires <= clock
                 THEN [lease[r] EXCEPT !.status = "expired"]
                 ELSE lease[r]]

CanWrite(table, r, token) == Active(table, r) /\ table[r].token = token

\* Mutant: the row is replaced without clearing the session of its last owner.
acquireKeepingSession(p, r) ==
  /\ Ready(p)
  /\ ~Active(expireDueLeases, r)
  /\ seq < MaxToken
  /\ seq' = seq + 1
  /\ lease' = [expireDueLeases EXCEPT ![r] = [status |-> "active", owner |-> p, session |-> @.session,
                                              token |-> seq + 1, expires |-> clock + Ttl]]
  /\ held' = [held EXCEPT ![p][r] = seq + 1]
  /\ UNCHANGED <<phase, clock, call, row>>

\* Mutant: an active lease is handed out without comparing its owner.
acquireOfAnyOwner(p, r) ==
  /\ Ready(p)
  /\ lease' = [expireDueLeases EXCEPT ![r] =
       IF @.status = "active" THEN @
       ELSE [status |-> "active", owner |-> p, session |-> NoOwner,
             token |-> seq + 1, expires |-> clock + Ttl]]
  /\ seq < MaxToken
  /\ seq' = IF Active(expireDueLeases, r) THEN seq ELSE seq + 1
  /\ held' = [held EXCEPT ![p][r] = lease'[r].token]
  /\ UNCHANGED <<phase, clock, call, row>>

\* Mutant: an active lease is replaced whoever owns it.
acquireOverActive(p, r) ==
  /\ Ready(p)
  /\ seq < MaxToken
  /\ seq' = seq + 1
  /\ lease' = [expireDueLeases EXCEPT ![r] = [status |-> "active", owner |-> p, session |-> NoOwner,
                                              token |-> seq + 1, expires |-> clock + Ttl]]
  /\ held' = [held EXCEPT ![p][r] = seq + 1]
  /\ UNCHANGED <<phase, clock, call, row>>

\* An active lease of the same attempt and owner is returned as it is; one of
\* another owner makes acquire throw, which rolls the transaction back (no
\* step); otherwise the row is replaced under the next token of the sequence.
acquire(p, r) ==
  LET table == expireDueLeases IN
  /\ Ready(p)
  /\ \/ /\ Active(table, r)
        /\ table[r].owner = p
        /\ lease' = table
        /\ held' = [held EXCEPT ![p][r] = table[r].token]
        /\ UNCHANGED seq
     \/ /\ ~Active(table, r)
        /\ seq < MaxToken
        /\ seq' = seq + 1
        /\ lease' = [table EXCEPT ![r] = [status |-> "active", owner |-> p, session |-> NoOwner,
                                          token |-> seq + 1, expires |-> clock + Ttl]]
        /\ held' = [held EXCEPT ![p][r] = seq + 1]
  /\ UNCHANGED <<phase, clock, call, row>>

\* assertCanWriteByAttempt: token and status, not the clock.
AttachCheck(p, r) ==
  /\ Ready(p)
  /\ held[p][r] # 0
  /\ CanWrite(lease, r, held[p][r])
  /\ call' = [call EXCEPT ![p] = [op |-> "attach", run |-> r, token |-> held[p][r], at |-> clock]]
  /\ UNCHANGED <<phase, clock, seq, lease, held, row>>

\* UPDATE ... SET session_id WHERE attempt_id: neither token nor status again.
AttachUpdate(p) ==
  LET r == call[p].run IN
  /\ call[p] # Idle
  /\ call[p].op = "attach"
  /\ lease' = [lease EXCEPT ![r].session = p]
  /\ call' = [call EXCEPT ![p] = Idle]
  /\ UNCHANGED <<phase, clock, seq, held, row>>

\* The token a call presents: the one the process holds, or, for a request of a
\* worker session (lease-fence.ts), the one of the active lease of that session.
Presents(p, r, token) ==
  \/ held[p][r] # 0 /\ token = held[p][r]
  \/ Active(expireDueLeases, r) /\ lease[r].session # NoOwner /\ token = lease[r].token

\* Mutant: the fence compares the token and forgets the status.
assertTokenOnly(p, r, token, op) ==
  /\ Ready(p)
  /\ Presents(p, r, token)
  /\ lease' = expireDueLeases
  /\ call' = [call EXCEPT ![p] = IF lease[r].token = token
                                 THEN [op |-> op, run |-> r, token |-> token, at |-> clock]
                                 ELSE Idle]
  /\ UNCHANGED <<phase, clock, seq, held, row>>

\* assertCanWrite: expires what is due, then wants the token's row active.
assertCanWrite(p, r, token, op) ==
  LET table == expireDueLeases IN
  /\ Ready(p)
  /\ Presents(p, r, token)
  /\ lease' = table
  /\ call' = [call EXCEPT ![p] = IF CanWrite(table, r, token)
                                 THEN [op |-> op, run |-> r, token |-> token, at |-> clock]
                                 ELSE Idle]
  /\ UNCHANGED <<phase, clock, seq, held, row>>

RenewCheck(p, r, token) == assertCanWrite(p, r, token, "renew")
WriteCheck(p, r, token) == assertCanWrite(p, r, token, "write")

\* UPDATE ... SET expires_at WHERE run, token and status = 'active'.
RenewUpdate(p) ==
  LET r == call[p].run IN
  /\ call[p] # Idle
  /\ call[p].op = "renew"
  /\ lease' = IF CanWrite(lease, r, call[p].token)
              THEN [lease EXCEPT ![r].expires = call[p].at + Ttl] ELSE lease
  /\ call' = [call EXCEPT ![p] = Idle]
  /\ UNCHANGED <<phase, clock, seq, held, row>>

\* The fenced write itself: terminal state, tokens, checkpoint or evidence.
WriteUpdate(p) ==
  /\ call[p] # Idle
  /\ call[p].op = "write"
  /\ row' = [row EXCEPT ![call[p].run] = call[p].token]
  /\ call' = [call EXCEPT ![p] = Idle]
  /\ UNCHANGED <<phase, clock, seq, lease, held>>

\* Mutant: a released row gets a status the table's CHECK does not list.
releaseUnlisted(p, r) ==
  /\ Ready(p)
  /\ held[p][r] # 0
  /\ lease' = IF CanWrite(lease, r, held[p][r])
              THEN [lease EXCEPT ![r].status = "closed"] ELSE lease
  /\ held' = [held EXCEPT ![p][r] = 0]
  /\ UNCHANGED <<phase, clock, seq, call, row>>

\* Mutant: release deletes the row, and with it the highest token of the run.
releaseDeleting(p, r) ==
  /\ Ready(p)
  /\ held[p][r] # 0
  /\ lease' = IF CanWrite(lease, r, held[p][r])
              THEN [lease EXCEPT ![r] = Absent] ELSE lease
  /\ held' = [held EXCEPT ![p][r] = 0]
  /\ UNCHANGED <<phase, clock, seq, call, row>>

\* A release under a token that is no longer the active one changes no row.
release(p, r) ==
  /\ Ready(p)
  /\ held[p][r] # 0
  /\ lease' = IF CanWrite(lease, r, held[p][r])
              THEN [lease EXCEPT ![r].status = "released"] ELSE lease
  /\ held' = [held EXCEPT ![p][r] = 0]
  /\ UNCHANGED <<phase, clock, seq, call, row>>

\* The slot GC and the API's orphan pass expire a run's lease whoever holds it.
expireRun(p, r) ==
  /\ Ready(p)
  /\ Active(lease, r)
  /\ lease' = [lease EXCEPT ![r].status = "expired"]
  /\ UNCHANGED <<phase, clock, seq, held, call, row>>

\* getActiveForRun and getActiveForSession expire due rows as they read.
getActive(p) ==
  /\ Ready(p)
  /\ lease' = expireDueLeases
  /\ UNCHANGED <<phase, clock, seq, held, call, row>>

Next ==
  \/ Tick
  \/ \E p \in Owner :
       \/ Start(p) \/ Crash(p) \/ getActive(p)
       \/ AttachUpdate(p) \/ RenewUpdate(p) \/ WriteUpdate(p)
       \/ \E r \in Run :
            \/ acquire(p, r) \/ release(p, r) \/ expireRun(p, r) \/ AttachCheck(p, r)
            \/ \E token \in 1 .. seq : RenewCheck(p, r, token) \/ WriteCheck(p, r, token)

Spec == Init /\ [][Next]_vars

--------------------------------------------------------------------------------
(* Properties.                                                                *)

\* A process whose token the table would accept is the process the row names:
\* no two processes can both pass the fence of one run.
SoleHolder ==
  \A p \in Owner, r \in Run :
    held[p][r] # 0 /\ CanWrite(lease, r, held[p][r]) => lease[r].owner = p

\* The session a live lease names was spawned by the owner of that lease, so
\* a worker of an earlier owner never resolves to the new owner's token.
SessionOfHolder ==
  \A r \in Run : Active(lease, r) => lease[r].session \in {lease[r].owner, NoOwner}

\* A fenced write lands only under the token of the lease that is active then:
\* a worker presumed dead cannot write a run that a new owner has taken over.
FencedWrites ==
  [][\A r \in Run : row'[r] # row[r] => CanWrite(lease, r, row'[r])]_vars

\* A lease passes straight from one owner to another only after its time is up.
TakeoverAfterExpiry ==
  [][\A r \in Run :
       Active(lease, r) /\ Active(lease', r) /\ lease'[r].owner # lease[r].owner
         => lease[r].expires <= clock]_vars

\* The lease implements the fenced register.
Register == INSTANCE FencedRegister WITH
  holder <- [r \in Run |-> IF Active(lease, r) THEN lease[r].owner ELSE NoOwner],
  epoch  <- [r \in Run |-> lease[r].token],
  value  <- row

ImplementsRegister == Register!Spec
================================================================================
