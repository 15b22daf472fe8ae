-------------------------- MODULE AttemptLease_proofs --------------------------
(***************************************************************************)
(* For every set of runs and of processes and every lease duration: the     *)
(* types, the single holder, and, when one process uses the file at a time, *)
(* the fence and the refinement of FencedRegister.                          *)
(***************************************************************************)
EXTENDS AttemptLease, TLAPS

\* Tokens come from one sequence, and no two runs share one.
TokensFresh ==
  /\ \A r \in Run : lease[r].token <= seq
  /\ \A r, q \in Run : r # q /\ lease[r].token = lease[q].token => lease[r].token = 0
  /\ \A p \in Owner, r \in Run : held[p][r] <= seq

\* An active row was granted, and a process that remembers its token was the
\* one it was granted to.
GrantedToHolder ==
  /\ \A r \in Run : Active(lease, r) => lease[r].owner \in Owner /\ lease[r].token # 0
  /\ \A p \in Owner, r \in Run :
       held[p][r] # 0 /\ held[p][r] = lease[r].token => lease[r].owner = p

\* Between its check and its write, the only process that is up still has the
\* lease it checked.
CheckStillValid ==
  /\ \A p \in Owner : call[p] # Idle => phase[p] = "up"
  /\ SingleProcess =>
       /\ \A p, q \in Owner : phase[p] = "up" /\ phase[q] = "up" => p = q
       /\ \A p \in Owner : call[p] # Idle => CanWrite(lease, call[p].run, call[p].token)
       /\ \A p \in Owner :
            call[p] # Idle /\ call[p].op = "attach" => lease[call[p].run].owner = p

IInv == TypeOK /\ TokensFresh /\ GrantedToHolder /\ CheckStillValid

\* The sweep changes nothing but the status of the rows that are due.
LEMMA SweepFacts ==
  ASSUME TypeOK
  PROVE  /\ expireDueLeases \in [Run -> Rows]
         /\ \A r \in Run :
              /\ expireDueLeases[r].token = lease[r].token
              /\ expireDueLeases[r].owner = lease[r].owner
              /\ expireDueLeases[r].session = lease[r].session
              /\ expireDueLeases[r].expires = lease[r].expires
              /\ Active(expireDueLeases, r) => Active(lease, r)
              /\ Active(lease, r) /\ ~Active(expireDueLeases, r) => lease[r].expires <= clock
  BY DEF TypeOK, expireDueLeases, Rows, Active

\* The second statement of a call leaves tokens, owners and statuses alone.
LEMMA UpdateFacts ==
  ASSUME TypeOK, NEW p \in Owner, AttachUpdate(p) \/ RenewUpdate(p) \/ WriteUpdate(p)
  PROVE  /\ seq' = seq /\ held' = held
         /\ \A r \in Run : /\ lease'[r].token = lease[r].token
                           /\ lease'[r].owner = lease[r].owner
                           /\ lease'[r].status = lease[r].status
                           /\ Active(lease', r) => Active(lease, r)
<1>1. CASE AttachUpdate(p)
  <2>1. /\ seq' = seq /\ held' = held
        /\ lease' = [lease EXCEPT ![call[p].run].session = p]
    BY <1>1 DEF AttachUpdate
  <2> QED BY <2>1 DEF TypeOK, Rows, Active
<1>2. CASE RenewUpdate(p)
  <2>1. /\ seq' = seq /\ held' = held
        /\ \/ lease' = lease
           \/ lease' = [lease EXCEPT ![call[p].run].expires = call[p].at + Ttl]
    BY <1>2 DEF RenewUpdate
  <2>2. CASE lease' = lease
    BY <2>1, <2>2
  <2>3. CASE lease' = [lease EXCEPT ![call[p].run].expires = call[p].at + Ttl]
    BY <2>1, <2>3 DEF TypeOK, Rows, Active
  <2> QED BY <2>1, <2>2, <2>3
<1>3. CASE WriteUpdate(p)
  BY <1>3 DEF WriteUpdate, Active
<1> QED BY <1>1, <1>2, <1>3

\* Release, expiry and the attach check only take the status of one row down.
LEMMA RowCallFacts ==
  ASSUME TypeOK, NEW p \in Owner, NEW r \in Run,
         release(p, r) \/ expireRun(p, r) \/ AttachCheck(p, r)
  PROVE  /\ seq' = seq
         /\ \A s \in Owner, q \in Run : held'[s][q] \in {0, held[s][q]}
         /\ \A q \in Run : /\ lease'[q].token = lease[q].token
                           /\ lease'[q].owner = lease[q].owner
                           /\ Active(lease', q) => Active(lease, q)
<1>1. CASE release(p, r)
  <2>1. /\ seq' = seq /\ held' = [held EXCEPT ![p][r] = 0]
        /\ lease' = lease \/ lease' = [lease EXCEPT ![r].status = "released"]
    BY <1>1 DEF release
  <2>2. \A s \in Owner, q \in Run : held'[s][q] \in {0, held[s][q]}
    BY <2>1 DEF TypeOK
  <2>3. CASE lease' = lease
    BY <2>1, <2>2, <2>3
  <2>4. CASE lease' = [lease EXCEPT ![r].status = "released"]
    BY <2>1, <2>2, <2>4 DEF TypeOK, Rows, Active
  <2> QED BY <2>1, <2>3, <2>4
<1>2. CASE expireRun(p, r)
  BY <1>2 DEF expireRun, TypeOK, Rows, Active
<1>3. CASE AttachCheck(p, r)
  BY <1>3 DEF AttachCheck, Active
<1> QED BY <1>1, <1>2, <1>3

\* Nothing is held, called or granted before the first process starts.
LEMMA InitInvariant == Init => IInv
  BY NoOwnerAssumption DEF Init, IInv, TypeOK, TokensFresh, GrantedToHolder, CheckStillValid,
     Active, Absent, Rows, Calls, Idle, CanWrite

\* Every step keeps the types.
LEMMA TypeStep == TypeOK /\ [Next]_vars => TypeOK'
<1> SUFFICES ASSUME TypeOK, [Next]_vars PROVE TypeOK'
  OBVIOUS
<1>0. clock \in Nat /\ seq \in Nat /\ clock + Ttl \in Nat /\ Idle \notin Calls
  BY TtlAssumption DEF TypeOK, Idle, Calls
<1>1. CASE Tick
  BY <1>1, <1>0 DEF Tick, TypeOK
<1>2. ASSUME NEW p \in Owner, Start(p) PROVE TypeOK'
  BY <1>2 DEF Start, TypeOK
<1>3. ASSUME NEW p \in Owner, Crash(p) PROVE TypeOK'
  BY <1>3 DEF Crash, TypeOK
<1>4. ASSUME NEW p \in Owner, getActive(p) PROVE TypeOK'
  BY <1>4, SweepFacts DEF getActive, TypeOK
<1>5. ASSUME NEW p \in Owner, AttachUpdate(p) PROVE TypeOK'
  <2> DEFINE r == call[p].run
             row2 == [lease[r] EXCEPT !.session = p]
  <2>1. call[p] \in Calls /\ r \in Run /\ lease \in [Run -> Rows]
    BY <1>5 DEF AttachUpdate, TypeOK, Calls
  <2>2. row2 \in Rows
    BY <2>1 DEF Rows
  <2>3. lease' = [lease EXCEPT ![r] = row2]
    BY <1>5, <2>1 DEF AttachUpdate
  <2> HIDE DEF row2, r
  <2>4. lease' \in [Run -> Rows]
    BY <2>1, <2>2, <2>3
  <2> QED BY <1>5, <2>4 DEF AttachUpdate, TypeOK
<1>6. ASSUME NEW p \in Owner, RenewUpdate(p) PROVE TypeOK'
  <2>1. call[p] \in Calls
    BY <1>6 DEF RenewUpdate, TypeOK
  <2>2. call[p].at + Ttl \in Nat
    BY <2>1, TtlAssumption DEF Calls
  <2> DEFINE r == call[p].run
             row2 == [lease[r] EXCEPT !.expires = call[p].at + Ttl]
  <2>3. r \in Run /\ lease \in [Run -> Rows]
    BY <2>1 DEF TypeOK, Calls
  <2>4. row2 \in Rows
    BY <2>2, <2>3 DEF Rows
  <2>5. lease' = lease \/ lease' = [lease EXCEPT ![r] = row2]
    BY <1>6, <2>3 DEF RenewUpdate
  <2> HIDE DEF row2, r
  <2>6. lease' \in [Run -> Rows]
    BY <2>3, <2>4, <2>5
  <2> QED BY <1>6, <2>6 DEF RenewUpdate, TypeOK
<1>7. ASSUME NEW p \in Owner, WriteUpdate(p) PROVE TypeOK'
  <2>1. call[p] \in Calls
    BY <1>7 DEF WriteUpdate, TypeOK
  <2> QED BY <1>7, <2>1 DEF WriteUpdate, TypeOK, Calls
<1>8. ASSUME NEW p \in Owner, NEW r \in Run, acquire(p, r) PROVE TypeOK'
  <2>1. CASE seq' = seq
    BY <1>8, <2>1, <1>0, SweepFacts DEF acquire, TypeOK, Rows
  <2>2. CASE seq' = seq + 1
    <3> DEFINE granted == [status |-> "active", owner |-> p, session |-> NoOwner,
                           token |-> seq + 1, expires |-> clock + Ttl]
    <3>1. granted \in Rows
      BY <1>0 DEF Rows
    <3>2. lease' = [expireDueLeases EXCEPT ![r] = granted] /\ held' = [held EXCEPT ![p][r] = seq + 1]
      BY <1>8, <2>2, <1>0 DEF acquire
    <3> HIDE DEF granted
    <3> QED BY <1>8, <2>2, <3>1, <3>2, <1>0, SweepFacts DEF acquire, TypeOK
  <2> QED BY <1>8, <2>1, <2>2 DEF acquire
<1>9. ASSUME NEW p \in Owner, NEW r \in Run, release(p, r) PROVE TypeOK'
  BY <1>9 DEF release, TypeOK, Rows
<1>10. ASSUME NEW p \in Owner, NEW r \in Run, expireRun(p, r) PROVE TypeOK'
  BY <1>10 DEF expireRun, TypeOK, Rows
<1>11. ASSUME NEW p \in Owner, NEW r \in Run, AttachCheck(p, r) PROVE TypeOK'
  BY <1>11, <1>0 DEF AttachCheck, TypeOK, Calls
<1>12. ASSUME NEW p \in Owner, NEW r \in Run, NEW token \in 1 .. seq, NEW op \in {"renew", "write"},
              assertCanWrite(p, r, token, op)
       PROVE  TypeOK'
  BY <1>12, <1>0, SweepFacts DEF assertCanWrite, TypeOK, Calls
<1>13. CASE UNCHANGED vars
  BY <1>13 DEF vars, TypeOK
<1> QED
  BY <1>1, <1>2, <1>3, <1>4, <1>5, <1>6, <1>7, <1>8, <1>9, <1>10, <1>11, <1>12, <1>13
     DEF Next, RenewCheck, WriteCheck
--------------------------------------------------------------------------------

\* Every step keeps the tokens below the sequence and apart.
LEMMA TokenStep == TypeOK /\ TokensFresh /\ [Next]_vars => TokensFresh'
<1> SUFFICES ASSUME TypeOK, TokensFresh, [Next]_vars PROVE TokensFresh'
  OBVIOUS
<1>1. ASSUME NEW p \in Owner, NEW r \in Run, acquire(p, r) PROVE TokensFresh'
  <2>1. CASE seq' = seq
    <3>1. lease' = expireDueLeases /\ held' = [held EXCEPT ![p][r] = lease[r].token]
      BY <1>1, <2>1, SweepFacts DEF acquire, TypeOK
    <3>2. \A s \in Owner, q \in Run : held'[s][q] <= seq
      BY <3>1 DEF TypeOK, TokensFresh
    <3> QED BY <2>1, <3>1, <3>2, SweepFacts DEF TokensFresh
  <2>2. CASE seq' = seq + 1
    <3>1. /\ lease'[r].token = seq + 1
          /\ \A q \in Run : q # r => lease'[q].token = lease[q].token
          /\ held' = [held EXCEPT ![p][r] = seq + 1]
      BY <1>1, <2>2, SweepFacts DEF acquire, TypeOK
    <3>2. \A q \in Run : lease[q].token \in Nat /\ lease[q].token <= seq
      BY DEF TypeOK, TokensFresh, Rows
    <3>3. (\A q \in Run : lease[q].token <= seq)'
      BY <2>2, <3>1, <3>2 DEF TypeOK
    <3>4. \A q, s \in Run : q # s /\ lease'[q].token = lease'[s].token => lease'[q].token = 0
      BY <3>1, <3>2 DEF TypeOK, TokensFresh
    <3>5. (\A q \in Owner, s \in Run : held[q][s] <= seq)'
      BY <2>2, <3>1 DEF TypeOK, TokensFresh
    <3> QED BY <3>3, <3>4, <3>5 DEF TokensFresh
  <2> QED BY <1>1, <2>1, <2>2 DEF acquire
<1>2. ASSUME seq' = seq,
             \A r \in Run : lease'[r].token = lease[r].token,
             \A p \in Owner, r \in Run : held'[p][r] \in {0, held[p][r]}
      PROVE  TokensFresh'
  <2>1. \A p \in Owner, r \in Run : held'[p][r] <= seq
    BY <1>2 DEF TypeOK, TokensFresh
  <2> QED BY <1>2, <2>1 DEF TokensFresh
<1>3. CASE Tick
  BY <1>3, <1>2 DEF Tick
<1>4. ASSUME NEW p \in Owner, Start(p) PROVE TokensFresh'
  BY <1>4, <1>2 DEF Start
<1>5. ASSUME NEW p \in Owner, Crash(p) PROVE TokensFresh'
  BY <1>5, <1>2 DEF Crash, TypeOK
<1>6. ASSUME NEW p \in Owner, getActive(p) PROVE TokensFresh'
  BY <1>6, <1>2, SweepFacts DEF getActive
<1>7. ASSUME NEW p \in Owner, AttachUpdate(p) \/ RenewUpdate(p) \/ WriteUpdate(p) PROVE TokensFresh'
  <2>1. /\ seq' = seq /\ held' = held
        /\ \A r \in Run : /\ lease'[r].token = lease[r].token
                          /\ lease'[r].owner = lease[r].owner
                          /\ lease'[r].status = lease[r].status
                          /\ Active(lease', r) => Active(lease, r)
    BY <1>7, UpdateFacts
  <2> QED BY <1>2, <2>1
<1>8. ASSUME NEW p \in Owner, NEW r \in Run, release(p, r) \/ expireRun(p, r) \/ AttachCheck(p, r)
      PROVE  TokensFresh'
  <2>1. /\ seq' = seq
        /\ \A s \in Owner, q \in Run : held'[s][q] \in {0, held[s][q]}
        /\ \A q \in Run : /\ lease'[q].token = lease[q].token
                          /\ lease'[q].owner = lease[q].owner
                          /\ Active(lease', q) => Active(lease, q)
    BY <1>8, RowCallFacts
  <2> QED BY <1>2, <2>1
<1>9. ASSUME NEW p \in Owner, NEW r \in Run, NEW token \in 1 .. seq, NEW op \in {"renew", "write"},
             assertCanWrite(p, r, token, op)
      PROVE  TokensFresh'
  BY <1>9, <1>2, SweepFacts DEF assertCanWrite
<1>10. CASE UNCHANGED vars
  BY <1>10, <1>2 DEF vars
<1> QED
  BY <1>1, <1>3, <1>4, <1>5, <1>6, <1>7, <1>8, <1>9, <1>10 DEF Next, RenewCheck, WriteCheck

\* Every step keeps an active row owned by the process that remembers its token.
LEMMA HolderStep ==
  TypeOK /\ TokensFresh /\ GrantedToHolder /\ [Next]_vars => GrantedToHolder'
<1> SUFFICES ASSUME TypeOK, TokensFresh, GrantedToHolder, [Next]_vars PROVE GrantedToHolder'
  OBVIOUS
<1>1. ASSUME NEW p \in Owner, NEW r \in Run, acquire(p, r) PROVE GrantedToHolder'
  <2>1. CASE seq' = seq
    <3>1. /\ Active(expireDueLeases, r)
          /\ lease[r].owner = p
          /\ lease' = expireDueLeases
          /\ held' = [held EXCEPT ![p][r] = lease[r].token]
      BY <1>1, <2>1, SweepFacts DEF acquire, TypeOK
    <3> QED BY <3>1, SweepFacts DEF GrantedToHolder, TypeOK, Active
  <2>2. CASE seq' = seq + 1
    <3> DEFINE granted == [status |-> "active", owner |-> p, session |-> NoOwner,
                           token |-> seq + 1, expires |-> clock + Ttl]
    <3>1. /\ lease' = [expireDueLeases EXCEPT ![r] = granted]
          /\ held' = [held EXCEPT ![p][r] = seq + 1]
      BY <1>1, <2>2 DEF acquire, TypeOK
    <3>2. \A s \in Owner : held[s][r] \in Nat /\ held[s][r] # seq + 1
      BY DEF TypeOK, TokensFresh
    <3>3. lease'[r].owner = p /\ lease'[r].token = seq + 1 /\ seq + 1 # 0
      BY <3>1, SweepFacts DEF TypeOK
    <3>4. \A q \in Run : q # r => lease'[q] = expireDueLeases[q]
      BY <3>1, SweepFacts
    <3>5. \A q \in Run : Active(lease', q) => lease'[q].owner \in Owner /\ lease'[q].token # 0
      BY <3>3, <3>4, SweepFacts DEF GrantedToHolder, Active
    <3>6. \A s \in Owner, q \in Run :
            held'[s][q] # 0 /\ held'[s][q] = lease'[q].token => lease'[q].owner = s
      <4> TAKE s \in Owner, q \in Run
      <4>1. CASE q = r
        BY <4>1, <3>1, <3>2, <3>3 DEF TypeOK
      <4>2. CASE q # r
        BY <4>2, <3>1, <3>4, SweepFacts DEF TypeOK, GrantedToHolder
      <4> QED BY <4>1, <4>2
    <3> QED BY <3>5, <3>6 DEF GrantedToHolder, Active
  <2> QED BY <1>1, <2>1, <2>2 DEF acquire
<1>2. ASSUME \A r \in Run : /\ lease'[r].token = lease[r].token
                            /\ lease'[r].owner = lease[r].owner
                            /\ Active(lease', r) => Active(lease, r),
             \A p \in Owner, r \in Run : held'[p][r] \in {0, held[p][r]}
      PROVE  GrantedToHolder'
  BY <1>2 DEF GrantedToHolder, Active
<1>3. CASE Tick
  BY <1>3, <1>2 DEF Tick
<1>4. ASSUME NEW p \in Owner, Start(p) PROVE GrantedToHolder'
  BY <1>4, <1>2 DEF Start
<1>5. ASSUME NEW p \in Owner, Crash(p) PROVE GrantedToHolder'
  BY <1>5, <1>2 DEF Crash, TypeOK
<1>6. ASSUME NEW p \in Owner, getActive(p) PROVE GrantedToHolder'
  BY <1>6, <1>2, SweepFacts DEF getActive
<1>7. ASSUME NEW p \in Owner, AttachUpdate(p) \/ RenewUpdate(p) \/ WriteUpdate(p) PROVE GrantedToHolder'
  <2>1. /\ seq' = seq /\ held' = held
        /\ \A r \in Run : /\ lease'[r].token = lease[r].token
                          /\ lease'[r].owner = lease[r].owner
                          /\ lease'[r].status = lease[r].status
                          /\ Active(lease', r) => Active(lease, r)
    BY <1>7, UpdateFacts
  <2> QED BY <1>2, <2>1
<1>8. ASSUME NEW p \in Owner, NEW r \in Run, release(p, r) \/ expireRun(p, r) \/ AttachCheck(p, r)
      PROVE  GrantedToHolder'
  <2>1. /\ seq' = seq
        /\ \A s \in Owner, q \in Run : held'[s][q] \in {0, held[s][q]}
        /\ \A q \in Run : /\ lease'[q].token = lease[q].token
                          /\ lease'[q].owner = lease[q].owner
                          /\ Active(lease', q) => Active(lease, q)
    BY <1>8, RowCallFacts
  <2> QED BY <1>2, <2>1
<1>9. ASSUME NEW p \in Owner, NEW r \in Run, NEW token \in 1 .. seq, NEW op \in {"renew", "write"},
             assertCanWrite(p, r, token, op)
      PROVE  GrantedToHolder'
  BY <1>9, <1>2, SweepFacts DEF assertCanWrite
<1>10. CASE UNCHANGED vars
  BY <1>10, <1>2 DEF vars
<1> QED
  BY <1>1, <1>3, <1>4, <1>5, <1>6, <1>7, <1>8, <1>9, <1>10 DEF Next, RenewCheck, WriteCheck

\* Every step of the only process that is up leaves its check valid.
LEMMA CheckStep == IInv /\ [Next]_vars => CheckStillValid'
<1> SUFFICES ASSUME IInv, [Next]_vars PROVE CheckStillValid'
  OBVIOUS
<1> USE DEF IInv
<1>1. ASSUME NEW p \in Owner, phase[p] = "up", SingleProcess
      PROVE  \A q \in Owner : q # p => call[q] = Idle
  BY <1>1 DEF CheckStillValid
<1>2. ASSUME NEW p \in Owner, phase[p] = "up", phase' = phase,
             \A q \in Owner : q # p => call'[q] = call[q],
             call'[p] # Idle /\ SingleProcess =>
               /\ CanWrite(lease', call'[p].run, call'[p].token)
               /\ call'[p].op = "attach" => lease'[call'[p].run].owner = p
      PROVE  CheckStillValid'
  BY <1>1, <1>2 DEF CheckStillValid
<1>3. CASE Tick
  BY <1>3 DEF Tick, CheckStillValid, CanWrite, Active
<1>4. ASSUME NEW p \in Owner, Start(p) PROVE CheckStillValid'
  BY <1>4 DEF Start, CheckStillValid, CanWrite, Active, TypeOK
<1>5. ASSUME NEW p \in Owner, Crash(p) PROVE CheckStillValid'
  BY <1>5 DEF Crash, CheckStillValid, CanWrite, Active, TypeOK
<1>6. ASSUME NEW p \in Owner, AttachUpdate(p) \/ RenewUpdate(p) \/ WriteUpdate(p)
      PROVE  CheckStillValid'
  <2>1. phase[p] = "up" /\ phase' = phase /\ call' = [call EXCEPT ![p] = Idle]
    BY <1>6 DEF AttachUpdate, RenewUpdate, WriteUpdate, CheckStillValid
  <2> QED BY <2>1, <1>2 DEF TypeOK
<1>7. ASSUME NEW p \in Owner, NEW r \in Run, acquire(p, r) \/ release(p, r) \/ expireRun(p, r)
      PROVE  CheckStillValid'
  <2>1. phase[p] = "up" /\ phase' = phase /\ call[p] = Idle /\ call' = call
    BY <1>7 DEF acquire, release, expireRun, Ready
  <2> QED BY <2>1, <1>2
<1>8. ASSUME NEW p \in Owner, getActive(p) PROVE CheckStillValid'
  <2>1. phase[p] = "up" /\ phase' = phase /\ call[p] = Idle /\ call' = call
    BY <1>8 DEF getActive, Ready
  <2> QED BY <2>1, <1>2
<1>9. ASSUME NEW p \in Owner, NEW r \in Run, AttachCheck(p, r) PROVE CheckStillValid'
  <2>1. /\ phase[p] = "up" /\ phase' = phase /\ lease' = lease
        /\ held[p][r] # 0 /\ CanWrite(lease, r, held[p][r])
        /\ call' = [call EXCEPT ![p] = [op |-> "attach", run |-> r, token |-> held[p][r], at |-> clock]]
    BY <1>9 DEF AttachCheck, Ready
  <2>2. lease[r].owner = p
    BY <2>1 DEF GrantedToHolder, CanWrite
  <2>3. /\ call'[p].op = "attach" /\ call'[p].run = r /\ call'[p].token = held[p][r]
        /\ \A q \in Owner : q # p => call'[q] = call[q]
    BY <2>1 DEF TypeOK
  <2> QED BY <2>1, <2>2, <2>3, <1>2
<1>10. ASSUME NEW p \in Owner, NEW r \in Run, NEW token \in 1 .. seq, NEW op \in {"renew", "write"},
              assertCanWrite(p, r, token, op)
       PROVE  CheckStillValid'
  <2>1. /\ phase[p] = "up" /\ phase' = phase /\ lease' = expireDueLeases
        /\ \/ call' = [call EXCEPT ![p] = Idle]
           \/ /\ CanWrite(expireDueLeases, r, token)
              /\ call' = [call EXCEPT ![p] = [op |-> op, run |-> r, token |-> token, at |-> clock]]
    BY <1>10 DEF assertCanWrite, Ready
  <2>2. \A q \in Owner : q # p => call'[q] = call[q]
    BY <2>1 DEF TypeOK
  <2>3. CASE call' = [call EXCEPT ![p] = Idle]
    BY <2>1, <2>2, <2>3, <1>2 DEF TypeOK
  <2>4. CASE /\ CanWrite(expireDueLeases, r, token)
             /\ call' = [call EXCEPT ![p] = [op |-> op, run |-> r, token |-> token, at |-> clock]]
    <3>1. call'[p].op # "attach" /\ call'[p].run = r /\ call'[p].token = token
      BY <2>4 DEF TypeOK
    <3> QED BY <2>1, <2>2, <2>4, <3>1, <1>2
  <2> QED BY <2>1, <2>3, <2>4
<1>11. CASE UNCHANGED vars
  BY <1>11 DEF vars, CheckStillValid, CanWrite, Active
<1> QED
  BY <1>3, <1>4, <1>5, <1>6, <1>7, <1>8, <1>9, <1>10, <1>11 DEF Next, RenewCheck, WriteCheck

\* The inductive invariant holds in every reachable state.
LEMMA Invariance == Spec => []IInv
<1>1. IInv /\ [Next]_vars => IInv'
  BY TypeStep, TokenStep, HolderStep, CheckStep DEF IInv
<1> QED BY InitInvariant, <1>1, PTL DEF Spec

\* The variables keep their types.
THEOREM TypeCorrect == Spec => []TypeOK
<1>1. IInv => TypeOK
  BY DEF IInv
<1> QED BY Invariance, <1>1, PTL

\* However many processes share the file, at most one of them can pass the
\* fence of a run: the one the row names.
THEOREM HolderUnique == Spec => []SoleHolder
<1>1. IInv => SoleHolder
  BY DEF IInv, GrantedToHolder, SoleHolder, CanWrite
<1> QED BY Invariance, <1>1, PTL

\* However many processes share the file, a lease goes straight from one owner
\* to another only when its time is up.
THEOREM NoEarlyTakeover == Spec => TakeoverAfterExpiry
<1> DEFINE Step == \A r \in Run :
                     Active(lease, r) /\ Active(lease', r) /\ lease'[r].owner # lease[r].owner
                       => lease[r].expires <= clock
<1>1. TypeOK /\ [Next]_vars => Step
  <2> SUFFICES ASSUME TypeOK, [Next]_vars PROVE Step
    OBVIOUS
  <2>1. ASSUME NEW p \in Owner, NEW r \in Run, acquire(p, r) PROVE Step
    <3>1. \A q \in Run : q # r => lease'[q] = expireDueLeases[q]
      BY <2>1, SweepFacts DEF acquire
    <3>2. lease'[r].owner = lease[r].owner \/ ~Active(expireDueLeases, r)
      BY <2>1, SweepFacts DEF acquire
    <3> QED BY <3>1, <3>2, SweepFacts
  <2>2. ASSUME \A r \in Run : lease'[r].owner = lease[r].owner PROVE Step
    BY <2>2
  <2>3. CASE Tick
    BY <2>3, <2>2 DEF Tick
  <2>4. ASSUME NEW p \in Owner, Start(p) \/ Crash(p) PROVE Step
    BY <2>4, <2>2 DEF Start, Crash
  <2>5. ASSUME NEW p \in Owner, getActive(p) PROVE Step
    BY <2>5, <2>2, SweepFacts DEF getActive
  <2>6. ASSUME NEW p \in Owner, AttachUpdate(p) \/ RenewUpdate(p) \/ WriteUpdate(p) PROVE Step
    BY <2>6, <2>2, UpdateFacts
  <2>7. ASSUME NEW p \in Owner, NEW r \in Run, release(p, r) \/ expireRun(p, r) \/ AttachCheck(p, r)
        PROVE  Step
    BY <2>7, <2>2, RowCallFacts
  <2>8. ASSUME NEW p \in Owner, NEW r \in Run, NEW token \in 1 .. seq, NEW op \in {"renew", "write"},
               assertCanWrite(p, r, token, op)
        PROVE  Step
    BY <2>8, <2>2, SweepFacts DEF assertCanWrite
  <2>9. CASE UNCHANGED vars
    BY <2>9, <2>2 DEF vars
  <2> QED
    BY <2>1, <2>3, <2>4, <2>5, <2>6, <2>7, <2>8, <2>9 DEF Next, RenewCheck, WriteCheck
<1> QED BY TypeCorrect, <1>1, PTL DEF Spec, TakeoverAfterExpiry

--------------------------------------------------------------------------------
\* With one process on the file at a time, a fenced write lands only under the
\* token of the lease that is active then.
THEOREM WritesFenced == SingleProcess => (Spec => FencedWrites)
<1> DEFINE Step == \A r \in Run : row'[r] # row[r] => CanWrite(lease, r, row'[r])
<1> SUFFICES ASSUME SingleProcess PROVE Spec => FencedWrites
  OBVIOUS
<1>1. IInv /\ [Next]_vars => Step
  <2> SUFFICES ASSUME IInv, [Next]_vars PROVE Step
    OBVIOUS
  <2>1. ASSUME NEW p \in Owner, WriteUpdate(p) PROVE Step
    <3>1. CanWrite(lease, call[p].run, call[p].token)
      BY <2>1 DEF WriteUpdate, IInv, CheckStillValid
    <3> QED BY <2>1, <3>1 DEF WriteUpdate, IInv, TypeOK
  <2>2. CASE row' = row
    BY <2>2
  <2>3. ASSUME NEW p \in Owner, Start(p) \/ Crash(p) \/ getActive(p) \/ AttachUpdate(p) \/ RenewUpdate(p)
        PROVE  row' = row
    BY <2>3 DEF Start, Crash, getActive, AttachUpdate, RenewUpdate
  <2>4. ASSUME NEW p \in Owner, NEW r \in Run,
               acquire(p, r) \/ release(p, r) \/ expireRun(p, r) \/ AttachCheck(p, r)
        PROVE  row' = row
    BY <2>4 DEF acquire, release, expireRun, AttachCheck
  <2>5. ASSUME NEW p \in Owner, NEW r \in Run, NEW token, RenewCheck(p, r, token) \/ WriteCheck(p, r, token)
        PROVE  row' = row
    BY <2>5 DEF RenewCheck, WriteCheck, assertCanWrite
  <2>6. Tick \/ UNCHANGED vars => row' = row
    BY DEF Tick, vars
  <2> HIDE DEF Step
  <2> QED BY <2>1, <2>2, <2>3, <2>4, <2>5, <2>6 DEF Next
<1> QED BY Invariance, <1>1, PTL DEF Spec, FencedWrites

\* With one process on the file at a time, a live lease names no session but
\* one its own owner spawned.
THEOREM SessionsOwned == SingleProcess => (Spec => []SessionOfHolder)
<1> SUFFICES ASSUME SingleProcess PROVE Spec => []SessionOfHolder
  OBVIOUS
<1>1. Init => SessionOfHolder
  BY DEF Init, SessionOfHolder, Absent, Active
<1>2. IInv /\ SessionOfHolder /\ [Next]_vars => SessionOfHolder'
  <2> SUFFICES ASSUME IInv, SessionOfHolder, [Next]_vars PROVE SessionOfHolder'
    OBVIOUS
  <2> USE DEF IInv
  <2>1. ASSUME \A r \in Run : /\ lease'[r].session = lease[r].session
                              /\ lease'[r].owner = lease[r].owner
                              /\ Active(lease', r) => Active(lease, r)
        PROVE  SessionOfHolder'
    BY <2>1 DEF SessionOfHolder, Active
  <2>2. ASSUME NEW p \in Owner, AttachUpdate(p) PROVE SessionOfHolder'
    <3>1. /\ lease' = [lease EXCEPT ![call[p].run].session = p]
          /\ lease[call[p].run].owner = p
      BY <2>2 DEF AttachUpdate, CheckStillValid
    <3>2. call[p].run \in Run
      BY <2>2 DEF AttachUpdate, TypeOK, Calls
    <3> QED BY <3>1, <3>2 DEF SessionOfHolder, Active, TypeOK, Rows
  <2>3. ASSUME NEW p \in Owner, NEW r \in Run, acquire(p, r) PROVE SessionOfHolder'
    <3>1. CASE lease' = expireDueLeases
      BY <3>1, <2>1, SweepFacts
    <3>2. CASE lease' = [expireDueLeases EXCEPT ![r] =
                           [status |-> "active", owner |-> p, session |-> NoOwner,
                            token |-> seq + 1, expires |-> clock + Ttl]]
      BY <3>2, SweepFacts DEF SessionOfHolder, Active
    <3> QED BY <2>3, <3>1, <3>2 DEF acquire
  <2>4. ASSUME NEW p \in Owner, RenewUpdate(p) PROVE SessionOfHolder'
    <3>1. CASE lease' = lease
      BY <3>1, <2>1
    <3>2. CASE lease' = [lease EXCEPT ![call[p].run].expires = call[p].at + Ttl]
      BY <3>2, <2>1 DEF TypeOK, Rows, Active
    <3> QED BY <2>4, <3>1, <3>2 DEF RenewUpdate
  <2>5. ASSUME NEW p \in Owner, NEW r \in Run, release(p, r) \/ expireRun(p, r) PROVE SessionOfHolder'
    <3>1. CASE lease' = lease
      BY <3>1, <2>1
    <3>2. ASSUME NEW s \in {"released", "expired"}, lease' = [lease EXCEPT ![r].status = s]
          PROVE  SessionOfHolder'
      BY <3>2, <2>1 DEF TypeOK, Rows, Active
    <3> QED BY <2>5, <3>1, <3>2 DEF release, expireRun
  <2>6. CASE lease' = expireDueLeases
    BY <2>6, <2>1, SweepFacts
  <2>7. CASE lease' = lease
    BY <2>7, <2>1
  <2> QED
    BY <2>2, <2>3, <2>4, <2>5, <2>6, <2>7 DEF Next, vars, Tick, Start, Crash, getActive,
       WriteUpdate, AttachCheck, RenewCheck, WriteCheck, assertCanWrite
<1> QED BY Invariance, <1>1, <1>2, PTL DEF Spec

--------------------------------------------------------------------------------
holderOf == [r \in Run |-> IF Active(lease, r) THEN lease[r].owner ELSE NoOwner]
epochOf == [r \in Run |-> lease[r].token]

\* With one process on the file at a time, every behaviour of the lease is one
\* of the fenced register: single holder, growing epochs, writes under the
\* holder's epoch only.
THEOREM Refinement == SingleProcess => (Spec => ImplementsRegister)
<1> SUFFICES ASSUME SingleProcess PROVE Spec => ImplementsRegister
  OBVIOUS
<1>1. Init => Register!Init
  BY DEF Init, Register!Init, Absent, Active
<1>2. IInv /\ [Next]_vars => [Register!Next]_(Register!vars)
  <2> SUFFICES ASSUME IInv, [Next]_vars PROVE [Register!Next]_(Register!vars)
    OBVIOUS
  <2> USE DEF IInv
  <2>1. ASSUME row' = row,
               \A r \in Run : /\ lease'[r].token = lease[r].token
                              /\ lease'[r].owner = lease[r].owner
                              /\ Active(lease', r) => Active(lease, r)
        PROVE  Register!Next
    <3>0. PICK lost \in SUBSET Run : lost = {r \in Run : ~Active(lease', r)}
      OBVIOUS
    <3>1. epochOf' = epochOf
      BY <2>1 DEF epochOf
    <3>2. holderOf' = [r \in Run |-> IF r \in lost THEN NoOwner ELSE holderOf[r]]
      BY <2>1, <3>0 DEF holderOf, Active
    <3>3. Register!Revoke(lost)
      BY <2>1, <3>1, <3>2 DEF Register!Revoke, holderOf, epochOf
    <3> QED BY <3>3 DEF Register!Next
  <2>2. ASSUME NEW p \in Owner, WriteUpdate(p) PROVE Register!Next
    <3>1. /\ CanWrite(lease, call[p].run, call[p].token)
          /\ call[p].run \in Run
          /\ row' = [row EXCEPT ![call[p].run] = call[p].token]
          /\ lease' = lease
      BY <2>2 DEF WriteUpdate, CheckStillValid, TypeOK, Calls
    <3>2. holderOf[call[p].run] # NoOwner /\ epochOf[call[p].run] = call[p].token
      BY <3>1, NoOwnerAssumption DEF GrantedToHolder, CanWrite, holderOf, epochOf
    <3>3. holderOf' = holderOf /\ epochOf' = epochOf
      BY <3>1 DEF holderOf, epochOf, Active
    <3>4. Register!Commit(call[p].run)
      BY <3>1, <3>2, <3>3 DEF Register!Commit, holderOf, epochOf
    <3> QED BY <3>1, <3>4 DEF Register!Next
  <2>3. ASSUME NEW p \in Owner, NEW r \in Run, acquire(p, r) PROVE Register!Next
    <3>1. CASE lease' = expireDueLeases
      BY <2>3, <3>1, <2>1, SweepFacts DEF acquire
    <3>2. CASE /\ ~Active(expireDueLeases, r)
               /\ lease' = [expireDueLeases EXCEPT ![r] =
                              [status |-> "active", owner |-> p, session |-> NoOwner,
                               token |-> seq + 1, expires |-> clock + Ttl]]
      <4>0. PICK lost \in SUBSET Run : lost = {q \in Run : ~Active(expireDueLeases, q)}
        OBVIOUS
      <4>1. /\ lease'[r].owner = p /\ lease'[r].token = seq + 1 /\ Active(lease', r)
            /\ \A q \in Run : q # r => lease'[q] = expireDueLeases[q]
        BY <3>2, SweepFacts DEF Active
      <4>2. epochOf' = [epochOf EXCEPT ![r] = seq + 1]
        BY <4>1, SweepFacts DEF epochOf
      <4>3. \A q \in Run : epochOf[q] < seq + 1
        BY DEF TokensFresh, TypeOK, Rows, epochOf
      <4>4. holderOf' = [q \in Run |-> IF q = r THEN p ELSE IF q \in lost THEN NoOwner ELSE holderOf[q]]
        BY <4>0, <4>1, SweepFacts DEF holderOf, Active
      <4>5. row' = row /\ r \in lost /\ epochOf'[r] = seq + 1
        BY <2>3, <3>2, <4>0, <4>2 DEF acquire, epochOf
      <4>6. Register!Grant(r, p, lost)
        BY <4>2, <4>3, <4>4, <4>5 DEF Register!Grant, holderOf, epochOf
      <4> QED BY <4>6 DEF Register!Next
    <3> QED BY <2>3, <3>1, <3>2 DEF acquire
  <2>4. CASE Tick
    BY <2>4, <2>1 DEF Tick, Active
  <2>5. ASSUME NEW p \in Owner, Start(p) \/ Crash(p) PROVE Register!Next
    BY <2>5, <2>1 DEF Start, Crash, Active
  <2>6. ASSUME NEW p \in Owner, getActive(p) PROVE Register!Next
    BY <2>6, <2>1, SweepFacts DEF getActive
  <2>7. ASSUME NEW p \in Owner, AttachUpdate(p) \/ RenewUpdate(p) PROVE Register!Next
    <3>1. row' = row
      BY <2>7 DEF AttachUpdate, RenewUpdate
    <3> QED BY <2>7, <3>1, <2>1, UpdateFacts
  <2>8. ASSUME NEW p \in Owner, NEW r \in Run, release(p, r) \/ expireRun(p, r) \/ AttachCheck(p, r)
        PROVE  Register!Next
    <3>1. row' = row
      BY <2>8 DEF release, expireRun, AttachCheck
    <3> QED BY <2>8, <3>1, <2>1, RowCallFacts
  <2>9. ASSUME NEW p \in Owner, NEW r \in Run, NEW token \in 1 .. seq, NEW op \in {"renew", "write"},
               assertCanWrite(p, r, token, op)
        PROVE  Register!Next
    BY <2>9, <2>1, SweepFacts DEF assertCanWrite
  <2>10. CASE UNCHANGED vars
    BY <2>10, <2>1 DEF vars, Active
  <2> QED
    BY <2>2, <2>3, <2>4, <2>5, <2>6, <2>7, <2>8, <2>9, <2>10 DEF Next, RenewCheck, WriteCheck
<1> QED BY Invariance, <1>1, <1>2, PTL DEF Spec, ImplementsRegister, Register!Spec

====
