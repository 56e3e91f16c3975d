--------------------------- MODULE FileLockProofs ---------------------------
(***************************************************************************)
(* The lock excludes and every operation on a record is atomic, whatever   *)
(* the processes do and however they die: for any number of processes as   *)
(* long as no lock file is taken for stale, and for two also when those of *)
(* dead owners are.  With three that is wrong: two may break one lock.     *)
(***************************************************************************)
EXTENDS FileLock, TLAPS

\* When a lock holds: no lock file grows old, or only those of dead owners and
\* there are at most two processes.
AtMostTwo == \A p, q, r \in Proc : p = q \/ q = r \/ p = r
LockHolds == Ageing = "never" \/ (Ageing = "orphan" /\ AtMostTwo)

\* The inductive invariant: whoever works on the record owns the lock file,
\* and what a writer has read is still what the record says.
\* Of a lock that is broken the owner is dead, and with it everybody but the
\* one who breaks it.
OthersDead ==
  /\ old => Ageing = "orphan" /\ lock \in Proc \ alive
  /\ \A p \in Proc : pc[p] = "break" => \A q \in alive : q = p

OwnersInside == \A p \in Proc : Inside(p) => lock = p

CopiesFresh ==
  \A p \in Proc : pc[p] = "write" /\ op[p] # "remove" =>
    /\ exists
    /\ copy[p] = [applied |-> applied, claim |-> claim]
    /\ op[p] = "claim" => claim \notin alive

Unanswered ==
  \A p \in Proc : pc[p] \in {"open", "stat", "break", "read", "write"} => res[p] = "none"

Claimants == \A p \in alive : op[p] = "claim" /\ res[p] = "ok" => claim = p \/ ~exists

IInv == TypeOK /\ OthersDead /\ OwnersInside /\ CopiesFresh /\ Unanswered /\ Claimants

USE ProcAssumption, AttemptAssumption, AgeingAssumption

LEMMA InitIInv == Init => IInv
<1> SUFFICES ASSUME Init PROVE IInv
  OBVIOUS
<1>1. NoCopy \in Copy
  BY DEF NoCopy, Copy
<1>2. TypeOK
  <2>1. 0 \in 0..MaxAttempts
    OBVIOUS
  <2>2. attempt \in [Proc -> 0..MaxAttempts] /\ copy \in [Proc -> Copy]
    BY <1>1, <2>1 DEF Init
  <2> QED
    BY <2>2 DEF Init, TypeOK
<1>3. OthersDead /\ OwnersInside /\ CopiesFresh /\ Unanswered /\ Claimants
  BY DEF Init, OthersDead, OwnersInside, Inside, CopiesFresh, Unanswered, Claimants, alive
<1> QED
  BY <1>2, <1>3 DEF IInv

\* The steps other than a crash keep every process that is alive alive.
LEMMA StepAlive == ASSUME TypeOK, NEW p \in Proc, Step(p) PROVE alive' = alive /\ p \in alive
  BY DEF TypeOK, Step, createLock, lockExists, openFails, timeOut, statLock, breakLock,
         readRecord, writeRecord, unlock, Go, alive

LEMMA TypeStep == ASSUME TypeOK, [Next]_vars PROVE TypeOK'
<1>1. CASE UNCHANGED vars
  BY <1>1 DEF TypeOK, vars
<1>2. CASE Age
  BY <1>2 DEF TypeOK, Age
<1>3. ASSUME NEW p \in Proc, Crash(p) PROVE TypeOK'
  BY <1>3 DEF TypeOK, Crash, Go
<1>4. ASSUME NEW p \in Proc, createLock(p) \/ openFails(p) \/ timeOut(p) \/ unlock(p) PROVE TypeOK'
  BY <1>4 DEF TypeOK, createLock, openFails, timeOut, unlock, Go
<1>8. ASSUME NEW p \in Proc, lockExists(p) PROVE TypeOK'
  <2>1. attempt[p] + 1 \in 0..MaxAttempts
    BY <1>8 DEF TypeOK, lockExists
  <2> QED
    BY <1>8, <2>1 DEF TypeOK, lockExists, Go
<1>5. ASSUME NEW p \in Proc, statLock(p) \/ breakLock(p) PROVE TypeOK'
  BY <1>5 DEF TypeOK, statLock, breakLock, Go
<1>6. ASSUME NEW p \in Proc, readRecord(p) PROVE TypeOK'
  BY <1>6 DEF TypeOK, readRecord, Go, Copy
<1>7. ASSUME NEW p \in Proc, writeRecord(p) PROVE TypeOK'
  <2>1. copy[p].applied \subseteq Proc /\ copy[p].claim \in Proc \cup {NoProc}
    BY DEF TypeOK, Copy
  <2> QED
    BY <1>7, <2>1 DEF TypeOK, writeRecord, Go
<1> QED
  BY <1>1, <1>2, <1>3, <1>4, <1>5, <1>6, <1>7, <1>8 DEF Next, Step

LEMMA IInvStep == ASSUME LockHolds, IInv, [Next]_vars PROVE IInv'
<1> USE DEF IInv
<1> TypeOK /\ TypeOK'
  BY TypeStep
<1>1. CASE UNCHANGED vars
  BY <1>1 DEF vars, OthersDead, OwnersInside, Inside, CopiesFresh, Unanswered,
              Claimants, alive
<1>2. CASE Age
  <2>1. alive' = alive
    BY <1>2 DEF Age, alive
  <2>2. OthersDead'
    BY <1>2, <2>1 DEF LockHolds, Age, OthersDead, TypeOK
  <2> QED
    BY <1>2, <2>1, <2>2 DEF Age, OwnersInside, Inside, CopiesFresh, Unanswered, Claimants
<1>3. ASSUME NEW p \in Proc, Crash(p) PROVE IInv'
  <2>1. alive' \subseteq alive
    BY <1>3 DEF Crash, Go, alive, TypeOK
  <2>2. OwnersInside' /\ Unanswered'
    BY <1>3 DEF Crash, Go, OwnersInside, Inside, Unanswered, TypeOK
  <2>5. OthersDead'
    BY <1>3, <2>1 DEF Crash, Go, OthersDead, TypeOK
  <2>3. CopiesFresh'
    BY <1>3, <2>1 DEF Crash, Go, CopiesFresh, TypeOK
  <2>4. Claimants'
    BY <1>3, <2>1 DEF Crash, Claimants
  <2> QED BY <2>2, <2>3, <2>4, <2>5
<1>4. ASSUME NEW p \in Proc, createLock(p) \/ lockExists(p) \/ openFails(p) \/ timeOut(p)
      PROVE IInv'
  <2>1. alive' = alive
    BY <1>4, StepAlive DEF Step
  <2>2. OwnersInside' /\ Unanswered'
    BY <1>4 DEF createLock, lockExists, openFails, timeOut, Go, OwnersInside, Inside, Unanswered, TypeOK
  <2>5. OthersDead'
    BY <1>4, <2>1 DEF createLock, lockExists, openFails, timeOut, Go, OthersDead, TypeOK
  <2>3. CopiesFresh'
    BY <1>4, <2>1 DEF createLock, lockExists, openFails, timeOut, Go, CopiesFresh, TypeOK
  <2>4. Claimants'
    BY <1>4, <2>1 DEF createLock, lockExists, openFails, timeOut, Claimants, TypeOK, alive
  <2> QED BY <2>2, <2>3, <2>4, <2>5
<1>5. ASSUME NEW p \in Proc, statLock(p) \/ breakLock(p) \/ unlock(p) PROVE IInv'
  <2>1. alive' = alive /\ p \in alive
    BY <1>5, StepAlive DEF Step
  <2>2. ASSUME statLock(p) PROVE OthersDead' /\ OwnersInside' /\ Unanswered'
    <3>1. lock # NoProc /\ old => AtMostTwo /\ lock \in Proc \ alive
      BY DEF OthersDead, LockHolds
    <3>2. lock # NoProc /\ old => \A q \in alive : q = p
      BY <2>1, <3>1 DEF AtMostTwo, alive
    <3>3. OthersDead'
      <4>1. UNCHANGED <<lock, old>>
        BY <2>2 DEF statLock
      <4>2. \A q \in Proc : pc'[q] = "break" => pc[q] = "break" \/ (q = p /\ lock # NoProc /\ old)
        BY <2>2 DEF statLock, Go, TypeOK
      <4> QED BY <2>1, <3>2, <4>1, <4>2 DEF OthersDead
    <3> QED BY <2>2, <3>3 DEF statLock, Go, OwnersInside, Inside, Unanswered, TypeOK
  <2>3. ASSUME breakLock(p) PROVE OthersDead' /\ OwnersInside' /\ Unanswered'
    <3>1. \A q \in Proc : Inside(q) => q = p
      BY <2>3 DEF breakLock, OthersDead, Inside, alive
    <3>2. ~Inside(p) /\ lock' = NoProc /\ ~old'
      BY <2>3 DEF breakLock, Inside
    <3>3. OthersDead'
      BY <2>1, <2>3, <3>2 DEF breakLock, Go, OthersDead, TypeOK
    <3>4. OwnersInside'
      BY <2>3, <3>1, <3>2 DEF breakLock, Go, OwnersInside, Inside, TypeOK
    <3>5. Unanswered'
      BY <1>5, <2>3 DEF breakLock, Go, Unanswered, TypeOK
    <3> QED BY <3>3, <3>4, <3>5
  <2>4. ASSUME unlock(p) PROVE OthersDead' /\ OwnersInside' /\ Unanswered'
    <3>1. OthersDead'
      BY <2>1, <2>4 DEF unlock, Go, OthersDead, TypeOK
    <3>2. OwnersInside'
      BY <2>4 DEF unlock, Go, OwnersInside, Inside, TypeOK
    <3>3. Unanswered'
      BY <2>4 DEF unlock, Go, Unanswered, TypeOK
    <3> QED BY <3>1, <3>2, <3>3
  <2>5. OthersDead' /\ OwnersInside' /\ Unanswered'
    BY <1>5, <2>2, <2>3, <2>4
  <2>6. CopiesFresh'
    BY <1>5, <2>1 DEF statLock, breakLock, unlock, Go, CopiesFresh, TypeOK
  <2>7. Claimants'
    BY <1>5, <2>1 DEF statLock, breakLock, unlock, Claimants
  <2> QED BY <2>5, <2>6, <2>7
<1>6. ASSUME NEW p \in Proc, readRecord(p) PROVE IInv'
  <2>1. alive' = alive
    BY <1>6, StepAlive DEF Step
  <2>2. OwnersInside' /\ Unanswered'
    BY <1>6 DEF readRecord, Go, OwnersInside, Inside, Unanswered, TypeOK
  <2>5. OthersDead'
    BY <1>6, <2>1 DEF readRecord, Go, OthersDead, TypeOK
  <2>3. CopiesFresh'
    BY <1>6, <2>1 DEF readRecord, Accepts, Go, CopiesFresh, TypeOK
  <2>4. Claimants'
    BY <1>6, <2>1 DEF readRecord, Claimants, TypeOK, alive
  <2> QED BY <2>2, <2>3, <2>4, <2>5
<1>7. ASSUME NEW p \in Proc, writeRecord(p) PROVE IInv'
  <2>1. alive' = alive /\ p \in alive
    BY <1>7, StepAlive DEF Step
  <2>2. OwnersInside' /\ Unanswered'
    BY <1>7 DEF writeRecord, Go, OwnersInside, Inside, Unanswered, TypeOK
  <2>5. OthersDead'
    BY <1>7, <2>1 DEF writeRecord, Go, OthersDead, TypeOK
  <2>3. CopiesFresh'
    <3>1. \A q \in Proc \ {p} : pc[q] # "write"
      BY <1>7 DEF writeRecord, OwnersInside, Inside
    <3> QED BY <1>7, <3>1 DEF writeRecord, Go, CopiesFresh, TypeOK
  <2>4. Claimants'
    <3> SUFFICES ASSUME NEW q \in alive, op[q] = "claim", res'[q] = "ok", exists'
                 PROVE  claim' = q
      <4>1. op' = op
        BY <1>7 DEF writeRecord
      <4> QED BY <2>1, <4>1 DEF Claimants
    <3>1. op[p] # "remove" /\ exists /\ copy[p].claim = claim
      <4>1. op[p] # "remove" /\ pc[p] = "write"
        BY <1>7 DEF writeRecord
      <4>2. exists /\ copy[p] = [applied |-> applied, claim |-> claim]
        BY <4>1 DEF CopiesFresh
      <4> QED BY <4>1, <4>2
    <3> q \in Proc
      BY DEF alive
    <3>2. CASE q = p
      BY <1>7, <3>1, <3>2 DEF writeRecord
    <3>3. CASE q # p
      <4>1. res[q] = "ok" /\ claim = q
        <5>1. res[q] = "ok"
          BY <1>7, <3>3 DEF writeRecord, TypeOK
        <5> QED BY <3>1, <5>1 DEF Claimants
      <4>2. op[p] # "claim"
        BY <1>7, <3>1, <4>1 DEF writeRecord, CopiesFresh
      <4> QED BY <1>7, <3>1, <4>1, <4>2 DEF writeRecord
    <3> QED BY <3>2, <3>3
  <2> QED BY <2>2, <2>3, <2>4, <2>5
<1> QED
  BY <1>1, <1>2, <1>3, <1>4, <1>5, <1>6, <1>7 DEF Next, Step

\* Type correctness, which needs nothing of the lock files.
THEOREM Typing == Spec => []TypeOK
<1>1. Init => TypeOK
  BY InitIInv DEF IInv
<1> QED
  BY <1>1, TypeStep, PTL DEF Spec

LEMMA Invariance == ASSUME LockHolds PROVE Spec => []IInv
<1>1. IInv /\ [Next]_vars => IInv'
  BY IInvStep
<1> QED
  BY InitIInv, <1>1, PTL DEF Spec

\* No two processes work on the record at a time.
THEOREM Exclusion == ASSUME LockHolds PROVE Spec => []MutualExclusion
<1>1. IInv => MutualExclusion
  BY DEF IInv, OwnersInside, MutualExclusion
<1> QED
  BY Invariance, <1>1, PTL

\* At most one living process believes that the claim is its own.
THEOREM SingleClaimant == ASSUME LockHolds PROVE Spec => []OneClaimant
<1>1. IInv => OneClaimant
  BY DEF IInv, Claimants, OneClaimant, alive
<1> QED
  BY Invariance, <1>1, PTL

\* A removed record is not written back.
THEOREM NoResurrection == ASSUME LockHolds PROVE Spec => RemovedForGood
<1>1. IInv /\ [Next]_vars => [~exists => ~exists']_vars
  BY DEF IInv, CopiesFresh, Next, Step, Age, Crash, createLock, lockExists, openFails, timeOut,
         statLock, breakLock, readRecord, writeRecord, unlock, vars
<1> QED
  BY Invariance, <1>1, PTL DEF Spec, RemovedForGood

-----------------------------------------------------------------------------
\* Every step is one operation of AtomicRecord, or none.
LEMMA StepImplements == ASSUME IInv, [Next]_vars, LockHolds
                        PROVE [Atomic!Next]_(Atomic!vars)
<1> USE DEF IInv
<1> TypeOK
  OBVIOUS
<1>1. CASE UNCHANGED vars
  BY <1>1 DEF vars, Atomic!vars, alive
<1>2. CASE Age
  BY <1>2 DEF Age, Atomic!vars, alive
<1>3. ASSUME NEW p \in Proc, Crash(p) PROVE Atomic!Die(p)
  BY <1>3 DEF Crash, Go, Atomic!Die, alive, TypeOK
<1>4. ASSUME NEW p \in Proc,
             createLock(p) \/ lockExists(p) \/ statLock(p) \/ breakLock(p) \/ unlock(p)
      PROVE UNCHANGED Atomic!vars
  <2>1. alive' = alive
    BY <1>4, StepAlive DEF Step
  <2> QED
    BY <1>4, <2>1 DEF createLock, lockExists, statLock, breakLock, unlock, Atomic!vars
<1>5. ASSUME NEW p \in Proc, openFails(p) \/ timeOut(p) PROVE Atomic!Refuse(p)
  <2>1. alive' = alive /\ p \in alive
    BY <1>5, StepAlive DEF Step
  <2> QED
    BY <1>5, <2>1 DEF openFails, timeOut, Atomic!Refuse, Atomic!Return, Unanswered
<1>6. ASSUME NEW p \in Proc, readRecord(p) PROVE Atomic!Refuse(p) \/ UNCHANGED Atomic!vars
  <2>1. alive' = alive /\ p \in alive
    BY <1>6, StepAlive DEF Step
  <2> QED
    BY <1>6, <2>1 DEF readRecord, Atomic!Refuse, Atomic!Return, Atomic!vars, Unanswered
<1>7. ASSUME NEW p \in Proc, writeRecord(p)
      PROVE Atomic!Claim(p) \/ Atomic!Update(p) \/ Atomic!Remove(p)
  <2>1. alive' = alive /\ p \in alive /\ res[p] = "none" /\ pc[p] = "write"
    BY <1>7, StepAlive DEF Step, Unanswered, writeRecord
  <2>2. CASE op[p] = "claim"
    <3>1. exists /\ claim \notin alive /\ copy[p].applied = applied
      BY <2>1, <2>2 DEF CopiesFresh
    <3> QED BY <1>7, <2>1, <2>2, <3>1 DEF writeRecord, Atomic!Claim, Atomic!Return
  <2>3. CASE op[p] = "update"
    <3>1. exists /\ copy[p].applied = applied /\ copy[p].claim = claim
      BY <2>1, <2>3 DEF CopiesFresh
    <3> QED BY <1>7, <2>1, <2>3, <3>1 DEF writeRecord, Atomic!Update, Atomic!Return
  <2>4. CASE op[p] = "remove"
    BY <1>7, <2>1, <2>4 DEF writeRecord, Atomic!Remove, Atomic!Return
  <2> QED
    BY <2>2, <2>3, <2>4 DEF TypeOK
<1> QED
  BY <1>1, <1>2, <1>3, <1>4, <1>5, <1>6, <1>7 DEF Next, Step, Atomic!Next

\* FileLock implements AtomicRecord.
THEOREM Implementation == ASSUME LockHolds PROVE Spec => ImplementsAtomicRecord
<1>1. Init => Atomic!Init
  BY DEF Init, Atomic!Init, alive
<1>2. IInv /\ [Next]_vars => [Atomic!Next]_(Atomic!vars)
  BY StepImplements
<1> QED
  BY Invariance, <1>1, <1>2, PTL DEF Spec, ImplementsAtomicRecord, Atomic!Spec
=============================================================================
