------------------------------ MODULE FileLock ------------------------------
(***************************************************************************)
(* acquireFileLock of state.go and the read-modify-write it guards, one    *)
(* file-system call at a time.  The lock is a file beside the record,      *)
(* created with O_EXCL and removed by unlock.  A waiter that finds it more *)
(* than two seconds old takes its owner for dead and removes it.           *)
(*                                                                         *)
(* One record, and one operation per process: claim (mutateRun with the    *)
(* check of claimRun), update (mutateRun as the hook and the supervisor    *)
(* use it) or remove (removeRun).                                          *)
(***************************************************************************)
EXTENDS Integers

CONSTANTS Proc,         \* processes that use the record
          NoProc,       \* no process
          MaxAttempts,  \* attempts to create the lock file; 250 in the code
          Ageing        \* which locks may grow older than two seconds:
                        \*   "never"   none
                        \*   "orphan"  those whose owner has died
                        \*   "any"     also those of a slow or suspended owner

ASSUME ProcAssumption    == NoProc \notin Proc
ASSUME AttemptAssumption == MaxAttempts \in Nat \ {0}
ASSUME AgeingAssumption  == Ageing \in {"never", "orphan", "any"}

VARIABLES
  lock,     \* the process that created the lock file that exists now, if any
  old,      \* whether that file is more than two seconds old
  exists, applied, claim,      \* the record, as in AtomicRecord
  op, res,                     \* operations and what they returned
  pc, attempt,                 \* control and attempts made, of each process
  copy                         \* the record as each process has read it

record == <<exists, applied, claim>>
vars   == <<lock, old, exists, applied, claim, op, res, pc, attempt, copy>>

Copy == [applied : SUBSET Proc, claim : Proc \cup {NoProc}]
NoCopy == [applied |-> {}, claim |-> NoProc]

TypeOK ==
  /\ lock \in Proc \cup {NoProc}
  /\ old \in BOOLEAN
  /\ exists \in BOOLEAN
  /\ applied \subseteq Proc
  /\ claim \in Proc \cup {NoProc}
  /\ op \in [Proc -> {"claim", "update", "remove"}]
  /\ res \in [Proc -> {"none", "ok", "refused"}]
  /\ pc \in [Proc -> {"open", "stat", "break", "read", "write", "unlock", "end", "dead"}]
  /\ attempt \in [Proc -> 0..MaxAttempts]
  /\ copy \in [Proc -> Copy]

Init ==
  /\ lock = NoProc
  /\ old = FALSE
  /\ exists = TRUE
  /\ applied = {}
  /\ claim = NoProc
  /\ op \in [Proc -> {"claim", "update", "remove"}]
  /\ res = [p \in Proc |-> "none"]
  /\ pc = [p \in Proc |-> "open"]
  /\ attempt = [p \in Proc |-> 0]
  /\ copy = [p \in Proc |-> NoCopy]

alive == {p \in Proc : pc[p] # "dead"}

Go(p, label) == pc' = [pc EXCEPT ![p] = label]

-----------------------------------------------------------------------------
\* Mutant: without O_EXCL.
createAnyway(p) ==
  /\ pc[p] = "open" /\ attempt[p] < MaxAttempts
  /\ lock' = p
  /\ old' = FALSE
  /\ Go(p, IF op[p] = "remove" THEN "write" ELSE "read")
  /\ UNCHANGED <<exists, applied, claim, op, res, attempt, copy>>

\* OpenFile with O_CREATE and O_EXCL; removeRun reads nothing.
createLock(p) ==
  /\ pc[p] = "open" /\ attempt[p] < MaxAttempts
  /\ lock = NoProc
  /\ lock' = p
  /\ old' = FALSE
  /\ Go(p, IF op[p] = "remove" THEN "write" ELSE "read")
  /\ UNCHANGED <<exists, applied, claim, op, res, attempt, copy>>

\* Mutants: one attempt too many, or attempts are not counted.
lockExistsOnceMore(p) ==
  /\ pc[p] = "open" /\ attempt[p] <= MaxAttempts
  /\ lock # NoProc
  /\ attempt' = [attempt EXCEPT ![p] = @ + 1]
  /\ Go(p, "stat")
  /\ UNCHANGED <<lock, old, exists, applied, claim, op, res, copy>>
lockExistsUncounted(p) ==
  /\ pc[p] = "open" /\ attempt[p] < MaxAttempts
  /\ lock # NoProc
  /\ Go(p, "stat")
  /\ UNCHANGED <<lock, old, exists, applied, claim, op, res, attempt, copy>>

lockExists(p) ==
  /\ pc[p] = "open" /\ attempt[p] < MaxAttempts
  /\ lock # NoProc
  /\ attempt' = [attempt EXCEPT ![p] = @ + 1]
  /\ Go(p, "stat")
  /\ UNCHANGED <<lock, old, exists, applied, claim, op, res, copy>>

\* OpenFile fails for another reason than that the file is there.
openFails(p) ==
  /\ pc[p] = "open" /\ attempt[p] < MaxAttempts
  /\ res' = [res EXCEPT ![p] = "refused"]
  /\ Go(p, "end")
  /\ UNCHANGED <<lock, old, exists, applied, claim, op, attempt, copy>>

\* "timed out waiting for state-file lock"
timeOut(p) ==
  /\ pc[p] = "open" /\ attempt[p] = MaxAttempts
  /\ res' = [res EXCEPT ![p] = "refused"]
  /\ Go(p, "end")
  /\ UNCHANGED <<lock, old, exists, applied, claim, op, attempt, copy>>

\* Mutant: the age of the lock file is not looked at.
statAnyAge(p) ==
  /\ pc[p] = "stat"
  /\ Go(p, IF lock # NoProc THEN "break" ELSE "open")
  /\ UNCHANGED <<lock, old, exists, applied, claim, op, res, attempt, copy>>

\* Stat; the file may have gone meanwhile.
statLock(p) ==
  /\ pc[p] = "stat"
  /\ Go(p, IF lock # NoProc /\ old THEN "break" ELSE "open")
  /\ UNCHANGED <<lock, old, exists, applied, claim, op, res, attempt, copy>>

\* Remove, of whatever lock file is there by now.
breakLock(p) ==
  /\ pc[p] = "break"
  /\ lock' = NoProc
  /\ old' = FALSE
  /\ Go(p, "open")
  /\ UNCHANGED <<exists, applied, claim, op, res, attempt, copy>>

\* Mutant: the claim on disk is not looked at.
acceptsClaimed(p) == exists

\* readJSON and the decision of the mutation: an update wants the record to
\* exist, a claim that no living process holds it.
Accepts(p) == exists /\ (op[p] = "claim" => claim \notin alive)

readRecord(p) ==
  /\ pc[p] = "read"
  /\ copy' = [copy EXCEPT ![p] = [applied |-> applied, claim |-> claim]]
  /\ res' = IF Accepts(p) THEN res ELSE [res EXCEPT ![p] = "refused"]
  /\ Go(p, IF Accepts(p) THEN "write" ELSE "unlock")
  /\ UNCHANGED <<lock, old, exists, applied, claim, op, attempt>>

\* The rename of writeJSONAtomic, or os.Remove of the record.
writeRecord(p) ==
  /\ pc[p] = "write"
  /\ exists' = (op[p] # "remove")
  /\ applied' = IF op[p] = "remove" THEN {} ELSE copy[p].applied \cup {p}
  /\ claim' = IF op[p] = "remove" THEN NoProc
              ELSE IF op[p] = "claim" THEN p ELSE copy[p].claim
  /\ res' = [res EXCEPT ![p] = "ok"]
  /\ Go(p, "unlock")
  /\ UNCHANGED <<lock, old, op, attempt, copy>>

\* The deferred unlock removes the lock file, whoever created it.
unlock(p) ==
  /\ pc[p] = "unlock"
  /\ lock' = NoProc
  /\ old' = FALSE
  /\ Go(p, "end")
  /\ UNCHANGED <<exists, applied, claim, op, res, attempt, copy>>

-----------------------------------------------------------------------------
Step(p) == \/ createLock(p) \/ lockExists(p) \/ openFails(p) \/ timeOut(p)
           \/ statLock(p) \/ breakLock(p)
           \/ readRecord(p) \/ writeRecord(p) \/ unlock(p)

Crash(p) == /\ pc[p] # "dead"
            /\ Go(p, "dead")
            /\ UNCHANGED <<lock, old, exists, applied, claim, op, res, attempt, copy>>

\* Two seconds pass.
Age == /\ lock # NoProc /\ ~old
       /\ \/ Ageing = "any"
          \/ Ageing = "orphan" /\ lock \notin alive
       /\ old' = TRUE
       /\ UNCHANGED <<lock, exists, applied, claim, op, res, pc, attempt, copy>>

Next == Age \/ \E p \in Proc : Step(p) \/ Crash(p)

Spec == Init /\ [][Next]_vars /\ \A p \in Proc : WF_vars(Step(p))

-----------------------------------------------------------------------------
(* Properties.                                                             *)

Inside(p) == pc[p] \in {"read", "write", "unlock"}

\* The lock file excludes: between the creation of the lock file and its
\* removal by unlock no other process works on the record.
MutualExclusion == \A p, q \in Proc : Inside(p) /\ Inside(q) => p = q

\* README: "csg resume atomically claims the record".  Of the processes that
\* are alive, at most one has been told that the claim is its own.
OneClaimant ==
  \A p, q \in alive : /\ op[p] = "claim" /\ res[p] = "ok"
                      /\ op[q] = "claim" /\ res[q] = "ok"
                      => p = q \/ ~exists

\* A record that was removed stays removed: the rename of a late update does
\* not bring it back.
RemovedForGood == [][~exists => ~exists']_vars

\* Seen from outside, every operation is one step.
Atomic == INSTANCE AtomicRecord
ImplementsAtomicRecord == Atomic!Spec

\* No operation hangs: every live process gets an answer, also when others
\* die with the lock in their hands.
AllAnswered == \A p \in Proc : <>(pc[p] \in {"end", "dead"})
=============================================================================
