---------------------------- MODULE AtomicRecord ----------------------------
(***************************************************************************)
(* What the callers of mutateRun and removeRun rely on: reading a record,  *)
(* deciding and writing it back is one step.  Module SessionGuard is built *)
(* on this promise; module FileLock says how far the lock file keeps it.   *)
(***************************************************************************)
CONSTANTS Proc,    \* the processes, each with one operation to perform
          NoProc   \* no process

VARIABLES op,      \* the operation of each process
          exists,  \* whether the record file exists
          applied, \* the processes whose update the record contains
          claim,   \* the process named in its recovery claim
          res,     \* what each operation returned
          alive    \* the processes that have not died

vars == <<op, exists, applied, claim, res, alive>>

Init == /\ op \in [Proc -> {"claim", "update", "remove"}]
        /\ exists = TRUE
        /\ applied = {}
        /\ claim = NoProc
        /\ res = [p \in Proc |-> "none"]
        /\ alive = Proc

Return(p, result) == /\ p \in alive /\ res[p] = "none"
                     /\ res' = [res EXCEPT ![p] = result]
                     /\ UNCHANGED <<op, alive>>

Claim(p) == /\ op[p] = "claim" /\ exists /\ claim \notin alive
            /\ claim' = p
            /\ applied' = applied \cup {p}
            /\ Return(p, "ok")
            /\ UNCHANGED exists

Update(p) == /\ op[p] = "update" /\ exists
             /\ applied' = applied \cup {p}
             /\ Return(p, "ok")
             /\ UNCHANGED <<exists, claim>>

Remove(p) == /\ op[p] = "remove"
             /\ exists' = FALSE
             /\ applied' = {}
             /\ claim' = NoProc
             /\ Return(p, "ok")

\* The record is gone, it is claimed, or the lock was not obtained.
Refuse(p) == Return(p, "refused") /\ UNCHANGED <<exists, applied, claim>>

Die(p) == /\ alive' = alive \ {p}
          /\ UNCHANGED <<op, exists, applied, claim, res>>

Next == \E p \in Proc : Claim(p) \/ Update(p) \/ Remove(p) \/ Refuse(p) \/ Die(p)

Spec == Init /\ [][Next]_vars
=============================================================================
