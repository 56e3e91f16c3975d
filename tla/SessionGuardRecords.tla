------------------------ MODULE SessionGuardRecords ------------------------
(***************************************************************************)
(* The records keep the promise of RunRegistry: every step of any number   *)
(* of processes is one of its steps, or none, whoever is killed and        *)
(* whatever fails.  And which records a listing offers and which ones      *)
(* disappear, for any number of processes, sessions and records.           *)
(***************************************************************************)
EXTENDS SessionGuardProofs

USE ProcAssumption, SessionAssumption, RunAssumption, SwitchAssumption,
    CommandAssumption

-----------------------------------------------------------------------------
(* Whom the records name.                                                  *)

\* Where a process is says what it was asked to do, only a supervisor has a
\* run, and only one that has come to claim records has claims.
Early == {"idle", "readdir", "scan", "classify", "claim"}

Ordered(c) ==
  /\ mem[c].own \in 0..born
  /\ pc[c] \notin Owning \cup {"release"} => mem[c].own = NoRun
  /\ pc[c] = "idle" => mem[c].cmd = "none"
  /\ pc[c] \in Owning \cup {"save"} => mem[c].cmd \in {"run", "resume"}
  /\ pc[c] = "claim" => mem[c].cmd = "resume"
  /\ pc[c] = "claimAll" => mem[c].cmd = "delete"
  /\ pc[c] \in Early \/ mem[c].cmd \notin {"resume", "delete"} => mem[c].claimed = {}

\* A record names the process that supervises it and no other, and its claim
\* somebody who resumes or deletes.
Named(c) == \A r \in files :
  /\ rec[r].wrapper = c /\ ProcAlive(c) => mem[c].own = r
  /\ pc[c] \in Owning /\ mem[c].own = r => rec[r].wrapper = c
  /\ rec[r].claim = c /\ ProcAlive(c) => mem[c].cmd \in {"resume", "delete"}

NameInv == /\ Numbered /\ ScanInv
           /\ \A c \in Csg : Ordered(c) /\ Named(c)

\* What a step does to the run and the command of a process.
Loyal(c) ==
  /\ ProcAlive(c)' => /\ mem'[c].own = mem[c].own \/ mem[c].own = NoRun
                      /\ mem'[c].cmd = mem[c].cmd \/ mem[c].cmd = "none"
  /\ pc'[c] \in Owning => \/ pc[c] \in Owning /\ mem'[c].own = mem[c].own
                          \/ mem'[c].own = born' /\ born' = born + 1

LEMMA LoyalStep ==
  ASSUME TypeOK, TypeOK', Grows, NEW p \in Csg, Ordered(p), StepOf(p)
  PROVE  Ordered(p)' /\ Loyal(p)
<1> /\ pc \in [Proc -> Label] /\ mem \in [Proc -> Locals] /\ mem[p] \in Locals
    /\ p \in Proc /\ p \notin Hook /\ born \in Nat /\ born' \in Nat /\ born <= born'
  BY DEF TypeOK, Proc, Grows
<1> DEFINE good == Ordered(p)' /\ Loyal(p)
           same == mem'[p].own = mem[p].own /\ mem'[p].cmd = mem[p].cmd
           keep == same /\ mem'[p].claimed \subseteq mem[p].claimed
<1> mem[p].own \in 0..(born')
  BY DEF Ordered
<1>1. ASSUME Finish(p) PROVE good
  <2>1. pc'[p] = "gone" /\ mem'[p].own = NoRun /\ mem'[p].claimed = {}
    BY <1>1 DEF Finish, Go, Fresh
  <2>2. NoRun \in 0..(born')
    BY DEF NoRun
  <2> QED BY <2>1, <2>2 DEF Ordered, Loyal, ProcAlive, Owning, Active
\* a supervisor goes on, or ends as one
<1>2. ASSUME keep, pc[p] \in Owning, pc'[p] \in Owning \cup {"release"} PROVE good
  BY <1>2 DEF Ordered, Loyal, Owning, Active, Early
\* so does anybody else
<1>3. ASSUME same, mem'[p].claimed \subseteq mem[p].claimed \/ mem[p].cmd = "delete",
             pc'[p] \in Early => mem'[p].claimed \subseteq mem[p].claimed /\ pc[p] \in Early,
             pc[p] \notin Owning \cup {"idle"},
             pc'[p] \in {"scan", "classify", "claim", "claimAll", "removeAll", "release"},
             pc[p] = "release" => pc'[p] = "release",
             pc'[p] = "claim" => mem[p].cmd = "resume",
             pc'[p] = "claimAll" => mem[p].cmd = "delete"
      PROVE  good
  <2>1. Loyal(p)
    BY <1>3 DEF Loyal, Owning, Active
  <2>2. pc'[p] \in Early \/ mem'[p].cmd \notin {"resume", "delete"} => mem'[p].claimed = {}
    BY <1>3 DEF Ordered
  <2>3. /\ pc'[p] \notin Owning \cup {"release"} => mem'[p].own = NoRun
        /\ pc'[p] \notin Owning \cup {"idle", "save"}
    BY <1>3 DEF Ordered, Owning, Active
  <2> QED BY <1>3, <2>1, <2>2, <2>3 DEF Ordered
<1>4. ASSUME Return(p), pc[p] \in Owning \cup {"save"} PROVE good
  <2>1. CASE mem[p].cmd = "resume"
    <3>1. keep /\ pc'[p] = "release"
      BY <1>4, <2>1 DEF Return, Go, Locals
    <3> QED BY <1>2, <1>3, <1>4, <3>1 DEF Owning, Active, Early
  <2>2. CASE mem[p].cmd # "resume"
    BY <1>1, <1>4, <2>2 DEF Return
  <2> QED BY <2>1, <2>2
<1>5. CASE saveNewRun(p)
  <2>1. CASE Return(p)
    BY <1>4, <1>5, <2>1 DEF saveNewRun
  <2>2. CASE ~Return(p)
    <3>1. /\ born' = born + 1 /\ pc[p] = "save" /\ Go(p, "start")
          /\ mem' = [mem EXCEPT ![p].own = born']
      BY <1>5, <2>2 DEF saveNewRun
    <3>2. /\ mem'[p].own = born' /\ mem'[p].cmd = mem[p].cmd /\ pc'[p] = "start"
          /\ mem'[p].claimed = mem[p].claimed
      BY <3>1 DEF Go, Locals
    <3>3. mem[p].own = NoRun /\ mem[p].cmd \in {"run", "resume"}
      BY <3>1 DEF Ordered, Owning, Active
    <3> QED BY <3>1, <3>2, <3>3 DEF Ordered, Loyal, Owning, Active, Early
  <2> QED BY <2>1, <2>2
<1>6. CASE startTarget(p) \/ assignProcessToJob(p) \/ onStart(p) \/ resumeSuspendedProcess(p)
           \/ superviseProcess(p)
  <2>1. keep /\ pc[p] \in Owning
    BY <1>6 DEF startTarget, assignProcessToJob, onStart, resumeSuspendedProcess,
                superviseProcess, Keep, Owning, Active
  <2>2. pc'[p] \in Owning
    BY <1>6 DEF startTarget, assignProcessToJob, onStart, resumeSuspendedProcess,
                superviseProcess, Go, Owning, Active
  <2> QED BY <1>2, <2>1, <2>2
<1>7. CASE waitForSessionBinding(p)
  <2>1. pc[p] \in Owning
    BY <1>7 DEF waitForSessionBinding, Owning
  <2>2. CASE ~Return(p)
    <3>1. keep /\ pc'[p] \in {"discard", "unread"}
      BY <1>7, <2>2 DEF waitForSessionBinding, Go, Keep
    <3> QED BY <1>2, <2>1, <3>1 DEF Owning
  <2> QED BY <1>4, <2>1, <2>2
<1>8. CASE removeOwnRun(p)
  BY <1>4, <1>8 DEF removeOwnRun, Owning
<1>9. CASE readDir(p) \/ readFile(p)
  <2>1. CASE ~Finish(p)
    <3>1. pc[p] \in {"readdir", "scan"} /\ pc'[p] = "scan"
      BY <1>9, <2>1 DEF readDir, readFile, Go
    <3>2. CASE readDir(p)
      <4>1. mem' = [mem EXCEPT ![p].todo = files]
        BY <2>1, <3>2 DEF readDir
      <4>2. keep
        BY <4>1 DEF Locals
      <4> QED BY <1>3, <3>1, <4>2 DEF Owning, Active, Early
    <3>3. CASE readFile(p)
      <4>1. keep
        BY <3>3 DEF readFile, Locals
      <4> QED BY <1>3, <3>1, <4>1 DEF Owning, Active, Early
    <3> QED BY <1>9, <3>2, <3>3
  <2> QED BY <1>1, <2>1
<1>10. CASE beginClassify(p) \/ classifyRecord(p) \/ endClassify(p)
  <2>1. CASE ~Finish(p)
    <3>1. /\ pc[p] \in {"scan", "classify"} /\ pc'[p] \in {"classify", "claim"}
          /\ pc'[p] = "claim" => mem[p].cmd = "resume"
      BY <1>10, <2>1 DEF beginClassify, classifyRecord, endClassify, Scanned, Go
    <3>2. keep
      <4>1. CASE beginClassify(p)
        BY <4>1 DEF beginClassify, Locals
      <4>2. CASE classifyRecord(p)
        <5>1. \E S, T : mem' = [mem EXCEPT ![p].todo = S, ![p].crashed = T]
              \/ mem' = [mem EXCEPT ![p].todo = S]
          BY <2>1, <4>2, Zenon DEF classifyRecord
        <5> QED BY <5>1 DEF Locals
      <4>3. CASE endClassify(p)
        BY <2>1, <4>3 DEF endClassify, Locals
      <4> QED BY <1>10, <4>1, <4>2, <4>3
    <3> QED BY <1>3, <3>1, <3>2 DEF Owning, Active, Early
  <2> QED BY <1>1, <2>1
<1>11. CASE claimRun(p)
  <2>1. CASE ~Finish(p)
    <3>1. PICK r : /\ pc[p] = "claim" /\ Go(p, "save")
                   /\ mem' = [mem EXCEPT ![p].claimed = {r}]
      BY <1>11, <2>1 DEF claimRun
    <3>2. same /\ pc'[p] = "save"
      BY <3>1 DEF Go, Locals
    <3> QED BY <3>1, <3>2 DEF Ordered, Loyal, Owning, Active, Early
  <2> QED BY <1>1, <2>1
<1>12. CASE releaseRunClaim(p)
  <2>1. CASE ~Finish(p)
    <3>1. PICK r : /\ pc[p] = "release" /\ pc' = pc
                   /\ mem' = [mem EXCEPT ![p].todo = @ \ {r}, ![p].claimed = @ \ {r}]
      BY <1>12, <2>1 DEF releaseRunClaim
    <3>2. keep
      BY <3>1 DEF Locals
    <3> QED BY <1>3, <3>1, <3>2 DEF Owning, Active, Early
  <2> QED BY <1>1, <2>1
<1>13. ASSUME ReleaseClaims(p), pc[p] \in {"claimAll", "removeAll"} PROVE good
  <2>1. keep /\ pc'[p] = "release"
    BY <1>13 DEF ReleaseClaims, Go, Locals
  <2> QED BY <1>3, <1>13, <2>1 DEF Owning, Active, Early
<1>14. CASE checkMatches(p)
  <2>1. CASE ~Finish(p)
    <3>1. /\ pc[p] = "scan" /\ mem[p].cmd = "delete" /\ Go(p, "claimAll")
          /\ mem' = [mem EXCEPT ![p].todo = Matches(p)]
      BY <1>14, <2>1 DEF checkMatches, Scanned
    <3>2. keep /\ pc'[p] = "claimAll"
      BY <3>1 DEF Go, Locals
    <3> QED BY <1>3, <3>1, <3>2 DEF Owning, Active, Early
  <2> QED BY <1>1, <2>1
<1>15. CASE claimRunForDelete(p) \/ removeClaimedRun(p)
  <2>1. CASE ~Finish(p) /\ ~ReleaseClaims(p)
    <3>1. /\ pc[p] \in {"claimAll", "removeAll"} /\ pc'[p] \in {"claimAll", "removeAll"}
          /\ pc'[p] = "claimAll" => pc[p] = "claimAll"
      BY <1>15, <2>1 DEF claimRunForDelete, removeClaimedRun, Go
    <3>2. same /\ (pc[p] = "claimAll" \/ keep)
      <4>1. ASSUME NEW r, mem' = [mem EXCEPT ![p].todo = @ \ {r}, ![p].claimed = @ \cup {r}]
            PROVE  same
        BY <4>1 DEF Locals
      <4>2. ASSUME NEW r, mem' = [mem EXCEPT ![p].todo = @ \ {r}, ![p].claimed = @ \ {r}]
            PROVE  keep
        BY <4>2 DEF Locals
      <4>3. ASSUME mem' = [mem EXCEPT ![p].todo = mem[p].claimed] PROVE keep
        BY <4>3 DEF Locals
      <4>4. CASE claimRunForDelete(p)
        BY <2>1, <4>1, <4>3, <4>4 DEF claimRunForDelete
      <4>5. CASE removeClaimedRun(p)
        BY <2>1, <4>2, <4>5 DEF removeClaimedRun
      <4> QED BY <1>15, <4>4, <4>5
    <3>3. mem'[p].claimed \subseteq mem[p].claimed \/ mem[p].cmd = "delete"
      BY <3>2 DEF Ordered
    <3> QED BY <1>3, <3>1, <3>2, <3>3 DEF Ordered, Owning, Active, Early
  <2>2. pc[p] \in {"claimAll", "removeAll"}
    BY <1>15 DEF claimRunForDelete, removeClaimedRun
  <2> QED BY <1>1, <1>13, <2>1, <2>2
<1>16. CASE \E cmd \in Commands, sid \in Session \cup {NoSession} : Invoke(p, cmd, sid)
  <2>1. PICK cmd, sid : /\ pc[p] = "idle" /\ Go(p, IF cmd = "run" THEN "save" ELSE "readdir")
                        /\ mem' = [mem EXCEPT ![p].cmd = cmd, ![p].sid = sid]
    BY <1>16 DEF Invoke
  <2>2. /\ mem'[p].own = mem[p].own /\ mem'[p].cmd = cmd /\ mem'[p].claimed = mem[p].claimed
        /\ pc'[p] = IF cmd = "run" THEN "save" ELSE "readdir"
    BY <2>1 DEF Go, Locals
  <2> QED BY <2>1, <2>2 DEF Ordered, Loyal, Owning, Active, Early
<1>17. CASE CsgStep(p)
  BY <1>5, <1>6, <1>7, <1>8, <1>9, <1>10, <1>11, <1>12, <1>14, <1>15, <1>17
  DEF CsgStep, Supervise
<1> QED BY <1>16, <1>17 DEF StepOf

-----------------------------------------------------------------------------
(* What a step does to the records, as far as the promise is concerned.    *)

\* The records that are on disk, with whom they name.
Same(R) == /\ born' = born
           /\ \A r \in R : rec'[r].wrapper = rec[r].wrapper /\ rec'[r].claim = rec[r].claim

Still == files' = files /\ Same(files)

Marked(r, claim) == /\ r \in files /\ files' = files /\ Same(files \ {r})
                    /\ rec'[r].wrapper = rec[r].wrapper /\ rec'[r].claim = claim

Gone(r) == r \in files /\ files' = files \ {r} /\ Same(files')

\* The same processes are there before and after the step.
SameAlive == \A c \in Csg : ProcAlive(c)' <=> ProcAlive(c)

Supervising(p, r) == registrySupervises' = [registrySupervises EXCEPT ![p] = r]
Claiming(p, R)    == registryClaims' = [registryClaims EXCEPT ![p] = R]

\* The processes C end, and the others supervise and claim what they did.
Lapsed(C) ==
  \A c \in Csg :
    IF c \in C
    THEN ~ProcAlive(c)' /\ (registrySupervises')[c] = NoRun /\ (registryClaims')[c] = {}
    ELSE /\ ProcAlive(c)' <=> ProcAlive(c)
         /\ (registrySupervises')[c] = registrySupervises[c]
         /\ (registryClaims')[c] = registryClaims[c]

Left(p) == p \in Csg /\ SameAlive /\ Supervising(p, NoRun) /\ UNCHANGED registryClaims

Dropped(p) == /\ p \in Csg /\ SameAlive /\ UNCHANGED registrySupervises
              /\ \E r \in Run : Claiming(p, registryClaims[p] \ {r})

Created(p) == /\ p \in Csg /\ pc[p] = "save" /\ pc'[p] = "start"
              /\ born' = born + 1 /\ born < MaxRuns
              /\ files' = files \cup {born'} /\ mem'[p].own = born'
              /\ rec'[born'].wrapper = p /\ rec'[born'].claim = NoProc
              /\ \A r \in files : rec'[r] = rec[r]
              /\ SameAlive /\ registrySupervises[p] = NoRun
              /\ Supervising(p, born') /\ UNCHANGED registryClaims

Taken(p) == /\ p \in Csg /\ pc'[p] # "gone" /\ mem'[p].cmd \in {"resume", "delete"}
            /\ SameAlive /\ UNCHANGED registrySupervises
            /\ \E r \in files : /\ ~ProcAlive(rec[r].wrapper) /\ ~ProcAlive(rec[r].claim)
                                /\ Marked(r, p) /\ Claiming(p, registryClaims[p] \cup {r})

Released(p) == /\ p \in Csg /\ pc[p] # "gone" /\ SameAlive /\ UNCHANGED registrySupervises
               /\ \E r \in files : /\ rec[r].claim = p /\ Marked(r, NoProc)
                                   /\ Claiming(p, registryClaims[p] \ {r})

Cleaned == /\ SameAlive /\ UNCHANGED <<registrySupervises, registryClaims>>
           /\ \E r \in files : ~ProcAlive(rec[r].wrapper) /\ Gone(r)

Deleted(p) == /\ p \in Csg /\ pc[p] # "gone" /\ SameAlive /\ UNCHANGED registrySupervises
              /\ \E r \in files : /\ ~ProcAlive(rec[r].wrapper) /\ Gone(r)
                                  /\ r \in registryClaims[p] /\ rec[r].claim = p
                                  /\ Claiming(p, registryClaims[p] \ {r})

Settled(p) == /\ p \in Csg /\ pc[p] \in Owning /\ Gone(mem[p].own)
              /\ pc'[p] # "gone" \/ mem[p].cmd = "run"
              /\ \A c \in Csg \ {p} : ProcAlive(c)' <=> ProcAlive(c)
              /\ Supervising(p, NoRun) /\ UNCHANGED registryClaims

Move(p) == \/ Still /\ ((\E C \in SUBSET Csg : Lapsed(C)) \/ Left(p) \/ Dropped(p))
           \/ Created(p) \/ Taken(p) \/ Released(p) \/ Cleaned \/ Deleted(p) \/ Settled(p)

LEMMA RemoveGone == ASSUME TypeOK, NEW r, NEW ok, removeRun(r, ok)
                    PROVE  Still \/ (ok /\ r \in files /\ Gone(r))
<1>1. \A q \in files \ {r} : rec'[q] = rec[q]
  BY DEF removeRun, TypeOK
<1>2. born' = born
  BY DEF removeRun
<1>3. CASE ok /\ r \in files
  <2>1. files' = files \ {r}
    BY <1>3 DEF removeRun
  <2> QED BY <1>1, <1>2, <1>3, <2>1 DEF Gone, Same
<1>4. CASE ~ok
  BY <1>4 DEF removeRun, Still, Same
<1>5. CASE ok /\ r \notin files
  <2>1. files' = files
    BY <1>5 DEF removeRun
  <2> QED BY <1>1, <1>2, <1>5, <2>1 DEF Still, Same
<1> QED BY <1>3, <1>4, <1>5

LEMMA MutateMarked ==
  ASSUME TypeOK, NEW r \in files, NEW claim \in Csg \cup {NoProc},
         mutateRun(r, [rec[r] EXCEPT !.claim = claim])
  PROVE  Marked(r, claim)
<1> rec \in [Run -> RunRecord] /\ files \subseteq Run /\ rec[r] \in RunRecord
  BY DEF TypeOK
<1>1. rec'[r] = [rec[r] EXCEPT !.claim = claim] /\ \A q \in files \ {r} : rec'[q] = rec[q]
  BY DEF mutateRun
<1>2. rec'[r].wrapper = rec[r].wrapper /\ rec'[r].claim = claim
  BY <1>1 DEF RunRecord
<1> QED BY <1>1, <1>2 DEF mutateRun, Marked, Same

LEMMA MutateStill ==
  ASSUME TypeOK, NEW r \in Run, NEW record, mutateRun(r, record),
         record.wrapper = rec[r].wrapper, record.claim = rec[r].claim
  PROVE  Still
<1> rec \in [Run -> RunRecord] /\ files \subseteq Run
  BY DEF TypeOK
<1>1. rec'[r] = record /\ \A q \in files \ {r} : rec'[q] = rec[q]
  BY DEF mutateRun
<1> QED BY <1>1 DEF mutateRun, Still, Same

LEMMA StillStore == ASSUME UNCHANGED store PROVE Still
  BY DEF store, Still, Same

LEMMA DeadClaim == ASSUME NEW record, NEW blind, ~recordHasActiveRecoveryClaim(record, blind)
                   PROVE  ~ProcAlive(record.claim)
  BY DEF recordHasActiveRecoveryClaim, processLiveness

\* What a step does to the views of those it is not of, and of its process.
LEMMA Locally ==
  ASSUME TypeOK, TypeOK', NEW p \in Csg, StepOf(p)
  PROVE  /\ pc[p] # "gone"
         /\ \A c \in Csg \ {p} : ProcAlive(c)' <=> ProcAlive(c)
         /\ Supervising(p, IF pc'[p] = "release" THEN NoRun ELSE mem'[p].own)
         /\ Claiming(p, mem'[p].claimed)
         /\ pc'[p] # "gone" => SameAlive
<1>1. pc[p] # "gone" /\ \A c \in Csg \ {p} : pc'[c] = pc[c] /\ mem'[c] = mem[c]
  BY Alone DEF Proc
<1>2. Supervising(p, IF pc'[p] = "release" THEN NoRun ELSE mem'[p].own)
  BY <1>1 DEF Supervising, registrySupervises
<1>3. Claiming(p, mem'[p].claimed)
  BY <1>1 DEF Claiming, registryClaims
<1> QED BY <1>1, <1>2, <1>3 DEF SameAlive, ProcAlive

LEMMA Unchanging ==
  ASSUME NEW p \in Csg
  PROVE  /\ Supervising(p, registrySupervises[p]) => UNCHANGED registrySupervises
         /\ Claiming(p, registryClaims[p]) => UNCHANGED registryClaims
         /\ registrySupervises[p] = IF pc[p] = "release" THEN NoRun ELSE mem[p].own
         /\ registryClaims[p] = mem[p].claimed
  BY DEF Supervising, Claiming, registrySupervises, registryClaims

LEMMA Steadily ==
  ASSUME SameAlive, UNCHANGED <<registrySupervises, registryClaims>> PROVE Lapsed({})
  BY DEF SameAlive, Lapsed

LEMMA Finishing == ASSUME TypeOK, TypeOK', NEW p \in Csg, StepOf(p), Finish(p) PROVE Lapsed({p})
<1>1. pc'[p] = "gone" /\ mem'[p].own = NoRun /\ mem'[p].claimed = {} /\ p \in Proc
  BY DEF Finish, Go, Fresh, TypeOK, Proc
<1>2. /\ (registrySupervises')[p] = NoRun /\ (registryClaims')[p] = {} /\ ~ProcAlive(p)'
  BY <1>1 DEF registrySupervises, registryClaims, ProcAlive
<1>3. \A c \in Csg \ {p} : /\ ProcAlive(c)' <=> ProcAlive(c)
                           /\ (registrySupervises')[c] = registrySupervises[c]
                           /\ (registryClaims')[c] = registryClaims[c]
  <2>1. \A c \in Csg \ {p} : pc'[c] = pc[c] /\ mem'[c] = mem[c]
    BY Alone DEF Proc
  <2> QED BY <2>1 DEF registrySupervises, registryClaims, ProcAlive
<1> QED BY <1>2, <1>3 DEF Lapsed

\* What a hook does to the records is binding and cleaning.
LEMMA HookMove == ASSUME TypeOK, TypeOK', NameInv, NEW p \in Hook, StepOf(p) PROVE Move(p)
<1> /\ p \in Proc /\ p \notin Csg /\ mem[p] \in Locals /\ rec \in [Run -> RunRecord]
    /\ files \subseteq Run /\ Viewed(p) /\ Phased(p)
  BY DEF TypeOK, Proc, NameInv, ScanInv
<1>0. SameAlive /\ UNCHANGED <<registrySupervises, registryClaims>>
  <2>1. \A c \in Csg : pc'[c] = pc[c] /\ mem'[c] = mem[c]
    BY Alone DEF Proc
  <2>2. UNCHANGED <<registrySupervises, registryClaims>>
    BY <2>1 DEF registrySupervises, registryClaims
  <2> QED BY <2>1, <2>2 DEF SameAlive, ProcAlive
<1>1. ASSUME Still PROVE Move(p)
  <2>1. {} \in SUBSET Csg /\ Lapsed({})
    BY <1>0, Steadily
  <2> QED BY <1>1, <2>1 DEF Move
<1>2. ASSUME UNCHANGED store PROVE Move(p)
  BY <1>1, <1>2, StillStore
<1>3. CASE removeOlderDeadRecords(p)
  <2>1. CASE ~UNCHANGED store
    <3>1. PICK r \in mem[p].todo, ok \in Attempt, blind \in Blind :
            removeRun(r, ok /\ ~recordIsAlive(r, mem[p].view[r], blind))
      BY <1>3, <2>1 DEF removeOlderDeadRecords
    <3>2. r \in mem[p].saw
      BY <1>3 DEF removeOlderDeadRecords, Phased
    <3>3. CASE recordIsAlive(r, mem[p].view[r], blind)
      BY <1>1, <3>1, <3>3, RemoveGone
    <3>4. CASE ~recordIsAlive(r, mem[p].view[r], blind)
      <4>1. r \in files => ~ProcAlive(rec[r].wrapper)
        BY <3>2, <3>4, DeadWrapper DEF Viewed
      <4> QED BY <1>0, <1>1, <3>1, <4>1, RemoveGone DEF Move, Cleaned
    <3> QED BY <3>3, <3>4
  <2> QED BY <1>2, <2>1
<1>4. CASE bindSession(p)
  <2>1. CASE ~UNCHANGED store
    <3>1. PICK record : /\ mem[p].own \in files
                        /\ \E codex : record = [rec[mem[p].own] EXCEPT !.session = mem[p].sid,
                                                                       !.codex = codex]
                        /\ mutateRun(mem[p].own, record)
      BY <1>4, <2>1 DEF bindSession
    <3>2. rec[mem[p].own] \in RunRecord /\ mem[p].own \in Run
      BY <3>1
    <3>3. /\ record.wrapper = rec[mem[p].own].wrapper
          /\ record.claim = rec[mem[p].own].claim
      BY <3>1, <3>2 DEF RunRecord
    <3> QED BY <1>1, <3>1, <3>2, <3>3, MutateStill
  <2> QED BY <1>2, <2>1
<1>5. CASE readDir(p) \/ readFile(p) \/ beginSweep(p)
  BY <1>2, <1>5 DEF readDir, readFile, beginSweep
<1>6. CASE \E r \in Run, sid \in Session : hookMain(p, r, sid)
  BY <1>2, <1>6 DEF hookMain
<1> QED BY <1>3, <1>4, <1>5, <1>6 DEF StepOf, HookStep

LEMMA CsgMove == ASSUME TypeOK, TypeOK', NameInv, NEW p \in Csg, StepOf(p) PROVE Move(p)
<1> /\ pc \in [Proc -> Label] /\ mem \in [Proc -> Locals] /\ mem[p] \in Locals
    /\ rec \in [Run -> RunRecord] /\ files \subseteq Run /\ born \in Nat
    /\ Ordered(p) /\ Candidates(p) /\ DeadHeld(p) /\ Viewed(p) /\ Phased(p)
    /\ p \in Proc /\ p \notin Hook
  BY DEF TypeOK, Proc, NameInv, ScanInv
\* how the process itself may go on
<1> DEFINE lapses  == \E C \in SUBSET Csg : Lapsed(C)
           same    == mem'[p].own = mem[p].own /\ mem'[p].claimed = mem[p].claimed
           works   == SameAlive /\ UNCHANGED registrySupervises
<1>1. ASSUME mem'[p].own = mem[p].own, pc'[p] # "gone", pc'[p] = "release" <=> pc[p] = "release"
      PROVE  works
  BY <1>1, Locally, Unchanging
<1>2. ASSUME mem'[p].claimed = mem[p].claimed PROVE UNCHANGED registryClaims
  BY <1>2, Locally, Unchanging
<1>3. ASSUME works, UNCHANGED registryClaims PROVE lapses
  <2>1. Lapsed({}) /\ {} \in SUBSET Csg
    BY <1>3, Steadily
  <2> QED BY <2>1
<1>4. ASSUME Finish(p) PROVE lapses
  <2>1. Lapsed({p}) /\ {p} \in SUBSET Csg
    BY <1>4, Finishing
  <2> QED BY <2>1
<1>5. ASSUME Return(p), ~Finish(p) PROVE Left(p) /\ pc'[p] # "gone"
  <2>1. /\ Go(p, "release") /\ mem' = [mem EXCEPT ![p].todo = mem[p].claimed]
    BY <1>5 DEF Return
  <2>2. pc'[p] = "release" /\ same
    BY <2>1 DEF Go, Locals
  <2>3. SameAlive /\ Supervising(p, NoRun)
    BY <2>2, Locally
  <2> QED BY <1>2, <2>2, <2>3 DEF Left
\* one without a run gives up before it has done anything
<1>6. ASSUME ReleaseClaims(p), pc[p] \in {"claimAll", "removeAll"} PROVE lapses
  <2>1. pc'[p] = "release" /\ same
    BY <1>6 DEF ReleaseClaims, Go, Locals
  <2>2. mem[p].own = NoRun
    BY <1>6 DEF Ordered, Owning, Active
  <2>3. SameAlive /\ Supervising(p, registrySupervises[p])
    BY <1>6, <2>1, <2>2, Locally, Unchanging
  <2> QED BY <1>2, <1>3, <2>1, <2>3, Unchanging
<1>7. ASSUME same, pc'[p] # "gone", pc'[p] = "release" <=> pc[p] = "release" PROVE lapses
  BY <1>1, <1>2, <1>3, <1>7
<1>8. ASSUME Still, lapses \/ Left(p) PROVE Move(p)
  BY <1>8 DEF Move
<1>9. ASSUME UNCHANGED store, lapses \/ Left(p) PROVE Move(p)
  BY <1>8, <1>9, StillStore
<1>10. ASSUME NEW r \in mem[p].saw, ~ProcAlive(mem[p].view[r].wrapper)
       PROVE  r \in files => ~ProcAlive(rec[r].wrapper)
  BY <1>10 DEF Viewed
<1> HIDE DEF works, lapses
<1>11. CASE saveNewRun(p)
  <2>1. CASE UNCHANGED store /\ Return(p)
    BY <1>4, <1>5, <1>9, <2>1
  <2>2. CASE ~(UNCHANGED store /\ Return(p))
    <3>1. /\ born' = born + 1 /\ born < MaxRuns /\ files' = files \cup {born'}
          /\ rec' = [rec EXCEPT ![born'] = [Blank EXCEPT !.wrapper = p, !.session = mem[p].sid]]
          /\ Go(p, "start") /\ mem' = [mem EXCEPT ![p].own = born'] /\ pc[p] = "save"
      BY <1>11, <2>2 DEF saveNewRun
    <3>2. born' \in Run /\ born' \notin files
      BY <3>1 DEF NameInv, Numbered, Run
    <3>3. /\ rec'[born'] = [Blank EXCEPT !.wrapper = p, !.session = mem[p].sid]
          /\ \A r \in files : rec'[r] = rec[r]
      BY <3>1, <3>2
    <3>4. rec'[born'].wrapper = p /\ rec'[born'].claim = NoProc
      BY <3>3 DEF Blank
    <3>5. mem'[p].own = born' /\ mem'[p].claimed = mem[p].claimed /\ pc'[p] = "start"
      BY <3>1 DEF Locals, Go
    <3>6. mem[p].own = NoRun
      BY <3>1 DEF Ordered, Owning, Active
    <3>7. registrySupervises[p] = NoRun
      BY <3>1, <3>6, Unchanging
    <3>8. SameAlive /\ Supervising(p, born')
      BY <3>5, Locally
    <3>9. UNCHANGED registryClaims
      BY <1>2, <3>5
    <3> QED BY <3>1, <3>3, <3>4, <3>5, <3>7, <3>8, <3>9 DEF Move, Created
  <2> QED BY <2>1, <2>2
<1>12. CASE startTarget(p) \/ assignProcessToJob(p) \/ resumeSuspendedProcess(p)
              \/ superviseProcess(p)
  <2>1. same /\ pc[p] # "release" /\ UNCHANGED store
    BY <1>12 DEF startTarget, assignProcessToJob, resumeSuspendedProcess, superviseProcess, Keep
  <2>2. pc'[p] \notin {"gone", "release"}
    BY <1>12 DEF startTarget, assignProcessToJob, resumeSuspendedProcess, superviseProcess, Go
  <2> QED BY <1>7, <1>9, <2>1, <2>2
<1>13. CASE onStart(p)
  <2>1. same /\ pc[p] # "release" /\ pc'[p] \notin {"gone", "release"}
    BY <1>13 DEF onStart, Keep, Go
  <2>2. PICK ok \in Attempt :
          mutateRun(mem[p].own, IF ok /\ mem[p].own \in files
                                THEN [rec[mem[p].own] EXCEPT !.codex = "root"]
                                ELSE rec[mem[p].own])
    BY <1>13 DEF onStart
  <2>3. CASE mem[p].own \in Run
    <3>1. rec[mem[p].own] \in RunRecord
      BY <2>3
    <3>2. Still
      BY <2>2, <2>3, <3>1, MutateStill DEF RunRecord
    <3> QED BY <1>7, <1>8, <2>1, <3>2
  <2>4. CASE mem[p].own \notin Run
    <3>1. UNCHANGED store
      BY <2>2, <2>4 DEF mutateRun, store
    <3> QED BY <1>7, <1>9, <2>1, <3>1
  <2> QED BY <2>3, <2>4
<1>14. CASE waitForSessionBinding(p)
  <2>1. UNCHANGED store /\ pc[p] = "binding"
    BY <1>14 DEF waitForSessionBinding
  <2>2. CASE Return(p)
    BY <1>4, <1>5, <1>9, <2>1, <2>2
  <2>3. CASE ~Return(p)
    <3>1. same /\ pc'[p] \notin {"gone", "release"}
      BY <1>14, <2>3 DEF waitForSessionBinding, Go, Keep
    <3> QED BY <1>7, <1>9, <2>1, <3>1
  <2> QED BY <2>2, <2>3
<1>15. CASE removeOwnRun(p)
  <2>1. PICK ok \in Attempt : removeRun(mem[p].own, ok)
    BY <1>15 DEF removeOwnRun
  <2>2. pc[p] \in Owning /\ Return(p) /\ pc[p] \notin {"release"}
    BY <1>15 DEF removeOwnRun, Owning
  <2>3. CASE Still
    BY <1>4, <1>5, <1>8, <2>2, <2>3
  <2>4. CASE ~Still
    <3>1. Gone(mem[p].own)
      BY <2>1, <2>4, RemoveGone
    <3>2. CASE Finish(p)
      <4>1. mem[p].cmd = "run"
        BY <2>2, <3>2 DEF Return, Finish, Go, Ordered
      <4>2. mem[p].claimed = {}
        BY <4>1 DEF Ordered
      <4>3. pc'[p] = "gone" /\ mem'[p].own = NoRun /\ mem'[p].claimed = {}
        BY <3>2 DEF Finish, Go, Fresh
      <4>4. Supervising(p, NoRun) /\ \A c \in Csg \ {p} : ProcAlive(c)' <=> ProcAlive(c)
        BY <4>3, Locally
      <4>5. UNCHANGED registryClaims
        BY <1>2, <4>2, <4>3
      <4> QED BY <2>2, <3>1, <4>1, <4>4, <4>5 DEF Move, Settled
    <3>3. CASE ~Finish(p)
      <4>1. Left(p) /\ pc'[p] # "gone"
        BY <1>5, <2>2, <3>3
      <4> QED BY <2>2, <3>1, <4>1 DEF Move, Settled, Left, SameAlive
    <3> QED BY <3>2, <3>3
  <2> QED BY <2>3, <2>4
<1>16. CASE readDir(p) \/ beginClassify(p) \/ endClassify(p) \/ checkMatches(p)
  <2>1. CASE Finish(p)
    <3>1. UNCHANGED store
      BY <1>16 DEF readDir, beginClassify, endClassify, checkMatches
    <3> QED BY <1>4, <1>9, <2>1, <3>1
  <2>2. CASE ~Finish(p)
    <3>1. /\ UNCHANGED store /\ pc[p] # "release" /\ pc'[p] \notin {"gone", "release"}
          /\ \E S : mem' = [mem EXCEPT ![p].todo = S]
      BY <1>16, <2>2 DEF readDir, beginClassify, endClassify, checkMatches, Scanned, Go
    <3>2. same
      BY <3>1 DEF Locals
    <3> QED BY <1>7, <1>9, <3>1, <3>2
  <2> QED BY <2>1, <2>2
<1>17. CASE readFile(p)
  <2>1. same
    BY <1>17 DEF readFile, Locals
  <2>2. UNCHANGED store /\ pc[p] = "scan" /\ pc'[p] = "scan"
    BY <1>17 DEF readFile
  <2> QED BY <1>7, <1>9, <2>1, <2>2
<1>18. CASE classifyRecord(p)
  <2>1. CASE Finish(p)
    <3>1. pc'[p] # pc[p]
      BY <1>18, <2>1 DEF classifyRecord, Finish, Go
    <3>2. Still
      <4>1. UNCHANGED store \/ \E r, ok : ~ok /\ removeRun(r, ok)
        BY <1>18, <3>1 DEF classifyRecord
      <4> QED BY <4>1, RemoveGone, StillStore
    <3> QED BY <1>4, <1>8, <2>1, <3>2
  <2>2. CASE ~Finish(p)
    <3>1. pc' = pc /\ pc[p] = "classify"
      BY <1>18, <2>2 DEF classifyRecord
    <3>2. same
      BY <1>18, <2>2 DEF classifyRecord, Locals
    <3>3. CASE UNCHANGED store
      BY <1>7, <1>9, <3>1, <3>2, <3>3
    <3>4. CASE ~UNCHANGED store
      <4>1. PICK r \in Newest(mem[p].todo), blind \in Blind, ok \in Attempt :
              removeRun(r, ok) /\ statusForRecord(r, mem[p].view[r], blind) = "CRASHED"
        BY <1>18, <3>4 DEF classifyRecord
      <4>2. r \in mem[p].saw
        BY <1>18 DEF Newest, classifyRecord, Phased
      <4>3. ~ProcAlive(mem[p].view[r].wrapper)
        BY <4>1, DeadWrapper DEF statusForRecord
      <4>4. Still \/ (r \in files /\ ~ProcAlive(rec[r].wrapper) /\ Gone(r))
        BY <1>10, <4>1, <4>2, <4>3, RemoveGone
      <4>5. works /\ UNCHANGED registryClaims
        BY <1>1, <1>2, <3>1, <3>2
      <4> QED BY <1>3, <1>8, <4>4, <4>5 DEF Move, Cleaned, works
    <3> QED BY <3>3, <3>4
  <2> QED BY <2>1, <2>2
\* a claim is taken on the record of a supervisor that is gone
<1>19. ASSUME works, pc'[p] # "gone", mem'[p].cmd \in {"resume", "delete"},
              NEW r \in files, NEW blind \in Blind,
              mem'[p].claimed = mem[p].claimed \cup {r},
              ~ProcAlive(rec[r].wrapper), ~recordHasActiveRecoveryClaim(rec[r], blind),
              mutateRun(r, [rec[r] EXCEPT !.claim = p])
       PROVE  Move(p)
  <2>1. Claiming(p, registryClaims[p] \cup {r})
    BY <1>19, Locally, Unchanging DEF Claiming
  <2>2. Marked(r, p) /\ ~ProcAlive(rec[r].claim)
    BY <1>19, DeadClaim, MutateMarked
  <2> QED BY <1>19, <2>1, <2>2 DEF Move, Taken, works
<1>20. CASE claimRun(p)
  <2>1. CASE Finish(p)
    <3>1. UNCHANGED store
      BY <1>20, <2>1 DEF claimRun, Finish, Go
    <3> QED BY <1>4, <1>9, <2>1, <3>1
  <2>2. CASE ~Finish(p)
    <3>1. PICK r \in mem[p].todo, blind \in Blind :
            /\ r \in files /\ ~recordHasActiveRecoveryClaim(rec[r], blind)
            /\ mutateRun(r, [rec[r] EXCEPT !.claim = p])
            /\ Go(p, "save") /\ mem' = [mem EXCEPT ![p].claimed = {r}]
      BY <1>20, <2>2 DEF claimRun
    <3>2. r \in mem[p].crashed /\ pc[p] = "claim"
      BY <1>20 DEF claimRun, Phased
    <3>3. ~ProcAlive(rec[r].wrapper)
      BY <1>10, <3>1, <3>2 DEF Candidates
    <3>4. /\ pc'[p] = "save" /\ mem'[p].cmd = mem[p].cmd /\ mem'[p].own = mem[p].own
          /\ mem'[p].claimed = {r}
      BY <3>1 DEF Go, Locals
    <3>5. mem[p].cmd = "resume" /\ mem[p].claimed = {}
      BY <3>2 DEF Ordered, Early
    <3>6. works
      BY <1>1, <3>2, <3>4
    <3> QED BY <1>19, <3>1, <3>3, <3>4, <3>5, <3>6
  <2> QED BY <2>1, <2>2
<1>21. CASE releaseRunClaim(p)
  <2>1. CASE Finish(p) /\ UNCHANGED store
    BY <1>4, <1>9, <2>1
  <2>2. CASE ~(Finish(p) /\ UNCHANGED store)
    <3>1. PICK r \in mem[p].todo, ok \in Attempt :
            /\ mutateRun(r, IF ok /\ r \in files /\ rec[r].claim = p
                            THEN [rec[r] EXCEPT !.claim = NoProc] ELSE rec[r])
            /\ mem' = [mem EXCEPT ![p].todo = @ \ {r}, ![p].claimed = @ \ {r}]
            /\ UNCHANGED pc
      BY <1>21, <2>2 DEF releaseRunClaim
    <3>2. /\ r \in Run /\ mem'[p].own = mem[p].own /\ mem'[p].claimed = mem[p].claimed \ {r}
          /\ pc[p] = "release"
      BY <1>21, <3>1 DEF releaseRunClaim, Locals
    <3>3. works
      BY <1>1, <3>1, <3>2
    <3>6. Claiming(p, registryClaims[p] \ {r})
      BY <3>2, Locally, Unchanging DEF Claiming
    <3>4. CASE ok /\ r \in files /\ rec[r].claim = p
      <4>1. Marked(r, NoProc)
        BY <3>1, <3>4, MutateMarked
      <4> QED BY <3>2, <3>3, <3>4, <3>6, <4>1 DEF Move, Released, works
    <3>5. CASE ~(ok /\ r \in files /\ rec[r].claim = p)
      <4>1. Still
        BY <3>1, <3>5, SameStore, StillStore
      <4> QED BY <3>2, <3>3, <3>6, <4>1 DEF Move, Dropped, works
    <3> QED BY <3>4, <3>5
  <2> QED BY <2>1, <2>2
<1>22. CASE claimRunForDelete(p)
  <2>0. pc[p] = "claimAll" /\ mem[p].cmd = "delete"
    BY <1>22 DEF claimRunForDelete, Ordered
  <2>1. CASE ReleaseClaims(p)
    <3>1. UNCHANGED store
      BY <2>1 DEF ReleaseClaims
    <3> QED BY <1>6, <1>9, <2>0, <2>1, <3>1
  <2>2. CASE Go(p, "removeAll") /\ UNCHANGED store /\ mem' = [mem EXCEPT ![p].todo = mem[p].claimed]
    <3>1. same /\ pc'[p] = "removeAll"
      BY <2>2 DEF Go, Locals
    <3> QED BY <1>7, <1>9, <2>0, <2>2, <3>1
  <2>3. CASE \E r \in mem[p].todo, blind \in Blind :
               /\ r \in files /\ ~recordIsAlive(r, rec[r], blind)
               /\ ~recordHasActiveRecoveryClaim(rec[r], blind)
               /\ mutateRun(r, [rec[r] EXCEPT !.claim = p]) /\ UNCHANGED pc
               /\ mem' = [mem EXCEPT ![p].todo = @ \ {r}, ![p].claimed = @ \cup {r}]
    <3>1. PICK r \in mem[p].todo, blind \in Blind :
            /\ r \in files /\ ~recordIsAlive(r, rec[r], blind)
            /\ ~recordHasActiveRecoveryClaim(rec[r], blind)
            /\ mutateRun(r, [rec[r] EXCEPT !.claim = p]) /\ UNCHANGED pc
            /\ mem' = [mem EXCEPT ![p].todo = @ \ {r}, ![p].claimed = @ \cup {r}]
      BY <2>3
    <3>2. /\ mem'[p].cmd = mem[p].cmd /\ mem'[p].own = mem[p].own
          /\ mem'[p].claimed = mem[p].claimed \cup {r}
      BY <3>1 DEF Locals
    <3>3. works
      BY <1>1, <2>0, <3>1, <3>2
    <3> QED BY <1>19, <2>0, <3>1, <3>2, <3>3, DeadWrapper
  <2> QED BY <1>22, <2>1, <2>2, <2>3 DEF claimRunForDelete
<1>23. CASE removeClaimedRun(p)
  <2>0. pc[p] = "removeAll"
    BY <1>23 DEF removeClaimedRun
  <2>1. CASE ReleaseClaims(p)
    <3>1. UNCHANGED store
      BY <2>1 DEF ReleaseClaims
    <3> QED BY <1>6, <1>9, <2>0, <2>1, <3>1
  <2>2. CASE Finish(p) /\ UNCHANGED store
    BY <1>4, <1>9, <2>2
  <2>3. CASE \E r \in mem[p].todo :
               /\ r \in files /\ rec[r].claim = p /\ removeRun(r, TRUE) /\ UNCHANGED pc
               /\ mem' = [mem EXCEPT ![p].todo = @ \ {r}, ![p].claimed = @ \ {r}]
    <3>1. PICK r \in mem[p].todo :
            /\ r \in files /\ rec[r].claim = p /\ removeRun(r, TRUE) /\ UNCHANGED pc
            /\ mem' = [mem EXCEPT ![p].todo = @ \ {r}, ![p].claimed = @ \ {r}]
      BY <2>3
    <3>2. r \in mem[p].claimed
      BY <2>0 DEF Phased
    <3>3. ~ProcAlive(rec[r].wrapper)
      BY <3>1, <3>2 DEF DeadHeld
    <3>4. mem'[p].own = mem[p].own /\ mem'[p].claimed = mem[p].claimed \ {r}
      BY <3>1 DEF Locals
    <3>8. works /\ r \in registryClaims[p]
      BY <1>1, <2>0, <3>1, <3>2, <3>4, Unchanging
    <3>9. Claiming(p, registryClaims[p] \ {r})
      BY <3>4, Locally, Unchanging DEF Claiming
    <3>5. works /\ Claiming(p, registryClaims[p] \ {r}) /\ r \in registryClaims[p]
      BY <3>8, <3>9
    <3>6. CASE Still
      BY <3>1, <3>5, <3>6 DEF Move, Dropped, works
    <3>7. CASE ~Still
      <4>1. Gone(r)
        BY <3>1, <3>7, RemoveGone
      <4> QED BY <2>0, <3>1, <3>3, <3>5, <4>1 DEF Move, Deleted, works
    <3> QED BY <3>6, <3>7
  <2> QED BY <1>23, <2>1, <2>2, <2>3 DEF removeClaimedRun
<1>24. CASE \E cmd \in Commands, sid \in Session \cup {NoSession} : Invoke(p, cmd, sid)
  <2>1. PICK cmd, sid : /\ Go(p, IF cmd = "run" THEN "save" ELSE "readdir") /\ UNCHANGED store
                        /\ pc[p] = "idle" /\ mem' = [mem EXCEPT ![p].cmd = cmd, ![p].sid = sid]
    BY <1>24 DEF Invoke
  <2>2. same /\ pc'[p] \notin {"gone", "release"}
    BY <2>1 DEF Go, Locals
  <2> QED BY <1>7, <1>9, <2>1, <2>2
<1>25. CASE CsgStep(p)
  BY <1>11, <1>12, <1>13, <1>14, <1>15, <1>16, <1>17, <1>18, <1>20, <1>21, <1>22, <1>23, <1>25
  DEF CsgStep, Supervise
<1> QED BY <1>24, <1>25 DEF StepOf

LEMMA MoveStep == ASSUME TypeOK, TypeOK', NameInv, NEW p \in Proc, StepOf(p) PROVE Move(p)
  BY HookMove, CsgMove DEF Proc

-----------------------------------------------------------------------------
(* The invariant.                                                          *)

LEMMA NamedStep ==
  ASSUME TypeOK, TypeOK', NameInv, Grows, Mortal, NEW p \in Proc, Move(p),
         \A q \in Proc \ {p} : pc'[q] = pc[q] /\ mem'[q] = mem[q],
         NEW c \in Csg, Ordered(c)', Loyal(c)
  PROVE  Named(c)'
<1> /\ files \subseteq Run /\ born \in Nat /\ born' \in Nat /\ Ordered(c) /\ Named(c)
    /\ Numbered /\ c \in Proc
  BY DEF TypeOK, NameInv, Proc
<1> SUFFICES ASSUME NEW r \in files'
             PROVE  /\ rec'[r].wrapper = c /\ ProcAlive(c)' => mem'[c].own = r
                    /\ pc'[c] \in Owning /\ mem'[c].own = r => rec'[r].wrapper = c
                    /\ rec'[r].claim = c /\ ProcAlive(c)' => mem'[c].cmd \in {"resume", "delete"}
  BY DEF Named, ProcAlive
<1>0. ProcAlive(c)' => ProcAlive(c)
  BY DEF Mortal, ProcAlive
<1>1. CASE r \in files
  <2>1. rec'[r].wrapper = rec[r].wrapper
    BY <1>1 DEF Grows
  <2>2. r \in 1..born /\ r # NoRun
    BY <1>1 DEF Numbered, NoRun
  <2>3. rec'[r].wrapper = c /\ ProcAlive(c)' => mem'[c].own = r
    BY <1>0, <1>1, <2>1, <2>2 DEF Named, Loyal
  <2>4. pc'[c] \in Owning /\ mem'[c].own = r => rec'[r].wrapper = c
    BY <1>1, <2>1, <2>2 DEF Named, Loyal
  <2>5. \/ rec'[r].claim \in {rec[r].claim, NoProc}
        \/ p \in Csg /\ rec'[r].claim = p /\ mem'[p].cmd \in {"resume", "delete"}
    <3>1. CASE Still \/ Created(p) \/ Cleaned \/ Deleted(p) \/ Settled(p)
      BY <1>1, <3>1 DEF Still, Created, Cleaned, Deleted, Settled, Gone, Same
    <3>2. CASE Taken(p)
      BY <1>1, <3>2 DEF Taken, Marked, Same
    <3>3. CASE Released(p)
      BY <1>1, <3>3 DEF Released, Marked, Same
    <3> QED BY <3>1, <3>2, <3>3 DEF Move
  <2>6. rec'[r].claim = c /\ ProcAlive(c)' => mem'[c].cmd \in {"resume", "delete"}
    <3>1. rec[r].claim = c /\ ProcAlive(c)' => mem'[c].cmd \in {"resume", "delete"}
      BY <1>0, <1>1 DEF Named, Loyal
    <3> QED BY <2>5, <3>1
  <2> QED BY <2>3, <2>4, <2>6
<1>2. CASE r \notin files
  <2>1. Created(p) /\ r = born'
    <3>1. ASSUME Still \/ Taken(p) \/ Released(p) \/ Cleaned \/ Deleted(p) \/ Settled(p)
          PROVE  files' \subseteq files
      BY <3>1 DEF Still, Taken, Released, Cleaned, Deleted, Settled, Marked, Gone
    <3>2. Created(p)
      BY <1>2, <3>1 DEF Move
    <3> QED BY <1>2, <3>2 DEF Created
  <2>2. /\ p \in Csg /\ mem'[p].own = r /\ born' = born + 1
        /\ rec'[r].wrapper = p /\ rec'[r].claim = NoProc
    BY <2>1 DEF Created
  <2>3. c # p => mem'[c].own # r
    BY <2>1, <2>2 DEF Ordered
  <2> QED BY <2>2, <2>3
<1> QED BY <1>1, <1>2

LEMMA NameStep == ASSUME TypeOK, TypeOK', NameInv, Grows, Mortal, NEW p \in Proc, StepOf(p)
                  PROVE  NameInv'
<1>1. \A q \in Proc \ {p} : pc'[q] = pc[q] /\ mem'[q] = mem[q]
  BY Alone
<1>2. ASSUME NEW c \in Csg PROVE Ordered(c)' /\ Loyal(c)
  <2>1. Ordered(c)
    BY DEF NameInv
  <2>2. CASE c = p
    BY <2>1, <2>2, LoyalStep
  <2>3. CASE c # p
    <3>1. pc'[c] = pc[c] /\ mem'[c] = mem[c]
      BY <1>1, <2>3 DEF Proc
    <3>2. born \in Nat /\ born' \in Nat /\ born <= born'
      BY DEF TypeOK, Grows
    <3>3. Loyal(c)
      BY <3>1 DEF Loyal
    <3> QED BY <2>1, <3>1, <3>2, <3>3 DEF Ordered
  <2> QED BY <2>2, <2>3
<1>3. \A c \in Csg : Named(c)'
  BY <1>1, <1>2, MoveStep, NamedStep
<1>4. \A q \in Proc : Scan(q)'
  <2>1. \A q \in Proc : Scan(q)
    BY DEF NameInv, ScanInv, Scan
  <2>2. Scan(p)'
    BY <2>1, ScanStep DEF NameInv
  <2>3. ASSUME NEW q \in Proc \ {p} PROVE Scan(q)'
    BY <1>1, <2>1, Bystander DEF NameInv
  <2> QED BY <2>2, <2>3
<1>5. ScanInv'
  BY <1>4 DEF ScanInv, Scan, Proc
<1> QED BY <1>2, <1>3, <1>5 DEF NameInv, Grows, Numbered

LEMMA NameEnds == ASSUME TypeOK, TypeOK', NameInv, Ends, Mortal PROVE NameInv'
<1>1. /\ UNCHANGED <<files, rec, born>>
      /\ \A p \in Proc : \/ pc'[p] = pc[p] /\ mem'[p] = mem[p]
                         \/ pc'[p] = "gone" /\ mem'[p] = Fresh
  BY EndsEffect DEF store
<1>2. Grows
  BY <1>1 DEF Grows, NameInv, Numbered, TypeOK
<1>3. ASSUME NEW c \in Csg PROVE Ordered(c)' /\ Named(c)'
  <2>1. Ordered(c) /\ Named(c) /\ c \in Proc
    BY DEF NameInv, Proc
  <2>2. CASE pc'[c] = pc[c] /\ mem'[c] = mem[c]
    BY <1>1, <2>1, <2>2 DEF Ordered, Named, ProcAlive
  <2>3. CASE pc'[c] = "gone" /\ mem'[c] = Fresh
    <3>1. mem'[c].own = NoRun /\ mem'[c].claimed = {} /\ born' \in Nat
      BY <2>3 DEF Fresh, TypeOK
    <3>2. Ordered(c)'
      BY <2>3, <3>1 DEF Ordered, Owning, Active, NoRun
    <3> QED BY <2>3, <3>2 DEF Named, ProcAlive, Owning, Active
  <2> QED BY <1>1, <2>1, <2>2, <2>3
<1>4. ASSUME NEW q \in Proc PROVE Scan(q)'
  <2>1. Scan(q)
    BY DEF NameInv, ScanInv, Scan
  <2>2. CASE pc'[q] = pc[q] /\ mem'[q] = mem[q]
    BY <1>2, <2>1, <2>2, Bystander DEF NameInv
  <2>3. CASE pc'[q] = "gone" /\ mem'[q] = Fresh
    BY <2>3, Ended
  <2> QED BY <1>1, <2>2, <2>3
<1>5. ScanInv'
  BY <1>4 DEF ScanInv, Scan, Proc
<1> QED BY <1>2, <1>3, <1>5 DEF NameInv, Grows, Numbered

LEMMA NameInit == Init => NameInv
<1> SUFFICES ASSUME Init PROVE NameInv
  OBVIOUS
<1>1. IInv
  BY TrackingInit
<1>2. ASSUME NEW c \in Csg PROVE Ordered(c) /\ Named(c)
  <2>0. born \in Nat
    <3>1. born = Leftover
      BY DEF Init
    <3> QED BY <3>1
  <2>1. /\ pc[c] = "idle" /\ mem[c].own = NoRun /\ mem[c].cmd = "none"
        /\ mem[c].claimed = {}
    BY DEF Init, Proc, Fresh
  <2>2. \A r \in files : rec[r].wrapper = NoProc /\ rec[r].claim = NoProc
    <3>1. files = 1..Leftover /\ 1..Leftover \subseteq Run
      <4>1. files = 1..Leftover
        BY DEF Init
      <4> QED BY <4>1 DEF Run
    <3>2. PICK of \in [1..Leftover -> Session] :
            rec = [r \in Run |-> IF r \in 1..Leftover
                                 THEN [Blank EXCEPT !.codex = "root", !.session = of[r]]
                                 ELSE Blank]
      BY DEF Init
    <3> QED BY <3>1, <3>2 DEF Blank
  <2> QED BY <2>0, <2>1, <2>2 DEF Ordered, Named, ProcAlive, Owning, Active, NoRun
<1> QED BY <1>1, <1>2 DEF NameInv, IInv

LEMMA NameNext == TypeOK /\ TypeOK' /\ NameInv /\ [Next]_vars => NameInv'
<1> SUFFICES ASSUME TypeOK, TypeOK', NameInv, [Next]_vars PROVE NameInv'
  OBVIOUS
<1>1. CASE UNCHANGED vars
  BY <1>1 DEF vars, store, NameInv, Numbered, ScanInv, Viewed, Phased, Candidates, DeadHeld,
              Ordered, Named, ProcAlive
<1>2. CASE Next
  <2>1. Mortal
    BY <1>2, Mortality
  <2>2. ASSUME NEW p \in Proc, StepOf(p) PROVE NameInv'
    <3>1. Grows
      BY <2>2, StepEffect, StoreGrows DEF NameInv
    <3> QED BY <2>1, <2>2, <3>1, NameStep
  <2> QED BY <1>2, <2>1, <2>2, Steps, NameEnds
<1> QED BY <1>1, <1>2

-----------------------------------------------------------------------------
(* Every step is a step of RunRegistry.                                    *)

\* The run of a record has a client that supervises it,
Runs(r) == \E c \in Csg : registrySupervises[c] = r

LEMMA Ranges == ASSUME TypeOK
                PROVE /\ files \subseteq Run /\ born \in Nat
                      /\ \A r \in Run : /\ rec[r].wrapper \in Csg \cup {NoProc}
                                        /\ rec[r].claim \in Csg \cup {NoProc}
  BY DEF TypeOK, RunRecord

\* one, and it is alive, for the record names it.
LEMMA NamesOwner ==
  ASSUME NameInv, NEW c \in Csg, NEW r \in files, registrySupervises[c] = r
  PROVE  rec[r].wrapper = c /\ ProcAlive(c)
<1>1. pc[c] # "release" /\ mem[c].own = r /\ r # NoRun
  BY DEF registrySupervises, NameInv, Numbered, NoRun
<1>2. pc[c] \in Owning
  BY <1>1 DEF NameInv, Ordered
<1>3. pc[c] # "gone" /\ c # NoProc
  BY <1>2 DEF Owning, Active, Proc
<1> QED BY <1>1, <1>2, <1>3 DEF NameInv, Named, ProcAlive

LEMMA Orphan == ASSUME NameInv, NEW r \in files, ~ProcAlive(rec[r].wrapper) PROVE ~Runs(r)
  BY NamesOwner DEF Runs

\* What a record that is left alone looks like.
LEMMA Unseen == ASSUME TypeOK, NEW r \in Run, r > born' <=> r > born,
                       r \in files' <=> r \in files,
                       r \in files => /\ rec'[r].claim = rec[r].claim
                                      /\ ProcAlive(rec[r].claim)' <=> ProcAlive(rec[r].claim)
                                      /\ Runs(r)' <=> Runs(r)
                PROVE  /\ (registryStatus')[r] = registryStatus[r]
                       /\ (registryHolder')[r] = registryHolder[r]
  BY DEF registryStatus, registryHolder, Runs, ProcAlive

\* Nobody ends, so the claims are as good as they were.
LEMMA ClaimsAlive == ASSUME TypeOK, SameAlive, NEW r \in files, rec'[r].claim = rec[r].claim
                     PROVE  ProcAlive(rec[r].claim)' <=> ProcAlive(rec[r].claim)
<1>1. rec[r].claim \in Csg \cup {NoProc}
  BY Ranges
<1> QED BY <1>1 DEF SameAlive, ProcAlive

\* Only what one record looks like changes.
LEMMA Values == ASSUME NEW r \in Run, NEW status, NEW holder,
                       (registryStatus')[r] = status, (registryHolder')[r] = holder,
                       \A q \in Run \ {r} : /\ (registryStatus')[q] = registryStatus[q]
                                            /\ (registryHolder')[q] = registryHolder[q]
                PROVE  /\ registryStatus' = [registryStatus EXCEPT ![r] = status]
                       /\ registryHolder' = [registryHolder EXCEPT ![r] = holder]
                       /\ status = registryStatus[r] => registryStatus' = registryStatus
                       /\ holder = registryHolder[r] => registryHolder' = registryHolder
<1>1. /\ registryStatus' = [q \in Run |-> (registryStatus')[q]]
      /\ registryStatus = [q \in Run |-> registryStatus[q]]
  BY DEF registryStatus
<1>2. /\ registryHolder' = [q \in Run |-> (registryHolder')[q]]
      /\ registryHolder = [q \in Run |-> registryHolder[q]]
  BY DEF registryHolder
<1> QED BY <1>1, <1>2

\* Processes end and the records stay.
LEMMA StillLapses == ASSUME TypeOK, NameInv, Still, NEW C \in SUBSET Csg, Lapsed(C)
                     PROVE  Registry!Lapse(C)
<1> /\ files' = files /\ born' = born /\ files \subseteq Run /\ Numbered /\ born \in Nat
    /\ \A r \in files : rec'[r].claim = rec[r].claim
  BY Ranges DEF Still, Same, NameInv
<1>1. registrySupervises' = [c \in Csg |-> IF c \in C THEN NoRun ELSE registrySupervises[c]]
  <2>1. \A c \in Csg : (registrySupervises')[c] = IF c \in C THEN NoRun ELSE registrySupervises[c]
    BY DEF Lapsed
  <2>2. registrySupervises' = [c \in Csg |-> (registrySupervises')[c]]
    BY DEF registrySupervises
  <2> QED BY <2>1, <2>2
<1>2. registryClaims' = [c \in Csg |-> IF c \in C THEN {} ELSE registryClaims[c]]
  <2>1. \A c \in Csg : (registryClaims')[c] = IF c \in C THEN {} ELSE registryClaims[c]
    BY DEF Lapsed
  <2>2. registryClaims' = [c \in Csg |-> (registryClaims')[c]]
    BY DEF registryClaims
  <2> QED BY <2>1, <2>2
<1>3. ASSUME NEW r \in Run PROVE (registryStatus')[r] = Registry!Orphaned(C)[r]
  <2>1. CASE r \notin files
    BY <2>1 DEF Registry!Orphaned, registryStatus
  <2>2. CASE r \in files
    <3>0. ~(r > born)
      BY <2>2 DEF Numbered
    <3>1. /\ registryStatus[r] = IF Runs(r) THEN "running" ELSE "crashed"
          /\ (registryStatus')[r] = IF Runs(r)' THEN "running" ELSE "crashed"
      BY <2>2, <3>0 DEF registryStatus, Runs
    <3>2. CASE \E c \in C : registrySupervises[c] = r
      <4>1. PICK c \in C : registrySupervises[c] = r
        BY <3>2
      <4>2. Runs(r)
        BY <4>1 DEF Runs
      <4>3. ASSUME NEW d \in Csg, (registrySupervises')[d] = r PROVE FALSE
        <5>1. d \notin C
          BY <4>3 DEF Lapsed, Run, NoRun
        <5>2. registrySupervises[d] = r
          BY <4>3, <5>1 DEF Lapsed
        <5> QED BY <2>2, <4>1, <5>1, <5>2, NamesOwner
      <4>4. ~Runs(r)'
        BY <4>3 DEF Runs
      <4> QED BY <3>1, <3>2, <4>2, <4>4 DEF Registry!Orphaned
    <3>3. CASE ~\E c \in C : registrySupervises[c] = r
      <4>1. ASSUME NEW d \in Csg PROVE (registrySupervises')[d] = r <=> registrySupervises[d] = r
        BY <3>3 DEF Lapsed, Run, NoRun
      <4>2. Runs(r)' <=> Runs(r)
        BY <4>1 DEF Runs
      <4> QED BY <3>1, <3>3, <4>2 DEF Registry!Orphaned
    <3> QED BY <3>2, <3>3
  <2> QED BY <2>1, <2>2
<1>4. registryStatus' = Registry!Orphaned(C)
  BY <1>3 DEF registryStatus, Registry!Orphaned
<1>5. ASSUME NEW r \in Run
      PROVE (registryHolder')[r] = IF registryHolder[r] \in C THEN NoProc ELSE registryHolder[r]
  <2>1. CASE r \notin files
    BY <2>1, ProcAssumption DEF registryHolder
  <2>2. CASE r \in files
    <3>1. rec[r].claim \in Csg \cup {NoProc} /\ NoProc \notin C
      BY <2>2, Ranges
    <3>2. ProcAlive(rec[r].claim)' <=> (ProcAlive(rec[r].claim) /\ rec[r].claim \notin C)
      BY <2>2, <3>1 DEF Lapsed, ProcAlive
    <3> QED BY <2>2, <3>1, <3>2 DEF registryHolder
  <2> QED BY <2>1, <2>2
<1>6. registryHolder' = [r \in Run |-> IF registryHolder[r] \in C THEN NoProc ELSE registryHolder[r]]
  BY <1>5 DEF registryHolder
<1> QED BY <1>1, <1>2, <1>4, <1>6 DEF Registry!Lapse

\* The record of a run stays when its supervisor goes on to something else.
LEMMA StillLeaves == ASSUME TypeOK, NameInv, Still, NEW p \in Csg, Left(p)
                     PROVE  Registry!Leave(p)
<1> /\ files' = files /\ born' = born /\ files \subseteq Run /\ Numbered /\ born \in Nat
    /\ \A r \in files : rec'[r].claim = rec[r].claim
    /\ SameAlive /\ UNCHANGED registryClaims
    /\ registrySupervises' = [registrySupervises EXCEPT ![p] = NoRun]
    /\ registrySupervises = [c \in Csg |-> registrySupervises[c]]
  BY Ranges DEF Still, Same, NameInv, Left, Supervising, registrySupervises
<1>1. ASSUME NEW r \in Run PROVE (registryStatus')[r] = Registry!Orphaned({p})[r]
  <2>1. CASE r \notin files
    BY <2>1 DEF Registry!Orphaned, registryStatus
  <2>2. CASE r \in files
    <3>0. ~(r > born) /\ r # NoRun
      BY <2>2 DEF Numbered, NoRun
    <3>1. /\ registryStatus[r] = IF Runs(r) THEN "running" ELSE "crashed"
          /\ (registryStatus')[r] = IF Runs(r)' THEN "running" ELSE "crashed"
      BY <2>2, <3>0 DEF registryStatus, Runs
    <3>2. CASE registrySupervises[p] = r
      <4>1. ASSUME NEW d \in Csg, (registrySupervises')[d] = r PROVE FALSE
        <5>1. d # p /\ registrySupervises[d] = r
          BY <3>0, <4>1
        <5> QED BY <2>2, <3>2, <5>1, NamesOwner
      <4>2. Runs(r) /\ ~Runs(r)'
        BY <3>2, <4>1 DEF Runs
      <4> QED BY <3>1, <3>2, <4>2 DEF Registry!Orphaned
    <3>3. CASE registrySupervises[p] # r
      <4>1. Runs(r)' <=> Runs(r)
        BY <3>0, <3>3 DEF Runs
      <4> QED BY <3>1, <3>3, <4>1 DEF Registry!Orphaned
    <3> QED BY <3>2, <3>3
  <2> QED BY <2>1, <2>2
<1>2. registryStatus' = Registry!Orphaned({p})
  BY <1>1 DEF registryStatus, Registry!Orphaned
<1>3. ASSUME NEW r \in Run PROVE (registryHolder')[r] = registryHolder[r]
  BY ClaimsAlive DEF registryHolder
<1>4. registryHolder' = registryHolder
  BY <1>3 DEF registryHolder
<1> QED BY <1>2, <1>4 DEF Registry!Leave

\* Nothing happens to the records when a claim is dropped.
LEMMA StillDrops == ASSUME TypeOK, NameInv, Still, NEW p \in Csg, Dropped(p)
                    PROVE  \E r \in Run : Registry!Release(p, r)
<1> /\ files' = files /\ born' = born
    /\ \A r \in files : rec'[r].claim = rec[r].claim
    /\ SameAlive /\ registrySupervises' = registrySupervises
  BY DEF Still, Same, Dropped
<1>1. ASSUME NEW r \in Run
      PROVE (registryStatus')[r] = registryStatus[r] /\ (registryHolder')[r] = registryHolder[r]
  BY Unseen, ClaimsAlive DEF Runs
<1>2. registryStatus' = registryStatus /\ registryHolder' = registryHolder
  <2>1. registryStatus' = registryStatus
    BY <1>1 DEF registryStatus
  <2>2. registryHolder' = registryHolder
    BY <1>1 DEF registryHolder
  <2> QED BY <2>1, <2>2
<1>3. PICK r \in Run : registryClaims' = [registryClaims EXCEPT ![p] = registryClaims[p] \ {r}]
  BY DEF Dropped, Claiming
<1> QED BY <1>2, <1>3 DEF Registry!Release

LEMMA CreatedTracks == ASSUME TypeOK, NameInv, NEW p \in Csg, Created(p)
                       PROVE  \E r \in Run : Registry!Track(p, r)
<1> /\ born' = born + 1 /\ born \in Nat /\ files \subseteq 1..born /\ SameAlive
    /\ files' = files \cup {born'} /\ \A r \in files : rec'[r] = rec[r]
    /\ registrySupervises[p] = NoRun /\ UNCHANGED registryClaims
    /\ registrySupervises' = [registrySupervises EXCEPT ![p] = born']
    /\ registrySupervises = [c \in Csg |-> registrySupervises[c]]
  BY Ranges DEF Created, NameInv, Numbered, Supervising, registrySupervises
<1>1. born' \in Run /\ born' \notin files
  BY DEF Created, Run
<1>2. registryStatus[born'] = "absent"
  BY <1>1 DEF registryStatus
<1>3. ASSUME NEW r \in Run \ {born'}
      PROVE (registryStatus')[r] = registryStatus[r] /\ (registryHolder')[r] = registryHolder[r]
  <2>1. r > born' <=> r > born
    BY <1>3 DEF Run
  <2>2. Runs(r)' <=> Runs(r)
    BY DEF Runs, Run, NoRun
  <2> QED BY <2>1, <2>2, Unseen, ClaimsAlive
<1>4. (registryStatus')[born'] = "running" /\ (registryHolder')[born'] = NoProc
  <2>1. rec'[born'].claim = NoProc /\ (registrySupervises')[p] = born'
    BY DEF Created
  <2> QED BY <1>1, <2>1 DEF registryStatus, registryHolder, ProcAlive
<1>5. registryHolder[born'] = NoProc
  BY <1>1 DEF registryHolder
<1>6. /\ registryStatus' = [registryStatus EXCEPT ![born'] = "running"]
      /\ registryHolder' = registryHolder
  BY <1>1, <1>3, <1>4, <1>5, Values
<1> QED BY <1>1, <1>2, <1>6 DEF Registry!Track

\* The claim on one record is written.
LEMMA MarkedHolds ==
  ASSUME TypeOK, SameAlive, UNCHANGED registrySupervises, NEW r \in files,
         NEW claim \in Csg \cup {NoProc}, Marked(r, claim), claim # NoProc => ProcAlive(claim)'
  PROVE  /\ registryStatus' = registryStatus
         /\ registryHolder' = [registryHolder EXCEPT ![r] = claim]
<1> files \subseteq Run /\ r \in Run
  BY Ranges
<1>1. ASSUME NEW q \in Run \ {r}
      PROVE (registryStatus')[q] = registryStatus[q] /\ (registryHolder')[q] = registryHolder[q]
  BY Unseen, ClaimsAlive DEF Marked, Same, Runs
<1>2. (registryStatus')[r] = registryStatus[r]
  BY DEF registryStatus, Marked, Same
<1>3. (registryHolder')[r] = claim
  <2>1. r \in files' /\ rec'[r].claim = claim
    BY DEF Marked
  <2>2. (registryHolder')[r] = IF ProcAlive(claim)' THEN claim ELSE NoProc
    BY <2>1 DEF registryHolder, ProcAlive
  <2> QED BY <2>2
<1> QED BY <1>1, <1>2, <1>3, Values

LEMMA TakenClaims == ASSUME TypeOK, NameInv, NEW p \in Csg, Taken(p)
                     PROVE  \E r \in Run : Registry!Claim(p, r)
<1>1. PICK r \in files : /\ ~ProcAlive(rec[r].wrapper) /\ ~ProcAlive(rec[r].claim)
                         /\ Marked(r, p) /\ Claiming(p, registryClaims[p] \cup {r})
  BY DEF Taken
<1>2. ProcAlive(p)' /\ r \in Run /\ ~(r > born) /\ SameAlive /\ UNCHANGED registrySupervises
  BY Ranges, ProcAssumption DEF Taken, ProcAlive, NameInv, Numbered
<1>3. registryStatus[r] = "crashed"
  BY <1>1, <1>2, Orphan DEF registryStatus, Runs
<1>4. registryHolder[r] = NoProc
  BY <1>1, <1>2 DEF registryHolder
<1>5. /\ registryStatus' = registryStatus
      /\ registryHolder' = [registryHolder EXCEPT ![r] = p]
  BY <1>1, <1>2, MarkedHolds
<1> QED BY <1>1, <1>2, <1>3, <1>4, <1>5 DEF Registry!Claim, Claiming

LEMMA ReleasedReleases == ASSUME TypeOK, NEW p \in Csg, Released(p)
                          PROVE  \E r \in Run : Registry!Release(p, r)
<1>1. PICK r \in files : /\ rec[r].claim = p /\ Marked(r, NoProc)
                         /\ Claiming(p, registryClaims[p] \ {r})
  BY DEF Released
<1>2. SameAlive /\ UNCHANGED registrySupervises /\ ProcAlive(p)
  BY ProcAssumption DEF Released, ProcAlive
<1>3. r \in Run
  BY Ranges
<1>4. registryHolder[r] = p
  BY <1>1, <1>2, <1>3 DEF registryHolder
<1>5. /\ registryStatus' = registryStatus
      /\ registryHolder' = [registryHolder EXCEPT ![r] = NoProc]
  BY <1>1, <1>2, MarkedHolds
<1> QED BY <1>1, <1>2, <1>3, <1>4, <1>5 DEF Registry!Release, Claiming

\* One record goes and the others look the same.
LEMMA GoneFrom ==
  ASSUME TypeOK, NameInv, NEW r, Gone(r),
         \A q \in files' : /\ ProcAlive(rec[q].claim)' <=> ProcAlive(rec[q].claim)
                           /\ Runs(q)' <=> Runs(q)
  PROVE  /\ registryStatus' = [registryStatus EXCEPT ![r] = "gone"]
         /\ registryHolder' = [registryHolder EXCEPT ![r] = NoProc]
<1> r \in Run /\ r \in 1..born /\ files \subseteq Run /\ born \in Nat
  BY Ranges DEF Gone, NameInv, Numbered
<1>1. /\ r \in files /\ files' = files \ {r} /\ born' = born
      /\ \A q \in files' : rec'[q].claim = rec[q].claim
  BY DEF Gone, Same
<1>2. ASSUME NEW q \in Run \ {r}
      PROVE (registryStatus')[q] = registryStatus[q] /\ (registryHolder')[q] = registryHolder[q]
  BY <1>1, Unseen
<1>3. (registryStatus')[r] = "gone" /\ (registryHolder')[r] = NoProc
  <2>1. r \notin files' /\ ~(r > born')
    BY <1>1
  <2> QED BY <2>1 DEF registryStatus, registryHolder
<1> QED BY <1>2, <1>3, Values

\* The record of a client that is gone goes, and everybody stays.
LEMMA OrphanGone ==
  ASSUME TypeOK, NameInv, SameAlive, UNCHANGED registrySupervises,
         NEW r \in files, ~ProcAlive(rec[r].wrapper), Gone(r)
  PROVE  /\ r \in Run /\ registryStatus[r] = "crashed"
         /\ registryStatus' = [registryStatus EXCEPT ![r] = "gone"]
         /\ registryHolder' = [registryHolder EXCEPT ![r] = NoProc]
<1>1. r \in Run /\ ~(r > born) /\ ~Runs(r)
  BY Ranges, Orphan DEF NameInv, Numbered
<1>2. \A q \in files' : q \in files /\ rec'[q].claim = rec[q].claim
  BY DEF Gone, Same
<1>3. \A q \in files' : /\ ProcAlive(rec[q].claim)' <=> ProcAlive(rec[q].claim)
                        /\ Runs(q)' <=> Runs(q)
  BY <1>2, ClaimsAlive DEF Runs
<1> QED BY <1>1, <1>3, GoneFrom DEF registryStatus, Runs

LEMMA CleanedCleans == ASSUME TypeOK, NameInv, Cleaned PROVE \E r \in Run : Registry!Clean(r)
<1>1. PICK r \in files : ~ProcAlive(rec[r].wrapper) /\ Gone(r)
  BY DEF Cleaned
<1> QED BY <1>1, OrphanGone DEF Cleaned, Registry!Clean

LEMMA DeletedDeletes == ASSUME TypeOK, NameInv, NEW p \in Csg, Deleted(p)
                        PROVE  \E r \in Run : Registry!Delete(p, r)
<1>1. PICK r \in files : /\ ~ProcAlive(rec[r].wrapper) /\ Gone(r)
                         /\ r \in registryClaims[p] /\ rec[r].claim = p
                         /\ registryClaims' = [registryClaims EXCEPT ![p] = registryClaims[p] \ {r}]
  BY DEF Deleted, Claiming
<1>2. SameAlive /\ UNCHANGED registrySupervises /\ ProcAlive(p)
  BY ProcAssumption DEF Deleted, ProcAlive
<1>3. registryHolder[r] = p /\ r \in Run
  BY <1>1, <1>2, Ranges DEF registryHolder
<1> QED BY <1>1, <1>2, <1>3, OrphanGone DEF Registry!Delete

\* A supervisor settles its own run: it is alive, and no other record names
\* it, nor does a claim if it ends with its run.
LEMMA SettledSettles == ASSUME TypeOK, NameInv, NEW p \in Csg, Settled(p)
                        PROVE  \E r \in Run : Registry!Settle(p, r)
<1> DEFINE r == mem[p].own
<1>1. /\ r \in files /\ Gone(r) /\ pc[p] \in Owning /\ ProcAlive(p)
      /\ registrySupervises' = [registrySupervises EXCEPT ![p] = NoRun]
      /\ registrySupervises = [c \in Csg |-> registrySupervises[c]]
      /\ UNCHANGED registryClaims
  BY ProcAssumption DEF Settled, Gone, Owning, Active, ProcAlive, Supervising, registrySupervises
<1>2. r \in Run /\ ~(r > born) /\ r # NoRun
  BY <1>1, Ranges DEF NameInv, Numbered, NoRun
<1>3. registrySupervises[p] = r
  BY <1>1 DEF registrySupervises, Owning, Active
<1>4. registryStatus[r] = "running"
  BY <1>1, <1>2, <1>3 DEF registryStatus
<1>5. ASSUME NEW q \in files'
      PROVE  /\ ProcAlive(rec[q].claim)' <=> ProcAlive(rec[q].claim)
             /\ Runs(q)' <=> Runs(q)
  <2>1. q \in files /\ q # r /\ q # NoRun /\ rec'[q].claim = rec[q].claim
    BY <1>1 DEF Gone, Same, NameInv, Numbered, NoRun
  <2>2. Runs(q)' <=> Runs(q)
    BY <1>1, <1>3, <2>1 DEF Runs
  <2>3. pc'[p] # "gone" \/ rec[q].claim # p
    BY <1>1, <2>1 DEF NameInv, Named, Settled
  <2>4. rec[q].claim \in Csg \cup {NoProc}
    BY <2>1, Ranges
  <2>5. \A c \in Csg \ {p} : ProcAlive(c)' <=> ProcAlive(c)
    BY DEF Settled
  <2>6. ProcAlive(rec[q].claim)' <=> ProcAlive(rec[q].claim)
    BY <1>1, <2>1, <2>3, <2>4, <2>5 DEF ProcAlive
  <2> QED BY <2>2, <2>6
<1>6. /\ registryStatus' = [registryStatus EXCEPT ![r] = "gone"]
      /\ registryHolder' = [registryHolder EXCEPT ![r] = NoProc]
  BY <1>1, <1>5, GoneFrom
<1> QED BY <1>1, <1>2, <1>3, <1>4, <1>6 DEF Registry!Settle

LEMMA RegistryStep == ASSUME TypeOK, TypeOK', NameInv, [Next]_vars
                      PROVE  [Registry!Next]_(Registry!vars)
<1>1. CASE UNCHANGED vars
  BY <1>1 DEF vars, store, Registry!vars, registryStatus, registryHolder, registrySupervises,
              registryClaims, ProcAlive
<1>2. ASSUME Still, NEW C \in SUBSET Csg, Lapsed(C) PROVE Registry!Next
  BY <1>2, StillLapses DEF Registry!Next
<1>3. ASSUME NEW p \in Proc, StepOf(p) PROVE Registry!Next
  <2>1. Move(p)
    BY <1>3, MoveStep
  <2>2. CASE Still /\ \E C \in SUBSET Csg : Lapsed(C)
    BY <1>2, <2>2
  <2>3. CASE Still /\ Left(p)
    BY <2>3, StillLeaves DEF Left, Registry!Next
  <2>4. CASE Still /\ Dropped(p)
    BY <2>4, StillDrops DEF Dropped, Registry!Next
  <2>5. CASE Created(p)
    BY <2>5, CreatedTracks DEF Created, Registry!Next
  <2>6. CASE Taken(p)
    BY <2>6, TakenClaims DEF Taken, Registry!Next
  <2>7. CASE Released(p)
    BY <2>7, ReleasedReleases DEF Released, Registry!Next
  <2>8. CASE Cleaned
    BY <2>8, CleanedCleans DEF Registry!Next
  <2>9. CASE Deleted(p)
    BY <2>9, DeletedDeletes DEF Deleted, Registry!Next
  <2>10. CASE Settled(p)
    BY <2>10, SettledSettles DEF Settled, Registry!Next
  <2> QED BY <2>1, <2>2, <2>3, <2>4, <2>5, <2>6, <2>7, <2>8, <2>9, <2>10 DEF Move
<1>4. CASE Ends
  <2> DEFINE C == {c \in Csg : pc'[c] = "gone" /\ mem'[c] = Fresh}
  <2>1. Still
    BY <1>4, EndsEffect, StillStore
  <2>2. ASSUME NEW c \in C
        PROVE  ~ProcAlive(c)' /\ (registrySupervises')[c] = NoRun /\ (registryClaims')[c] = {}
    BY <2>2 DEF ProcAlive, registrySupervises, registryClaims, Fresh
  <2>3. ASSUME NEW c \in Csg, c \notin C
        PROVE  /\ ProcAlive(c)' <=> ProcAlive(c)
               /\ (registrySupervises')[c] = registrySupervises[c]
               /\ (registryClaims')[c] = registryClaims[c]
    <3>1. pc'[c] = pc[c] /\ mem'[c] = mem[c]
      BY <1>4, <2>3, EndsEffect DEF Proc
    <3> QED BY <3>1 DEF ProcAlive, registrySupervises, registryClaims
  <2>4. C \in SUBSET Csg
    OBVIOUS
  <2> HIDE DEF C
  <2>5. Lapsed(C)
    BY <2>2, <2>3 DEF Lapsed
  <2> QED BY <1>2, <2>1, <2>4, <2>5
<1> QED BY <1>1, <1>3, <1>4, Steps

LEMMA RegistryInit == Init => Registry!Init
<1> SUFFICES ASSUME Init PROVE Registry!Init
  OBVIOUS
<1>1. /\ born = Leftover /\ files = 1..Leftover
      /\ \A r \in Run : rec[r].wrapper = NoProc /\ rec[r].claim = NoProc
  <2>1. PICK of \in [1..Leftover -> Session] :
          rec = [r \in Run |-> IF r \in 1..Leftover
                               THEN [Blank EXCEPT !.codex = "root", !.session = of[r]]
                               ELSE Blank]
    BY DEF Init
  <2>2. born = Leftover /\ files = 1..Leftover
    BY DEF Init
  <2> QED BY <2>1, <2>2 DEF Blank
<1>2. /\ registrySupervises = [c \in Csg |-> NoRun]
      /\ registryClaims = [c \in Csg |-> {}]
  BY DEF Init, Fresh, Proc, registrySupervises, registryClaims
<1>4. \A r \in Run : registryStatus[r] \in {"absent", "crashed"}
  BY <1>1, <1>2 DEF registryStatus, Run, NoRun
<1>3. registryHolder = [r \in Run |-> NoProc]
  BY <1>1 DEF registryHolder, ProcAlive
<1> QED BY <1>2, <1>3, <1>4 DEF Registry!Init, registryStatus

\* The records keep the promise of RunRegistry: every run is tracked from
\* before its target starts, only its own supervisor takes the record away
\* while it supervises the run, one process at a time holds the recovery of
\* a crashed one, a delete removes only what it holds, and none comes back.
THEOREM RegistryKept == Spec => ImplementsRegistry
<1>1. Spec => [](TypeOK /\ NameInv)
  BY NameInit, NameNext, Typing, PTL DEF Spec
<1>2. TypeOK /\ TypeOK' /\ NameInv /\ [Next]_vars => [Registry!Next]_(Registry!vars)
  BY RegistryStep
<1> QED BY <1>1, <1>2, RegistryInit, PTL DEF Spec, ImplementsRegistry, Registry!Spec

-----------------------------------------------------------------------------
(* The newest record of a session.                                         *)

\* There are no candidates before all records have been read.
Unlisted(c) == pc[c] \in {"idle", "readdir", "scan"} => mem[c].crashed = {}

NewestInv == NewestOnly /\ \A c \in Csg : Unlisted(c)

\* NewestOnly, of one process.
Latest(c) == \A r \in mem[c].crashed : \A q \in mem[c].saw :
               mem[c].view[q].session = mem[c].view[r].session => q <= r

\* What is read, visited and offered in a step.
LEMMA LatestStep == ASSUME TypeOK, NEW p \in Csg, StepOf(p), Latest(p), Unlisted(p)
                    PROVE  Latest(p)' /\ Unlisted(p)'
<1> /\ pc \in [Proc -> Label] /\ mem \in [Proc -> Locals] /\ mem[p] \in Locals
    /\ p \in Proc /\ p \notin Hook
  BY DEF TypeOK, Proc
<1> DEFINE good == Latest(p)' /\ Unlisted(p)'
           same == /\ mem'[p].saw = mem[p].saw /\ mem'[p].view = mem[p].view
                   /\ mem'[p].crashed = mem[p].crashed
           late == pc'[p] \in {"idle", "readdir", "scan"} => pc[p] \in {"idle", "readdir", "scan"}
<1>1. ASSUME Finish(p) PROVE good
  <2>1. mem'[p].crashed = {}
    BY <1>1 DEF Finish, Fresh
  <2> QED BY <2>1 DEF Latest, Unlisted
<1>2. ASSUME same, late PROVE good
  BY <1>2 DEF Latest, Unlisted
<1>3. ASSUME NEW S, mem' = [mem EXCEPT ![p].todo = S], late PROVE good
  BY <1>2, <1>3 DEF Locals
<1>4. ASSUME NEW S, NEW T, mem' = [mem EXCEPT ![p].todo = S, ![p].claimed = T], late PROVE good
  BY <1>2, <1>4 DEF Locals
<1>5. ASSUME Return(p) PROVE good
  <2>1. CASE mem[p].cmd = "resume"
    BY <1>3, <1>5, <2>1 DEF Return, Go
  <2> QED BY <1>1, <1>5, <2>1 DEF Return
<1>6. CASE saveNewRun(p)
  <2>1. CASE ~Return(p)
    <3>1. Go(p, "start") /\ mem' = [mem EXCEPT ![p].own = born']
      BY <1>6, <2>1 DEF saveNewRun
    <3>2. same /\ late
      BY <3>1 DEF Go, Locals
    <3> QED BY <1>2, <3>2
  <2> QED BY <1>5, <2>1
<1>7. CASE startTarget(p) \/ assignProcessToJob(p) \/ onStart(p) \/ resumeSuspendedProcess(p)
           \/ superviseProcess(p)
  <2>1. same
    BY <1>7 DEF startTarget, assignProcessToJob, onStart, resumeSuspendedProcess,
                superviseProcess, Keep
  <2>2. late
    BY <1>7 DEF startTarget, assignProcessToJob, onStart, resumeSuspendedProcess,
                superviseProcess, Go
  <2> QED BY <1>2, <2>1, <2>2
<1>8. CASE waitForSessionBinding(p) \/ removeOwnRun(p)
  <2>1. CASE ~Return(p)
    BY <1>2, <1>8, <2>1 DEF waitForSessionBinding, removeOwnRun, Go, Keep
  <2> QED BY <1>5, <2>1
<1>9. CASE readDir(p)
  BY <1>1, <1>3, <1>9 DEF readDir
\* what is read later cannot be newer than a candidate: there are none yet
<1>10. CASE readFile(p)
  <2>1. mem'[p].crashed = mem[p].crashed
    BY <1>10 DEF readFile, Locals
  <2>2. mem[p].crashed = {}
    BY <1>10 DEF readFile, Unlisted
  <2> QED BY <2>1, <2>2 DEF Latest, Unlisted
<1>11. CASE beginClassify(p)
  BY <1>3, <1>11 DEF beginClassify, Go
\* the newest of those left is older than all that were seen
<1>12. CASE classifyRecord(p)
  <2>1. CASE ~Finish(p)
    <3>1. PICK r \in Newest(mem[p].todo) :
            /\ UNCHANGED pc
            /\ \/ mem' = [mem EXCEPT ![p].todo = @ \ {r}]
               \/ mem' = [mem EXCEPT ![p].todo = @ \ {r}, ![p].crashed = @]
               \/ /\ ~Seen(p, r)
                  /\ mem' = [mem EXCEPT ![p].todo = @ \ {r}, ![p].crashed = @ \cup {r}]
      BY <1>12, <2>1 DEF classifyRecord
    <3>2. pc[p] = "classify"
      BY <1>12 DEF classifyRecord
    <3>3. CASE mem' = [mem EXCEPT ![p].todo = @ \ {r}]
      BY <1>3, <3>1, <3>3
    <3>4. CASE mem' = [mem EXCEPT ![p].todo = @ \ {r}, ![p].crashed = @]
      <4>1. same
        BY <3>4 DEF Locals
      <4> QED BY <1>2, <3>1, <4>1
    <3>5. CASE ~Seen(p, r) /\ mem' = [mem EXCEPT ![p].todo = @ \ {r}, ![p].crashed = @ \cup {r}]
      <4>1. /\ mem'[p].saw = mem[p].saw /\ mem'[p].view = mem[p].view
            /\ mem'[p].crashed = mem[p].crashed \cup {r}
        BY <3>5 DEF Locals
      <4>2. ASSUME NEW q \in mem[p].saw, mem[p].view[q].session = mem[p].view[r].session
            PROVE  q <= r
        BY <3>5, <4>2 DEF Seen, Newest
      <4> QED BY <3>1, <3>2, <4>1, <4>2 DEF Latest, Unlisted
    <3> QED BY <3>1, <3>3, <3>4, <3>5
  <2> QED BY <1>1, <2>1
<1>13. CASE endClassify(p)
  BY <1>1, <1>3, <1>13 DEF endClassify, Go
<1>14. CASE claimRun(p)
  <2>1. CASE ~Finish(p)
    <3>1. PICK r : Go(p, "save") /\ mem' = [mem EXCEPT ![p].claimed = {r}]
      BY <1>14, <2>1 DEF claimRun
    <3>2. same /\ late
      BY <3>1 DEF Go, Locals
    <3> QED BY <1>2, <3>2
  <2> QED BY <1>1, <2>1
<1>15. CASE releaseRunClaim(p)
  BY <1>1, <1>4, <1>15 DEF releaseRunClaim
<1>16. CASE checkMatches(p)
  BY <1>1, <1>3, <1>16 DEF checkMatches, Go
<1>17. ASSUME ReleaseClaims(p) PROVE good
  BY <1>3, <1>17 DEF ReleaseClaims, Go
<1>18. CASE claimRunForDelete(p)
  BY <1>3, <1>4, <1>17, <1>18 DEF claimRunForDelete, Go
<1>19. CASE removeClaimedRun(p)
  BY <1>1, <1>4, <1>17, <1>19 DEF removeClaimedRun
<1>20. CASE \E cmd \in Commands, sid \in Session \cup {NoSession} : Invoke(p, cmd, sid)
  <2>1. PICK cmd, sid : pc[p] = "idle" /\ mem' = [mem EXCEPT ![p].cmd = cmd, ![p].sid = sid]
    BY <1>20 DEF Invoke
  <2>2. same
    BY <2>1 DEF Locals
  <2> QED BY <1>2, <2>1, <2>2
<1>21. CASE CsgStep(p)
  BY <1>6, <1>7, <1>8, <1>9, <1>10, <1>11, <1>12, <1>13, <1>14, <1>15, <1>16, <1>18, <1>19,
     <1>21 DEF CsgStep, Supervise
<1> QED BY <1>20, <1>21 DEF StepOf

LEMMA NewestNext == TypeOK /\ NewestInv /\ [Next]_vars => NewestInv'
<1> SUFFICES ASSUME TypeOK, NewestInv, [Next]_vars, NEW c \in Csg PROVE Latest(c)' /\ Unlisted(c)'
  BY DEF NewestInv, NewestOnly, Latest
<1>1. Latest(c) /\ Unlisted(c) /\ c \in Proc
  BY DEF NewestInv, NewestOnly, Latest, Proc
<1>2. ASSUME pc'[c] = pc[c], mem'[c] = mem[c] PROVE Latest(c)' /\ Unlisted(c)'
  BY <1>1, <1>2 DEF Latest, Unlisted
<1>3. CASE UNCHANGED vars
  BY <1>2, <1>3 DEF vars
<1>4. ASSUME NEW p \in Proc, StepOf(p) PROVE Latest(c)' /\ Unlisted(c)'
  BY <1>1, <1>2, <1>4, Alone, LatestStep
<1>5. CASE Ends
  <2>1. CASE pc'[c] = "gone" /\ mem'[c] = Fresh
    BY <2>1 DEF Latest, Unlisted, Fresh
  <2> QED BY <1>1, <1>2, <1>5, <2>1, EndsEffect
<1> QED BY <1>3, <1>4, <1>5, Steps

\* A session is never offered from an old record when a newer one was read,
\* in whatever order the files were read and whoever wrote them meanwhile.
THEOREM NewestOffered == Spec => []NewestOnly
<1>1. Init => NewestInv
  <2> SUFFICES ASSUME Init PROVE NewestInv
    OBVIOUS
  <2>1. \A c \in Csg : mem[c].crashed = {}
    BY DEF Init, Fresh, Proc
  <2> QED BY <2>1 DEF NewestInv, NewestOnly, Unlisted
<1>2. NewestInv => NewestOnly
  BY DEF NewestInv
<1> QED BY <1>1, <1>2, NewestNext, Typing, PTL DEF Spec

-----------------------------------------------------------------------------
(* What a hook and a supervisor rely on while they remove records.         *)

\* A hook runs inside the tree of its run, whose record it has bound to its
\* session by the time it looks for older ones.
Hooked(h) ==
  /\ pc[h] \in {"idle", "gone"} => mem[h].own = NoRun
  /\ Live(h) => mem[h].own \in Run /\ tree[mem[h].own] \in {"root", "group"}
  /\ pc[h] \in {"readdir", "scan", "sweep"} => rec[mem[h].own].session = mem[h].sid
  /\ pc[h] = "sweep" => mem[h].todo \subseteq Matches(h) \ {mem[h].own}

\* Codex runs one at a time there.
OneHook == \A g, h \in Hook : mem[g].own = mem[h].own /\ mem[g].own # NoRun => g = h

\* A supervisor discards a record that is not bound, and a target it has yet
\* to resume has no hook.
Supervised(c) ==
  /\ pc[c] = "discard" /\ mem[c].own \in files => rec[mem[c].own].session = NoSession
  /\ pc[c] = "resume" \/ (pc[c] = "onstart" /\ KillOnClose)
       => tree[mem[c].own] \in {"suspended", "dead"}

HookInv == /\ OneHook
           /\ \A h \in Hook : Hooked(h)
           /\ \A c \in Csg : Supervised(c)

\* Only a hook changes the session of a record, that of its own run.
Binds(p) == \A r \in files \cap files' : \/ rec'[r].session = rec[r].session
                                         \/ p \in Hook /\ pc[p] = "bind" /\ r = mem[p].own

LEMMA BindsOne == ASSUME TypeOK, NEW p, NEW r \in Run, NEW record, mutateRun(r, record),
                         record.session = rec[r].session
                  PROVE  Binds(p)
<1> rec \in [Run -> RunRecord]
  BY DEF TypeOK
<1>1. rec'[r] = record /\ \A q \in files \ {r} : rec'[q] = rec[q]
  BY DEF mutateRun, TypeOK
<1> QED BY <1>1 DEF Binds

LEMMA BindsStep == ASSUME TypeOK, Numbered, NEW p \in Proc, StepOf(p) PROVE Binds(p)
<1> /\ rec \in [Run -> RunRecord] /\ mem[p] \in Locals /\ files \subseteq Run /\ born \in Nat
  BY DEF TypeOK
<1>1. ASSUME UNCHANGED store PROVE Binds(p)
  BY <1>1 DEF store, Binds
<1>2. ASSUME NEW r, NEW ok, removeRun(r, ok) PROVE Binds(p)
  <2>1. \A q \in files \cap files' : rec'[q] = rec[q]
    BY <1>2 DEF removeRun
  <2> QED BY <2>1 DEF Binds
<1>3. ASSUME NEW r \in files, NEW claim, mutateRun(r, [rec[r] EXCEPT !.claim = claim])
      PROVE  Binds(p)
  <2>1. rec[r] \in RunRecord /\ [rec[r] EXCEPT !.claim = claim].session = rec[r].session
    BY DEF RunRecord
  <2> QED BY <1>3, <2>1, BindsOne
<1>4. CASE p \in Csg /\ saveNewRun(p)
  <2>1. CASE ~UNCHANGED store
    <3>1. /\ born' = born + 1 /\ files' = files \cup {born'}
          /\ rec' = [rec EXCEPT ![born'] = [Blank EXCEPT !.wrapper = p, !.session = mem[p].sid]]
      BY <1>4, <2>1 DEF saveNewRun
    <3>2. born' \notin files
      BY <3>1 DEF Numbered
    <3>3. \A r \in files : rec'[r] = rec[r]
      BY <3>1, <3>2
    <3> QED BY <3>3 DEF Binds
  <2> QED BY <1>1, <2>1
<1>5. CASE p \in Csg /\ onStart(p)
  <2>1. PICK ok \in Attempt :
          mutateRun(mem[p].own, IF ok /\ mem[p].own \in files
                                THEN [rec[mem[p].own] EXCEPT !.codex = "root"]
                                ELSE rec[mem[p].own])
    BY <1>5 DEF onStart
  <2>2. CASE mem[p].own \in Run
    <3>1. rec[mem[p].own] \in RunRecord
      BY <2>2
    <3> QED BY <2>1, <2>2, <3>1, BindsOne DEF RunRecord
  <2>3. CASE mem[p].own \notin Run
    <3>1. UNCHANGED store
      BY <2>1, <2>3 DEF mutateRun, store
    <3> QED BY <1>1, <3>1
  <2> QED BY <2>2, <2>3
<1>6. CASE p \in Csg /\ (removeOwnRun(p) \/ removeClaimedRun(p))
  <2>1. UNCHANGED store \/ \E r, ok : removeRun(r, ok)
    BY <1>6 DEF removeOwnRun, removeClaimedRun, ReleaseClaims
  <2> QED BY <1>1, <1>2, <2>1
<1>7. CASE classifyRecord(p) \/ removeOlderDeadRecords(p)
  <2>1. UNCHANGED store \/ \E r, ok : removeRun(r, ok)
    BY <1>7 DEF classifyRecord, removeOlderDeadRecords
  <2> QED BY <1>1, <1>2, <2>1
<1>8. CASE p \in Csg /\ (claimRun(p) \/ claimRunForDelete(p))
  <2>1. UNCHANGED store \/ \E r \in files : mutateRun(r, [rec[r] EXCEPT !.claim = p])
    BY <1>8 DEF claimRun, claimRunForDelete, ReleaseClaims
  <2> QED BY <1>1, <1>3, <2>1
<1>9. CASE p \in Csg /\ releaseRunClaim(p)
  <2>1. \/ UNCHANGED store
        \/ \E r : mutateRun(r, rec[r])
        \/ \E r \in files : mutateRun(r, [rec[r] EXCEPT !.claim = NoProc])
    BY <1>9 DEF releaseRunClaim
  <2> QED BY <1>1, <1>3, <2>1, SameStore
<1>10. CASE p \in Hook /\ bindSession(p)
  <2>1. CASE ~UNCHANGED store
    <3>1. \A r \in files \ {mem[p].own} : rec'[r] = rec[r]
      BY <1>10, <2>1 DEF bindSession, mutateRun
    <3> QED BY <1>10, <3>1 DEF Binds, bindSession
  <2> QED BY <1>1, <2>1
<1>11. CASE \/ startTarget(p) \/ assignProcessToJob(p) \/ resumeSuspendedProcess(p)
            \/ superviseProcess(p) \/ waitForSessionBinding(p) \/ readDir(p) \/ readFile(p)
            \/ beginClassify(p) \/ endClassify(p) \/ checkMatches(p) \/ beginSweep(p)
  BY <1>1, <1>11 DEF startTarget, assignProcessToJob, resumeSuspendedProcess, superviseProcess,
     waitForSessionBinding, readDir, readFile, beginClassify, endClassify, checkMatches,
     beginSweep
<1>12. CASE \/ \E cmd \in Commands, sid \in Session \cup {NoSession} : Invoke(p, cmd, sid)
            \/ \E r \in Run, sid \in Session : hookMain(p, r, sid)
  BY <1>1, <1>12 DEF Invoke, hookMain
<1>13. CASE p \in Csg /\ CsgStep(p)
  BY <1>4, <1>5, <1>6, <1>7, <1>8, <1>9, <1>11, <1>13 DEF CsgStep, Supervise
<1>14. CASE p \in Hook /\ HookStep(p)
  BY <1>7, <1>10, <1>11, <1>14 DEF HookStep
<1> QED BY <1>12, <1>13, <1>14 DEF StepOf

\* A tree a hook may be in is not ended, nor another one started for it, by
\* a step of a process.
Grown == \A r \in Run : tree[r] \in {"root", "group"} => tree'[r] \in {"root", "group"}

\* Who guards a run that has a process left.
LEMMA Guarded == ASSUME IInv, NEW c \in Csg, mem[c].own \in Run, tree[mem[c].own] \in Running
                 PROVE  pc[c] \in {"onstart", "resume", "wait"}
<1>1. PICK d \in Csg : pc[d] \in {"onstart", "resume", "wait"} /\ mem[d].own = mem[c].own
  BY DEF IInv, RunInv, Owned
<1>2. mem[c].own # NoRun
  BY DEF Run, NoRun
<1>3. d = c
  BY <1>1, <1>2 DEF IInv, RunInv, Apart
<1> QED BY <1>1, <1>3

LEMMA TreeStep == ASSUME TypeOK, IInv, HookInv, NEW p \in Proc, StepOf(p)
                  PROVE  /\ Grown
                         /\ \A r \in Run : tree'[r] = tree[r] \/ (p \in Csg /\ r = mem[p].own)
<1> tree \in [Run -> TreeState]
  BY DEF TypeOK
<1> DEFINE good == /\ Grown
                   /\ \A r \in Run : tree'[r] = tree[r] \/ (p \in Csg /\ r = mem[p].own)
<1>1. ASSUME tree' = tree PROVE good
  BY <1>1 DEF Grown
<1>2. CASE p \in Csg /\ startTarget(p)
  <2>1. pc[p] = "start" /\ \A r \in Run \ {mem[p].own} : tree'[r] = tree[r]
    BY <1>2 DEF startTarget
  <2>2. mem[p].own \in Run => tree[mem[p].own] \notin Running
    BY <1>2, <2>1, Guarded
  <2> QED BY <1>2, <2>1, <2>2 DEF Grown, Running
<1>6. CASE p \in Csg /\ assignProcessToJob(p)
  <2>1. pc[p] = "assign" /\ \A r \in Run \ {mem[p].own} : tree'[r] = tree[r]
    BY <1>6 DEF assignProcessToJob
  <2>2. mem[p].own \in Run => tree[mem[p].own] \notin Running
    BY <1>6, <2>1, Guarded
  <2> QED BY <1>6, <2>1, <2>2 DEF Grown, Running
<1>3. CASE p \in Csg /\ resumeSuspendedProcess(p)
  <2>1. pc[p] = "resume" /\ \A r \in Run \ {mem[p].own} : tree'[r] = tree[r]
    BY <1>3 DEF resumeSuspendedProcess
  <2>2. tree[mem[p].own] \in {"suspended", "dead"}
    BY <1>3, <2>1 DEF HookInv, Supervised
  <2> QED BY <1>3, <2>1, <2>2 DEF Grown
<1>4. CASE /\ p \in Csg /\ CsgStep(p) /\ ~startTarget(p) /\ ~assignProcessToJob(p)
           /\ ~resumeSuspendedProcess(p)
  <2>1. ASSUME \/ saveNewRun(p) \/ onStart(p) \/ superviseProcess(p) \/ waitForSessionBinding(p)
               \/ removeOwnRun(p) \/ readDir(p) \/ readFile(p)
        PROVE tree' = tree
    BY <2>1 DEF saveNewRun, onStart, superviseProcess, waitForSessionBinding, removeOwnRun,
                readDir, readFile, mutateRun, removeRun
  <2>2. ASSUME \/ beginClassify(p) \/ classifyRecord(p) \/ endClassify(p) \/ claimRun(p)
               \/ releaseRunClaim(p) \/ checkMatches(p)
        PROVE tree' = tree
    BY <2>2 DEF beginClassify, classifyRecord, endClassify, claimRun, releaseRunClaim,
                checkMatches, mutateRun, removeRun
  <2>3. ASSUME claimRunForDelete(p) \/ removeClaimedRun(p) PROVE tree' = tree
    BY <2>3 DEF claimRunForDelete, removeClaimedRun, ReleaseClaims, mutateRun, removeRun
  <2> QED BY <1>1, <1>4, <2>1, <2>2, <2>3 DEF CsgStep, Supervise
<1>5. CASE \/ p \in Hook /\ HookStep(p)
           \/ \E cmd \in Commands, sid \in Session \cup {NoSession} : Invoke(p, cmd, sid)
           \/ \E r \in Run, sid \in Session : hookMain(p, r, sid)
  <2>1. tree' = tree
    BY <1>5 DEF HookStep, Invoke, hookMain, bindSession, readDir, readFile, beginSweep,
                removeOlderDeadRecords, mutateRun, removeRun
  <2> QED BY <1>1, <2>1
<1> QED BY <1>2, <1>3, <1>4, <1>5, <1>6 DEF StepOf

\* A process that does not supervise does not begin to.
LEMMA Elsewhere ==
  ASSUME TypeOK, NEW p \in Csg, StepOf(p), pc'[p] \in {"discard", "resume", "onstart"}
  PROVE  startTarget(p) \/ assignProcessToJob(p) \/ onStart(p) \/ waitForSessionBinding(p)
<1> pc \in [Proc -> Label] /\ p \in Proc /\ p \notin Hook
  BY DEF TypeOK, Proc
<1>1. ASSUME Finish(p) \/ Return(p) PROVE FALSE
  BY <1>1 DEF Finish, Return, Go
<1>2. ASSUME \/ saveNewRun(p) \/ resumeSuspendedProcess(p) \/ superviseProcess(p)
             \/ removeOwnRun(p)
      PROVE  FALSE
  BY <1>1, <1>2 DEF saveNewRun, resumeSuspendedProcess, superviseProcess, removeOwnRun, Go
<1>3. ASSUME \/ readDir(p) \/ readFile(p) \/ beginClassify(p) \/ classifyRecord(p)
             \/ endClassify(p) \/ checkMatches(p)
      PROVE  FALSE
  BY <1>1, <1>3 DEF readDir, readFile, beginClassify, classifyRecord, endClassify, checkMatches, Go
<1>4. ASSUME claimRun(p) \/ releaseRunClaim(p) \/ claimRunForDelete(p) \/ removeClaimedRun(p)
      PROVE  FALSE
  BY <1>1, <1>4 DEF claimRun, releaseRunClaim, claimRunForDelete, removeClaimedRun,
                    ReleaseClaims, Go
<1>5. ASSUME \E cmd \in Commands, sid \in Session \cup {NoSession} : Invoke(p, cmd, sid)
      PROVE  FALSE
  BY <1>5 DEF Invoke, Go
<1> QED BY <1>2, <1>3, <1>4, <1>5 DEF StepOf, CsgStep, Supervise

LEMMA SupervisedStep ==
  ASSUME TypeOK, TypeOK', IInv, HookInv, Grows, NEW p \in Proc, StepOf(p), NEW c \in Csg
  PROVE  Supervised(c)'
<1> /\ pc \in [Proc -> Label] /\ mem \in [Proc -> Locals] /\ files \subseteq Run
    /\ tree \in [Run -> TreeState] /\ born \in Nat /\ Supervised(c) /\ c \in Proc
  BY DEF TypeOK, HookInv, Proc
<1>0. /\ mem[c].own \in 0..born /\ mem[c].own \in Run \cup {NoRun}
      /\ pc[c] \in Owning => mem[c].own \in Run
  BY DEF IInv, RunInv, Owns, TypeOK, Locals
<1>1. CASE c = p
  <2> SUFFICES ASSUME pc'[p] \in {"discard", "resume", "onstart"} PROVE Supervised(c)'
    BY <1>1 DEF Supervised
  <2>1. CASE startTarget(p)
    <3>1. PICK ok \in Attempt :
            Go(p, IF ~ok THEN "unstarted" ELSE IF KillOnClose THEN "assign" ELSE "onstart")
      BY <2>1 DEF startTarget
    <3>2. pc'[p] = "onstart" /\ ~KillOnClose
      BY <1>1, <3>1 DEF Go
    <3> QED BY <1>1, <3>2 DEF Supervised
  <2>4. CASE assignProcessToJob(p)
    <3>1. pc[p] = "assign" /\ mem' = mem
      BY <1>1, <2>4 DEF assignProcessToJob, Keep
    <3>2. mem[p].own \in Run
      BY <1>0, <1>1, <3>1 DEF Owning, Active
    <3>3. pc'[p] = "onstart" /\ tree'[mem[p].own] = "suspended"
      BY <1>1, <2>4, <3>2 DEF assignProcessToJob, Go
    <3> QED BY <1>1, <3>1, <3>3 DEF Supervised
  <2>2. CASE onStart(p)
    <3>1. /\ mem' = mem /\ tree' = tree /\ pc[p] = "onstart"
          /\ pc'[p] = IF KillOnClose THEN "resume" ELSE "wait"
      BY <1>1, <2>2 DEF onStart, mutateRun, Keep, Go
    <3> QED BY <1>1, <3>1 DEF Supervised
  <2>3. CASE waitForSessionBinding(p)
    <3>1. ~Return(p)
      BY <1>1 DEF Return, Finish, Go
    <3>2. /\ mem' = mem /\ files' = files /\ rec' = rec
          /\ \/ pc'[p] = "unread"
             \/ pc'[p] = "discard" /\ rec[mem[p].own].session = NoSession
      BY <1>1, <2>3, <3>1 DEF waitForSessionBinding, Keep, Go, store
    <3> QED BY <1>1, <3>2 DEF Supervised
  <2> QED BY <1>1, <2>1, <2>2, <2>3, <2>4, Elsewhere
<1>2. CASE c # p
  <2>1. pc'[c] = pc[c] /\ mem'[c] = mem[c]
    BY <1>2, Alone
  <2>2. ASSUME pc[c] = "discard", mem[c].own \in files'
        PROVE  rec'[mem[c].own].session = NoSession
    <3>1. mem[c].own \in Run /\ mem[c].own \in files
      BY <1>0, <2>2 DEF Owning, Grows
    <3>2. ~(p \in Hook /\ pc[p] = "bind" /\ mem[c].own = mem[p].own)
      <4> SUFFICES ASSUME p \in Hook, pc[p] = "bind", mem[c].own = mem[p].own PROVE FALSE
        OBVIOUS
      <4>1. tree[mem[c].own] \in Running
        BY DEF HookInv, Hooked, Live, Running
      <4> QED BY <2>2, <3>1, <4>1, Guarded
    <3>3. rec'[mem[c].own].session = rec[mem[c].own].session
      BY <2>2, <3>1, <3>2, BindsStep DEF Binds, IInv
    <3> QED BY <2>2, <3>1, <3>3 DEF Supervised
  <2>3. ASSUME pc[c] \in {"resume", "onstart"} PROVE tree'[mem[c].own] = tree[mem[c].own]
    <3>1. mem[c].own \in Run /\ mem[c].own # NoRun
      BY <1>0, <2>3 DEF Owning, Active, Run, NoRun
    <3>2. ~(p \in Csg /\ mem[c].own = mem[p].own)
      BY <1>2, <3>1 DEF IInv, RunInv, Apart
    <3> QED BY <3>1, <3>2, TreeStep
  <2> QED BY <2>1, <2>2, <2>3 DEF Supervised
<1> QED BY <1>1, <1>2

\* What a hook does to its own state.
LEMMA HookedStep == ASSUME TypeOK, IInv, NEW h \in Hook, StepOf(h), Hooked(h), Grown
                    PROVE  Hooked(h)'
<1> /\ pc \in [Proc -> Label] /\ mem \in [Proc -> Locals] /\ mem[h] \in Locals
    /\ rec \in [Run -> RunRecord] /\ files \subseteq Run
    /\ h \in Proc /\ h \notin Csg
  BY DEF TypeOK, Proc
<1> DEFINE same == mem'[h].own = mem[h].own /\ mem'[h].sid = mem[h].sid
<1>0. Live(h) => mem[h].own \in Run /\ tree[mem[h].own] \in {"root", "group"}
                 /\ tree'[mem[h].own] \in {"root", "group"}
  BY DEF Hooked, Grown
<1>1. ASSUME Finish(h) PROVE Hooked(h)'
  <2>1. pc'[h] = "gone" /\ mem'[h].own = NoRun
    BY <1>1 DEF Finish, Go, Fresh
  <2> QED BY <2>1 DEF Hooked, Live
<1>2. ASSUME same, pc[h] \in {"readdir", "scan", "sweep"}, pc'[h] \in {"scan", "sweep"},
             rec'[mem[h].own].session = rec[mem[h].own].session,
             pc'[h] = "sweep" => mem'[h].todo \subseteq Matches(h)' \ {mem[h].own}
      PROVE  Hooked(h)'
  <2>1. Live(h)
    BY <1>2 DEF Live
  <2> QED BY <1>0, <1>2, <2>1 DEF Hooked, Live
<1>3. CASE \E r \in Run, sid \in Session : hookMain(h, r, sid)
  <2>1. PICK r \in Run, sid \in Session : hookMain(h, r, sid)
    BY <1>3
  <2>2. /\ pc'[h] = "bind" /\ tree[r] \in {"root", "group"} /\ tree' = tree
        /\ mem' = [mem EXCEPT ![h].cmd = "hook", ![h].own = r, ![h].sid = sid]
    BY <2>1 DEF hookMain, Go
  <2>3. mem'[h].own = r
    BY <2>2 DEF Locals
  <2> QED BY <2>2, <2>3 DEF Hooked, Live
<1>4. CASE bindSession(h) /\ ~Finish(h)
  <2>1. /\ pc[h] = "bind" /\ pc'[h] = "readdir" /\ mem' = mem /\ mem[h].own \in files
        /\ \E codex : mutateRun(mem[h].own, [rec[mem[h].own] EXCEPT !.session = mem[h].sid,
                                                                   !.codex = codex])
    BY <1>4 DEF bindSession, Go, Keep
  <2>2. rec'[mem[h].own].session = mem[h].sid
    BY <2>1 DEF mutateRun, RunRecord
  <2>3. Live(h)
    BY <2>1 DEF Live
  <2> QED BY <1>0, <2>1, <2>2, <2>3 DEF Hooked, Live
<1>5. CASE readDir(h) /\ ~Finish(h)
  <2>1. /\ pc[h] = "readdir" /\ Go(h, "scan") /\ mem' = [mem EXCEPT ![h].todo = files]
        /\ rec' = rec
    BY <1>5 DEF readDir, store
  <2>2. same /\ pc'[h] = "scan"
    BY <2>1 DEF Go, Locals
  <2> QED BY <1>2, <2>1, <2>2
<1>6. CASE readFile(h)
  <2>1. pc[h] = "scan" /\ pc'[h] = "scan" /\ rec' = rec
    BY <1>6 DEF readFile, store
  <2>2. same
    BY <1>6 DEF readFile, Locals
  <2> QED BY <1>2, <2>1, <2>2
<1>7. CASE beginSweep(h)
  <2>1. /\ pc[h] = "scan" /\ Go(h, "sweep") /\ rec' = rec
        /\ mem' = [mem EXCEPT ![h].todo = Matches(h) \ {mem[h].own}]
    BY <1>7 DEF beginSweep, Scanned, store
  <2>2. /\ same /\ pc'[h] = "sweep" /\ mem'[h].saw = mem[h].saw /\ mem'[h].view = mem[h].view
        /\ mem'[h].todo = Matches(h) \ {mem[h].own}
    BY <2>1 DEF Go, Locals
  <2>3. Matches(h)' = Matches(h)
    BY <2>2 DEF Matches
  <2> QED BY <1>2, <2>1, <2>2, <2>3
<1>8. CASE removeOlderDeadRecords(h) /\ ~Finish(h)
  <2>1. PICK r \in mem[h].todo :
          /\ UNCHANGED pc /\ mem' = [mem EXCEPT ![h].todo = @ \ {r}]
          /\ \E ok : removeRun(r, ok)
    BY <1>8 DEF removeOlderDeadRecords
  <2>2. pc[h] = "sweep"
    BY <1>8 DEF removeOlderDeadRecords
  <2>3. /\ same /\ mem'[h].saw = mem[h].saw /\ mem'[h].view = mem[h].view
        /\ mem'[h].todo = mem[h].todo \ {r}
    BY <2>1 DEF Locals
  <2>4. Matches(h)' = Matches(h)
    BY <2>3 DEF Matches
  <2>5. r # mem[h].own /\ mem[h].todo \subseteq Matches(h) \ {mem[h].own}
    BY <2>1, <2>2 DEF Hooked
  <2>6. rec'[mem[h].own].session = rec[mem[h].own].session
    BY <2>1, <2>5 DEF removeRun
  <2> QED BY <1>2, <2>1, <2>2, <2>3, <2>4, <2>5, <2>6
<1> QED BY <1>1, <1>3, <1>4, <1>5, <1>6, <1>7, <1>8 DEF StepOf, HookStep

\* What the others do to it.
LEMMA HookedKept ==
  ASSUME TypeOK, IInv, HookInv, ActiveTracked, ActiveTracked', NEW p \in Proc, StepOf(p), Grown,
         NEW h \in Hook, h # p
  PROVE  Hooked(h)'
<1> Hooked(h) /\ Numbered /\ OneHook /\ h \in Proc /\ tree \in [Run -> TreeState]
  BY DEF HookInv, IInv, Proc, TypeOK
<1>1. pc'[h] = pc[h] /\ mem'[h] = mem[h]
  BY Alone
<1>2. Live(h) => /\ mem[h].own \in Run
                 /\ tree[mem[h].own] \in {"root", "group"}
                 /\ tree'[mem[h].own] \in {"root", "group"}
  BY DEF Hooked, Grown
<1>3. ASSUME pc[h] \in {"readdir", "scan", "sweep"}
      PROVE  rec'[mem[h].own].session = rec[mem[h].own].session
  <2>1. Live(h)
    BY <1>3 DEF Live
  <2>2. mem[h].own \in files \cap files'
    BY <1>2, <2>1 DEF ActiveTracked, Running
  <2>3. ~(p \in Hook /\ mem[h].own = mem[p].own)
    <3>1. mem[h].own # NoRun
      BY <1>2, <2>1 DEF Run, NoRun
    <3> QED BY <3>1 DEF OneHook
  <2> QED BY <2>2, <2>3, BindsStep DEF Binds
<1>4. Matches(h)' = Matches(h)
  BY <1>1 DEF Matches
<1> QED BY <1>1, <1>2, <1>3, <1>4 DEF Hooked, Live

LEMMA OneHookStep == ASSUME TypeOK, HookInv, NEW p \in Proc, StepOf(p) PROVE OneHook'
<1> mem \in [Proc -> Locals] /\ OneHook /\ p \in Proc
  BY DEF TypeOK, HookInv
<1>1. \A q \in Hook \ {p} : mem'[q] = mem[q]
  BY Alone DEF Proc
<1>2. CASE p \notin Hook
  BY <1>1, <1>2 DEF OneHook
<1>3. CASE p \in Hook
  <2>1. ASSUME mem'[p].own \in {mem[p].own, NoRun} PROVE OneHook'
    BY <1>1, <1>3, <2>1 DEF OneHook
  <2>2. CASE \E r \in Run, sid \in Session : hookMain(p, r, sid)
    <3>1. PICK r : /\ \A g \in Hook : mem[g].own # r
                   /\ \E sid : mem' = [mem EXCEPT ![p].cmd = "hook", ![p].own = r, ![p].sid = sid]
      BY <2>2 DEF hookMain
    <3>2. mem'[p].own = r
      BY <3>1 DEF Locals
    <3> QED BY <1>1, <1>3, <3>1, <3>2 DEF OneHook
  <2>3. CASE HookStep(p)
    <3>1. ASSUME Finish(p) PROVE mem'[p].own = NoRun
      BY <3>1 DEF Finish, Fresh
    <3>2. ASSUME NEW S, mem' = [mem EXCEPT ![p].todo = S] PROVE mem'[p].own = mem[p].own
      BY <3>2 DEF Locals
    <3>3. CASE readFile(p)
      <4>1. mem'[p].own = mem[p].own
        BY <3>3 DEF readFile, Locals
      <4> QED BY <2>1, <4>1
    <3>4. CASE bindSession(p)
      BY <2>1, <3>1, <3>4 DEF bindSession, Keep
    <3>5. CASE readDir(p) \/ beginSweep(p) \/ removeOlderDeadRecords(p)
      BY <2>1, <3>1, <3>2, <3>5 DEF readDir, beginSweep, removeOlderDeadRecords
    <3> QED BY <2>3, <3>3, <3>4, <3>5 DEF HookStep
  <2> QED BY <1>3, <2>2, <2>3 DEF StepOf
<1> QED BY <1>2, <1>3

\* Hooks end with their tree.
LEMMA HookDie == ASSUME TypeOK, IInv, HookInv, NEW P, NEW R, Die(P, R) PROVE HookInv'
<1> DEFINE D == P \cup {h \in Hook : mem[h].own \in R}
<1> tree \in [Run -> TreeState] /\ mem \in [Proc -> Locals]
  BY DEF TypeOK
<1>1. /\ \A p \in Proc : \/ p \notin D /\ pc'[p] = pc[p] /\ mem'[p] = mem[p]
                         \/ p \in D /\ pc'[p] = "gone" /\ mem'[p] = Fresh
      /\ files' = files /\ rec' = rec /\ born' = born
      /\ \A r \in Run : tree'[r] = tree[r] \/ (r \in R /\ tree'[r] = "dead")
  BY DEF Die, store
<1>2. ASSUME NEW h \in Hook PROVE Hooked(h)'
  <2>1. CASE h \in D
    <3>1. pc'[h] = "gone" /\ mem'[h].own = NoRun
      BY <1>1, <2>1 DEF Fresh, Proc
    <3> QED BY <3>1 DEF Hooked, Live
  <2>2. CASE h \notin D
    <3>1. pc'[h] = pc[h] /\ mem'[h] = mem[h] /\ Hooked(h) /\ mem[h].own \notin R
      BY <1>1, <2>2 DEF Proc, HookInv
    <3>2. Matches(h)' = Matches(h)
      BY <3>1 DEF Matches
    <3> QED BY <1>1, <3>1, <3>2 DEF Hooked, Live
  <2> QED BY <2>1, <2>2
<1>3. OneHook'
  <2>1. \A h \in Hook : mem'[h].own \in {mem[h].own, NoRun}
    BY <1>1 DEF Fresh, Proc
  <2> QED BY <2>1 DEF OneHook, HookInv
<1>4. ASSUME NEW c \in Csg PROVE Supervised(c)'
  <2>1. CASE pc'[c] = "gone"
    BY <2>1 DEF Supervised
  <2>2. CASE pc'[c] = pc[c] /\ mem'[c] = mem[c]
    <3>1. Supervised(c)
      BY DEF HookInv
    <3>2. pc[c] \in {"resume", "onstart"} => mem[c].own \in Run
      BY DEF IInv, RunInv, Owns, Owning, Active, TypeOK, Locals, Proc
    <3>3. ASSUME pc[c] \in {"resume", "onstart"}, tree[mem[c].own] \in {"suspended", "dead"}
          PROVE  tree'[mem[c].own] \in {"suspended", "dead"}
      BY <1>1, <3>2, <3>3
    <3>4. mem'[c].own = mem[c].own
      BY <2>2
    <3> QED BY <1>1, <2>2, <3>1, <3>3, <3>4 DEF Supervised
  <2> QED BY <1>1, <2>1, <2>2 DEF Proc
<1> QED BY <1>2, <1>3, <1>4 DEF HookInv

LEMMA HookEnds == ASSUME TypeOK, IInv, HookInv, Ends PROVE HookInv'
<1>1. CASE \E r \in Run : RootExits(r)
  <2>1. PICK r \in Run : RootExits(r)
    BY <1>1
  <2>2. /\ pc' = pc /\ mem' = mem /\ files' = files /\ rec' = rec /\ tree[r] = "root"
        /\ tree' = [tree EXCEPT ![r] = "group"] /\ tree \in [Run -> TreeState]
    BY <2>1 DEF RootExits, store, TypeOK
  <2>3. \A h \in Hook : Matches(h)' = Matches(h)
    BY <2>2 DEF Matches
  <2>4. \A h \in Hook : Hooked(h)'
    BY <2>2, <2>3 DEF HookInv, Hooked, Live
  <2>5. \A c \in Csg : Supervised(c)'
    BY <2>2 DEF HookInv, Supervised
  <2> QED BY <2>2, <2>4, <2>5 DEF HookInv, OneHook
<1>2. CASE ~\E r \in Run : RootExits(r)
  <2>1. \E P, R : Die(P, R)
    BY <1>2 DEF Ends, TreeDies, Kill, Reboot
  <2> QED BY <2>1, HookDie
<1> QED BY <1>1, <1>2

LEMMA HookInit == Init => HookInv
<1> SUFFICES ASSUME Init PROVE HookInv
  OBVIOUS
<1>1. \A p \in Proc : pc[p] = "idle" /\ mem[p].own = NoRun
  BY DEF Init, Fresh
<1> QED BY <1>1 DEF HookInv, OneHook, Hooked, Supervised, Live, Proc

LEMMA HookNext ==
  TypeOK /\ TypeOK' /\ IInv /\ ActiveTracked /\ ActiveTracked' /\ HookInv /\ [Next]_vars => HookInv'
<1> SUFFICES ASSUME TypeOK, TypeOK', IInv, ActiveTracked, ActiveTracked', HookInv, [Next]_vars
             PROVE  HookInv'
  OBVIOUS
<1>1. CASE UNCHANGED vars
  <2>1. \A h \in Hook : Matches(h)' = Matches(h)
    BY <1>1 DEF vars, Matches
  <2> QED BY <1>1, <2>1 DEF vars, store, HookInv, OneHook, Hooked, Supervised, Live
<1>2. ASSUME NEW p \in Proc, StepOf(p) PROVE HookInv'
  <2>1. Grown /\ Grows
    BY <1>2, TreeStep, StepEffect, StoreGrows DEF IInv
  <2>2. \A h \in Hook : Hooked(h)'
    BY <1>2, <2>1, HookedStep, HookedKept DEF HookInv
  <2>3. \A c \in Csg : Supervised(c)'
    BY <1>2, <2>1, SupervisedStep
  <2> QED BY <1>2, <2>2, <2>3, OneHookStep DEF HookInv
<1> QED BY <1>1, <1>2, Steps, HookEnds

-----------------------------------------------------------------------------
(* A record is removed for a reason.                                       *)

Reason(r) ==
  \/ \E c \in Csg : pc[c] \in {"remove", "unstarted", "unread"} /\ mem[c].own = r
                   /\ removeOwnRun(c)
  \/ \E c \in Csg : mem[c].sid = rec[r].session /\ r \in mem[c].claimed
                   /\ removeClaimedRun(c)
  \/ \E h \in Hook : /\ mem[h].view[r].session = mem[h].sid
                     /\ mem[h].own \in files' /\ rec'[mem[h].own].session = mem[h].sid
                     /\ removeOlderDeadRecords(h)
  \/ \E c \in Csg : mem[c].view[r].session = NoSession /\ classifyRecord(c)

LEMMA RemovedOne == ASSUME NEW r, NEW ok, removeRun(r, ok)
                    PROVE  /\ files \ files' \subseteq {r}
                           /\ \A q : q # r /\ q \in files => q \in files'
  BY DEF removeRun

LEMMA ReasonStep == ASSUME TypeOK, IInv, ActiveTracked, HookInv, NEW p \in Proc, StepOf(p),
                           NEW r \in files \ files', rec[r].session # NoSession
                    PROVE  Reason(r)
<1> rec \in [Run -> RunRecord] /\ mem \in [Proc -> Locals] /\ mem[p] \in Locals /\ p \in Proc
  BY DEF TypeOK
<1>1. CASE p \in Csg /\ removeOwnRun(p)
  <2>1. mem[p].own = r
    BY <1>1, RemovedOne DEF removeOwnRun
  <2>2. pc[p] \in {"remove", "unstarted", "discard", "unread"} /\ pc[p] # "discard"
    BY <1>1, <2>1 DEF removeOwnRun, HookInv, Supervised
  <2> QED BY <1>1, <2>1, <2>2 DEF Reason
<1>2. CASE p \in Csg /\ removeClaimedRun(p)
  <2>1. /\ pc[p] = "removeAll" /\ r \in mem[p].todo /\ rec[r].session = mem[p].sid
    <3>1. PICK q \in mem[p].todo : removeRun(q, TRUE) /\ rec[q].session = mem[p].sid
      BY <1>2 DEF removeClaimedRun, ReleaseClaims, store
    <3>2. q = r
      BY <3>1, RemovedOne
    <3> QED BY <1>2, <3>1, <3>2 DEF removeClaimedRun
  <2>2. r \in mem[p].claimed
    BY <2>1 DEF IInv, ScanInv, Phased
  <2> QED BY <1>2, <2>1, <2>2 DEF Reason
<1>3. CASE p \in Hook /\ removeOlderDeadRecords(p)
  <2>1. PICK q \in mem[p].todo : \E ok : removeRun(q, ok)
    BY <1>3 DEF removeOlderDeadRecords, store
  <2>2. q = r
    BY <2>1, RemovedOne
  <2>3. pc[p] = "sweep" /\ Live(p) /\ Hooked(p)
    BY <1>3 DEF removeOlderDeadRecords, HookInv, Live
  <2>4. mem[p].view[r].session = mem[p].sid /\ mem[p].own # r
    BY <2>1, <2>2, <2>3 DEF Hooked, Matches
  <2>5. mem[p].own \in files /\ rec[mem[p].own].session = mem[p].sid
    BY <2>3 DEF Hooked, ActiveTracked, Running
  <2>6. mem[p].own \in files' /\ rec'[mem[p].own] = rec[mem[p].own]
    BY <2>1, <2>2, <2>4, <2>5 DEF removeRun
  <2> QED BY <1>3, <2>4, <2>5, <2>6 DEF Reason
<1>4. CASE p \in Csg /\ classifyRecord(p)
  <2>1. PICK q \in Newest(mem[p].todo) :
          mem[p].view[q].session = NoSession /\ \E ok : removeRun(q, ok)
    BY <1>4 DEF classifyRecord, store
  <2>2. q = r
    BY <2>1, RemovedOne
  <2> QED BY <1>4, <2>1, <2>2 DEF Reason
<1>5. ASSUME files \subseteq files' PROVE FALSE
  BY <1>5
<1>6. CASE \/ saveNewRun(p) \/ startTarget(p) \/ assignProcessToJob(p) \/ onStart(p)
           \/ resumeSuspendedProcess(p) \/ superviseProcess(p) \/ waitForSessionBinding(p)
  BY <1>5, <1>6 DEF saveNewRun, startTarget, assignProcessToJob, onStart, resumeSuspendedProcess,
                    superviseProcess, waitForSessionBinding, mutateRun, store
<1>7. CASE \/ readDir(p) \/ readFile(p) \/ beginClassify(p) \/ endClassify(p)
           \/ checkMatches(p) \/ beginSweep(p)
  BY <1>5, <1>7 DEF readDir, readFile, beginClassify, endClassify, checkMatches, beginSweep,
                    store
<1>8. CASE claimRun(p) \/ releaseRunClaim(p) \/ claimRunForDelete(p) \/ bindSession(p)
  BY <1>5, <1>8 DEF claimRun, releaseRunClaim, claimRunForDelete, ReleaseClaims, bindSession,
                    mutateRun, store
<1>9. CASE \/ \E cmd \in Commands, sid \in Session \cup {NoSession} : Invoke(p, cmd, sid)
           \/ \E q \in Run, sid \in Session : hookMain(p, q, sid)
  BY <1>5, <1>9 DEF Invoke, hookMain, store
<1>10. CASE p \in Csg /\ CsgStep(p)
  BY <1>1, <1>2, <1>4, <1>6, <1>7, <1>8, <1>10 DEF CsgStep, Supervise
<1>11. CASE p \in Hook /\ HookStep(p)
  BY <1>3, <1>7, <1>8, <1>11 DEF HookStep
<1> QED BY <1>9, <1>10, <1>11 DEF StepOf

\* The record of a session disappears only by its own supervisor, after a
\* clean exit, a failed launch or a crash whose record it could not read
\* back; by a delete of that session that holds the claim; by a hook whose own
\* record tracks the session it removes an older record of; or in a listing
\* that read the record before it was bound.
THEOREM RecordsKept == ASSUME KillOnClose \/ ~LoneKill PROVE Spec => RecordKept
<1>1. Spec => [](TypeOK /\ IInv)
  BY TrackingInit, TrackingNext, Typing, PTL DEF Spec
<1>2. Spec => []HookInv
  BY <1>1, Tracking, HookInit, HookNext, PTL DEF Spec
<1>3. TypeOK /\ IInv /\ ActiveTracked /\ HookInv /\ [Next]_vars =>
        [\A r \in files \ files' : rec[r].session # NoSession => Reason(r)]_vars
  <2> SUFFICES ASSUME TypeOK, IInv, ActiveTracked, HookInv, Next, ~UNCHANGED vars,
                      NEW r \in files \ files', rec[r].session # NoSession
               PROVE  Reason(r)
    OBVIOUS
  <2>1. ~Ends
    BY EndsEffect DEF store
  <2> QED BY <2>1, Steps, ReasonStep
<1>4. RecordKept <=> [][\A r \in files \ files' : rec[r].session # NoSession => Reason(r)]_vars
  BY DEF RecordKept, Reason
<1> QED BY <1>1, <1>2, <1>3, <1>4, Tracking, PTL DEF Spec
=============================================================================
