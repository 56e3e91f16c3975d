------------------------- MODULE SessionGuardProofs -------------------------
(***************************************************************************)
(* Theorems about SessionGuard for any number of processes, sessions and   *)
(* records.                                                                *)
(***************************************************************************)
EXTENDS SessionGuard, TLAPS

\* What the steps write into the locals of a process keeps their types.
LEMMA LocalsType == ASSUME NEW m \in Locals, NEW T \in SUBSET Run, NEW S \in SUBSET Run
                    PROVE /\ [m EXCEPT !.todo = T] \in Locals
                          /\ [m EXCEPT !.claimed = S] \in Locals
                          /\ [m EXCEPT !.todo = T, !.claimed = S] \in Locals
                          /\ [m EXCEPT !.todo = T, !.crashed = S] \in Locals
                          /\ \A r \in Run : [m EXCEPT !.own = r] \in Locals
<1>1. [m EXCEPT !.todo = T] \in Locals
  BY DEF Locals
<1>2. [m EXCEPT !.claimed = S] \in Locals
  BY DEF Locals
<1>3. [m EXCEPT !.todo = T, !.claimed = S] \in Locals
  BY DEF Locals
<1>4. [m EXCEPT !.todo = T, !.crashed = S] \in Locals
  BY DEF Locals
<1>5. ASSUME NEW r \in Run PROVE [m EXCEPT !.own = r] \in Locals
  BY DEF Locals
<1> QED BY <1>1, <1>2, <1>3, <1>4, <1>5

LEMMA LocalSets == ASSUME TypeOK, NEW p \in Proc
                   PROVE /\ mem[p] \in Locals
                         /\ mem[p].todo \in SUBSET Run /\ mem[p].saw \in SUBSET Run
                         /\ mem[p].crashed \in SUBSET Run /\ mem[p].claimed \in SUBSET Run
<1>1. mem[p] \in Locals
  BY DEF TypeOK
<1> QED BY <1>1 DEF Locals

USE ProcAssumption, SessionAssumption, RunAssumption, SwitchAssumption,
    CommandAssumption

-----------------------------------------------------------------------------
(* Types.                                                                  *)

LEMMA FreshType == Fresh \in Locals /\ Blank \in RunRecord
  BY DEF Fresh, Locals, Blank, RunRecord

\* A step writes one entry of a variable.
LEMMA GoType == ASSUME TypeOK, NEW p \in Proc, NEW label \in Label, Go(p, label)
                PROVE pc' \in [Proc -> Label]
  BY DEF TypeOK, Go

LEMMA MemType == ASSUME TypeOK, NEW p \in Proc, NEW local \in Locals,
                        mem' = [mem EXCEPT ![p] = local]
                 PROVE mem' \in [Proc -> Locals]
  BY DEF TypeOK

LEMMA FinishType == ASSUME TypeOK, NEW p \in Proc, Finish(p)
                    PROVE pc' \in [Proc -> Label] /\ mem' \in [Proc -> Locals]
  BY GoType, MemType, FreshType DEF Finish, Label

LEMMA ReturnType == ASSUME TypeOK, NEW c \in Csg, Return(c)
                    PROVE pc' \in [Proc -> Label] /\ mem' \in [Proc -> Locals]
<1>1. CASE mem[c].cmd = "resume"
  <2>1. pc' \in [Proc -> Label]
    BY <1>1 DEF Return, Go, TypeOK, Label, Proc
  <2>2. mem' \in [Proc -> Locals]
    <3>1. [mem[c] EXCEPT !.todo = mem[c].claimed] \in Locals
      BY LocalSets, LocalsType DEF Proc
    <3> QED BY <1>1, <3>1 DEF Return, TypeOK
  <2> QED BY <2>1, <2>2
<1>2. CASE mem[c].cmd # "resume"
  BY <1>2, FinishType DEF Return, Proc
<1> QED BY <1>1, <1>2

LEMMA StoreType == ASSUME TypeOK, NEW r, NEW ok, removeRun(r, ok)
                   PROVE /\ files' \subseteq Run /\ rec' \in [Run -> RunRecord]
                         /\ born' \in 0..MaxRuns /\ tree' \in [Run -> TreeState]
  BY FreshType DEF TypeOK, removeRun

LEMMA MutateType == ASSUME TypeOK, NEW r, NEW record \in RunRecord, mutateRun(r, record)
                    PROVE /\ files' \subseteq Run /\ rec' \in [Run -> RunRecord]
                          /\ born' \in 0..MaxRuns /\ tree' \in [Run -> TreeState]
  BY DEF TypeOK, mutateRun

LEMMA InitType == Init => TypeOK
<1> SUFFICES ASSUME Init PROVE TypeOK
  OBVIOUS
<1>1. files \subseteq Run /\ born \in 0..MaxRuns
  <2>1. files = 1..Leftover /\ born = Leftover
    BY DEF Init
  <2>2. 1..Leftover \subseteq 1..MaxRuns
    OBVIOUS
  <2> QED BY <2>1, <2>2 DEF Run
<1>2. rec \in [Run -> RunRecord]
  <2>1. PICK of \in [1..Leftover -> Session] :
          rec = [r \in Run |-> IF r \in 1..Leftover
                               THEN [Blank EXCEPT !.codex = "root", !.session = of[r]]
                               ELSE Blank]
    BY DEF Init
  <2>2. \A r \in 1..Leftover : of[r] \in Session
    BY <2>1
  <2>3. Blank \in RunRecord /\ \A r \in 1..Leftover :
          [Blank EXCEPT !.codex = "root", !.session = of[r]] \in RunRecord
    BY <2>2 DEF Blank, RunRecord
  <2> QED BY <2>1, <2>3
<1>3. tree \in [Run -> TreeState]
  <2>1. tree = [r \in Run |-> IF r \in 1..Leftover THEN "dead" ELSE "none"]
    BY DEF Init
  <2> QED BY <2>1 DEF TreeState
<1>4. pc \in [Proc -> Label] /\ mem \in [Proc -> Locals]
  BY FreshType DEF Init, Label
<1> QED
  BY <1>1, <1>2, <1>3, <1>4 DEF TypeOK

LEMMA TypeSupervise == ASSUME TypeOK, NEW c \in Csg, Supervise(c) PROVE TypeOK'
<1> c \in Proc
  BY DEF Proc
<1>1. CASE saveNewRun(c)
  <2>1. CASE UNCHANGED <<store, tree>> /\ Return(c)
    BY <2>1, ReturnType DEF TypeOK, store
  <2>2. CASE ~(UNCHANGED <<store, tree>> /\ Return(c))
    <3>1. /\ born < MaxRuns /\ born' = born + 1 /\ files' = files \cup {born'}
          /\ rec' = [rec EXCEPT ![born'] = [Blank EXCEPT !.wrapper = c, !.session = mem[c].sid]]
          /\ Go(c, "start") /\ mem' = [mem EXCEPT ![c].own = born'] /\ UNCHANGED tree
      BY <1>1, <2>2 DEF saveNewRun
    <3>2. born' \in Run /\ born' \in 0..MaxRuns
      BY <3>1 DEF TypeOK, Run
    <3>3. [Blank EXCEPT !.wrapper = c, !.session = mem[c].sid] \in RunRecord
      BY DEF Blank, RunRecord, TypeOK, Locals
    <3>4. mem' \in [Proc -> Locals]
      <4>1. [mem[c] EXCEPT !.own = born'] \in Locals
        BY <3>2, LocalSets, LocalsType
      <4> QED BY <3>1, <4>1 DEF TypeOK
    <3>5. pc' \in [Proc -> Label]
      BY <3>1, GoType DEF Label
    <3> QED BY <3>1, <3>2, <3>3, <3>4, <3>5 DEF TypeOK
  <2> QED BY <2>1, <2>2
<1>2. CASE startTarget(c)
  BY <1>2 DEF startTarget, TypeOK, Go, Keep, store, Label, TreeState
<1>8. CASE assignProcessToJob(c)
  BY <1>8 DEF assignProcessToJob, TypeOK, Go, Keep, store, Label, TreeState
<1>3. CASE onStart(c)
  <2>1. mem[c].own \in files => [rec[mem[c].own] EXCEPT !.codex = "root"] \in RunRecord
    BY DEF TypeOK, RunRecord
  <2>2. rec' \in [Run -> RunRecord]
    BY <1>3, <2>1 DEF onStart, mutateRun, TypeOK
  <2> QED BY <1>3, <2>2 DEF onStart, mutateRun, TypeOK, Go, Keep, Label
<1>4. CASE resumeSuspendedProcess(c)
  BY <1>4 DEF resumeSuspendedProcess, TypeOK, Go, Keep, store, Label, TreeState
<1>5. CASE superviseProcess(c)
  BY <1>5 DEF superviseProcess, TypeOK, Go, Keep, store, Label
<1>6. CASE waitForSessionBinding(c)
  <2>1. Return(c) \/ ((Go(c, "discard") \/ Go(c, "unread")) /\ Keep)
    BY <1>6 DEF waitForSessionBinding
  <2>2. pc' \in [Proc -> Label] /\ mem' \in [Proc -> Locals]
    BY <2>1, ReturnType, GoType DEF Keep, TypeOK, Label
  <2> QED BY <1>6, <2>2 DEF waitForSessionBinding, TypeOK, store
<1>7. CASE removeOwnRun(c)
  <2>1. Return(c) /\ \E ok \in Attempt : removeRun(mem[c].own, ok)
    BY <1>7 DEF removeOwnRun
  <2> QED BY <2>1, ReturnType, StoreType DEF TypeOK
<1> QED
  BY <1>1, <1>2, <1>3, <1>4, <1>5, <1>6, <1>7, <1>8 DEF Supervise

LEMMA TypeInvoke == ASSUME TypeOK, NEW c \in Csg, NEW cmd \in Commands,
                           NEW sid \in Session \cup {NoSession}, Invoke(c, cmd, sid)
                    PROVE TypeOK'
<1> c \in Proc
  BY DEF Proc
<1>1. [mem[c] EXCEPT !.cmd = cmd, !.sid = sid] \in Locals
  <2>1. cmd \in {"none", "run", "list", "resume", "delete", "hook"}
    OBVIOUS
  <2>2. mem[c] \in Locals
    BY DEF TypeOK
  <2> HIDE CommandAssumption
  <2> QED BY <2>1, <2>2 DEF Locals
<1>2. mem' \in [Proc -> Locals]
  BY <1>1 DEF Invoke, TypeOK
<1>3. pc' \in [Proc -> Label]
  BY DEF Invoke, Go, TypeOK, Label
<1>4. UNCHANGED <<files, rec, born, tree>>
  BY DEF Invoke, store
<1> QED BY <1>2, <1>3, <1>4 DEF TypeOK

LEMMA TypeScan == ASSUME TypeOK, NEW p \in Proc, readDir(p) \/ readFile(p) PROVE TypeOK'
<1>1. CASE readDir(p)
  <2>1. CASE Go(p, "scan") /\ mem' = [mem EXCEPT ![p].todo = files]
    <3>1. [mem[p] EXCEPT !.todo = files] \in Locals
      BY LocalSets, LocalsType DEF TypeOK
    <3>2. mem' \in [Proc -> Locals]
      BY <2>1, <3>1 DEF TypeOK
    <3>3. pc' \in [Proc -> Label]
      BY <2>1, GoType DEF Label
    <3> QED BY <1>1, <3>2, <3>3 DEF readDir, TypeOK, store
  <2>2. CASE Finish(p)
    BY <1>1, <2>2, FinishType DEF readDir, TypeOK, store
  <2> QED BY <1>1, <2>1, <2>2 DEF readDir
<1>2. CASE readFile(p)
  <2>1. PICK r \in mem[p].todo, ok \in Attempt :
          mem' = [mem EXCEPT ![p].todo = @ \ {r},
                             ![p].saw  = IF ok /\ r \in files THEN @ \cup {r} ELSE @,
                             ![p].view = IF ok /\ r \in files THEN [@ EXCEPT ![r] = rec[r]] ELSE @]
    BY <1>2 DEF readFile
  <2>2. r \in Run
    BY LocalSets
  <2>3. [mem[p] EXCEPT !.todo = @ \ {r},
                       !.saw  = IF ok /\ r \in files THEN @ \cup {r} ELSE @,
                       !.view = IF ok /\ r \in files THEN [@ EXCEPT ![r] = rec[r]] ELSE @]
          \in Locals
    <3>1. mem[p] \in Locals /\ rec[r] \in RunRecord
      BY <2>2 DEF TypeOK
    <3>2. [mem[p].view EXCEPT ![r] = rec[r]] \in [Run -> RunRecord]
      BY <3>1 DEF Locals
    <3> QED BY <2>2, <3>1, <3>2 DEF Locals
  <2>4. mem' \in [Proc -> Locals]
    BY <2>1, <2>3 DEF TypeOK
  <2> QED BY <1>2, <2>4 DEF readFile, TypeOK, store
<1> QED BY <1>1, <1>2

LEMMA TypeTracked == ASSUME TypeOK, NEW c \in Csg,
                            beginClassify(c) \/ classifyRecord(c) \/ endClassify(c)
                     PROVE TypeOK'
<1> c \in Proc
  BY DEF Proc
<1>1. CASE beginClassify(c)
  <2>1. [mem[c] EXCEPT !.todo = mem[c].saw] \in Locals
    BY LocalSets, LocalsType
  <2> QED BY <1>1, <2>1 DEF beginClassify, TypeOK, store, Go, Label
<1>2. CASE classifyRecord(c)
  <2>1. PICK r \in Newest(mem[c].todo) :
          \/ \E ok \in Attempt :
               /\ removeRun(r, ok)
               /\ \/ mem' = [mem EXCEPT ![c].todo = @ \ {r}] /\ UNCHANGED pc
                  \/ Finish(c)
          \/ /\ \E C \in {mem[c].crashed, mem[c].crashed \cup {r}} :
                  mem' = [mem EXCEPT ![c].todo = @ \ {r}, ![c].crashed = C]
             /\ UNCHANGED <<store, tree, pc>>
    BY <1>2 DEF classifyRecord
  <2>2. r \in Run /\ r \in mem[c].todo
    BY LocalSets DEF Newest
  <2> DEFINE rest == mem[c].todo \ {r}
  <2>a. /\ rest \in SUBSET Run /\ mem[c] \in Locals
        /\ mem[c].crashed \in SUBSET Run /\ mem[c].crashed \cup {r} \in SUBSET Run
    BY <2>2, LocalSets
  <2>3. [mem[c] EXCEPT !.todo = rest] \in Locals
    BY <2>a, LocalsType
  <2>4. \A C \in {mem[c].crashed, mem[c].crashed \cup {r}} :
          [mem[c] EXCEPT !.todo = rest, !.crashed = C] \in Locals
    BY <2>a, LocalsType
  <2>5. CASE \E ok \in Attempt :
               /\ removeRun(r, ok)
               /\ \/ mem' = [mem EXCEPT ![c].todo = @ \ {r}] /\ UNCHANGED pc
                  \/ Finish(c)
    <3>1. mem' \in [Proc -> Locals] /\ pc' \in [Proc -> Label]
      BY <2>3, <2>5, FinishType DEF TypeOK
    <3> QED BY <2>5, <3>1, StoreType DEF TypeOK
  <2>6. CASE /\ \E C \in {mem[c].crashed, mem[c].crashed \cup {r}} :
                  mem' = [mem EXCEPT ![c].todo = @ \ {r}, ![c].crashed = C]
             /\ UNCHANGED <<store, tree, pc>>
    BY <2>4, <2>6 DEF TypeOK, store
  <2> QED BY <2>1, <2>5, <2>6
<1>3. CASE endClassify(c)
  <2>1. [mem[c] EXCEPT !.todo = Matches(c) \cap mem[c].crashed] \in Locals
    <3>1. Matches(c) \cap mem[c].crashed \in SUBSET Run /\ mem[c] \in Locals
      BY LocalSets
    <3> QED BY <3>1, LocalsType
  <2>2. \/ Finish(c)
        \/ Go(c, "claim") /\ mem' = [mem EXCEPT ![c].todo = Matches(c) \cap mem[c].crashed]
    BY <1>3 DEF endClassify
  <2>3. mem' \in [Proc -> Locals] /\ pc' \in [Proc -> Label]
    BY <2>1, <2>2, FinishType, GoType DEF TypeOK, Label
  <2> QED BY <1>3, <2>3 DEF endClassify, TypeOK, store
<1> QED BY <1>1, <1>2, <1>3

LEMMA TypeResume == ASSUME TypeOK, NEW c \in Csg, claimRun(c) \/ releaseRunClaim(c)
                    PROVE TypeOK'
<1> c \in Proc
  BY DEF Proc
<1>1. CASE claimRun(c)
  <2>1. CASE Finish(c) /\ UNCHANGED <<store, tree>>
    BY <2>1, FinishType DEF TypeOK, store
  <2>2. CASE ~(Finish(c) /\ UNCHANGED <<store, tree>>)
    <3>1. PICK r \in mem[c].todo :
            /\ mutateRun(r, [rec[r] EXCEPT !.claim = c])
            /\ Go(c, "save")
            /\ mem' = [mem EXCEPT ![c].claimed = {r}]
      BY <1>1, <2>2 DEF claimRun
    <3>2. r \in Run
      BY LocalSets
    <3>3. [rec[r] EXCEPT !.claim = c] \in RunRecord
      BY <3>2 DEF TypeOK, RunRecord
    <3>4. [mem[c] EXCEPT !.claimed = {r}] \in Locals
      BY <3>2, LocalSets, LocalsType
    <3>5. mem' \in [Proc -> Locals] /\ pc' \in [Proc -> Label]
      BY <3>1, <3>4, GoType DEF TypeOK, Label
    <3> QED BY <3>1, <3>3, <3>5, MutateType DEF TypeOK
  <2> QED BY <2>1, <2>2
<1>2. CASE releaseRunClaim(c)
  <2>1. CASE Finish(c) /\ UNCHANGED <<store, tree>>
    BY <2>1, FinishType DEF TypeOK, store
  <2>2. CASE ~(Finish(c) /\ UNCHANGED <<store, tree>>)
    <3>1. PICK r \in mem[c].todo, ok \in Attempt :
            /\ mutateRun(r, IF ok /\ r \in files /\ rec[r].claim = c
                            THEN [rec[r] EXCEPT !.claim = NoProc] ELSE rec[r])
            /\ mem' = [mem EXCEPT ![c].todo = @ \ {r}, ![c].claimed = @ \ {r}]
            /\ UNCHANGED pc
      BY <1>2, <2>2 DEF releaseRunClaim
    <3>2. r \in Run
      BY LocalSets
    <3>3. [rec[r] EXCEPT !.claim = NoProc] \in RunRecord /\ rec[r] \in RunRecord
      BY <3>2 DEF TypeOK, RunRecord
    <3>4. [mem[c] EXCEPT !.todo = @ \ {r}, !.claimed = @ \ {r}] \in Locals
      <4>1. /\ mem[c] \in Locals /\ mem[c].todo \ {r} \in SUBSET Run
            /\ mem[c].claimed \ {r} \in SUBSET Run
        BY LocalSets
      <4> QED BY <4>1, LocalsType
    <3>5. mem' \in [Proc -> Locals] /\ pc' \in [Proc -> Label]
      BY <3>1, <3>4 DEF TypeOK
    <3> QED BY <3>1, <3>3, <3>5, MutateType DEF TypeOK
  <2> QED BY <2>1, <2>2
<1> QED BY <1>1, <1>2

\* A process that has nothing of its own in the files steps to a label with
\* new locals, or finishes.
LEMMA TypeLocal == ASSUME TypeOK, NEW p \in Proc, UNCHANGED <<store, tree>>,
                          \/ Finish(p)
                          \/ \E local \in Locals, label \in Label :
                               Go(p, label) /\ mem' = [mem EXCEPT ![p] = local]
                   PROVE TypeOK'
<1>1. mem' \in [Proc -> Locals] /\ pc' \in [Proc -> Label]
  BY FinishType, GoType, MemType
<1> QED BY <1>1 DEF TypeOK, store

LEMMA TypeDelete == ASSUME TypeOK, NEW c \in Csg,
                           checkMatches(c) \/ claimRunForDelete(c) \/ removeClaimedRun(c)
                    PROVE TypeOK'
<1> c \in Proc
  BY DEF Proc
<1> DEFINE visit(S)   == [mem[c] EXCEPT !.todo = S]
           hold(r, S) == [mem[c] EXCEPT !.todo = @ \ {r}, !.claimed = S]
<1> mem[c] \in Locals
  BY DEF TypeOK
<1>0. /\ visit(mem[c].claimed) \in Locals /\ visit(Matches(c)) \in Locals
      /\ \A r : hold(r, mem[c].claimed \ {r}) \in Locals
  <2>1. /\ mem[c].claimed \in SUBSET Run /\ Matches(c) \in SUBSET Run
        /\ \A r : mem[c].todo \ {r} \in SUBSET Run /\ mem[c].claimed \ {r} \in SUBSET Run
    BY LocalSets DEF Matches
  <2> QED BY <2>1, LocalsType
<1>1. CASE checkMatches(c)
  <2>1. \/ Finish(c)
        \/ Go(c, "claimAll") /\ mem' = [mem EXCEPT ![c] = visit(Matches(c))]
    BY <1>1 DEF checkMatches
  <2>2. UNCHANGED <<store, tree>>
    BY <1>1 DEF checkMatches
  <2> QED BY <2>1, <2>2, <1>0, TypeLocal DEF Label
<1>2. ASSUME ReleaseClaims(c) PROVE TypeOK'
  <2>1. Go(c, "release") /\ mem' = [mem EXCEPT ![c] = visit(mem[c].claimed)]
    BY <1>2 DEF ReleaseClaims
  <2>2. UNCHANGED <<store, tree>>
    BY <1>2 DEF ReleaseClaims
  <2> QED BY <2>1, <2>2, <1>0, TypeLocal DEF Label
<1>3. CASE claimRunForDelete(c)
  <2>1. CASE Go(c, "removeAll") /\ mem' = [mem EXCEPT ![c].todo = mem[c].claimed]
                                /\ UNCHANGED <<store, tree>>
    <3>1. Go(c, "removeAll") /\ mem' = [mem EXCEPT ![c] = visit(mem[c].claimed)]
      BY <2>1
    <3> QED BY <2>1, <3>1, <1>0, TypeLocal DEF Label
  <2>2. CASE ReleaseClaims(c)
    BY <1>2, <2>2
  <2>3. CASE \E r \in mem[c].todo :
               /\ mutateRun(r, [rec[r] EXCEPT !.claim = c])
               /\ mem' = [mem EXCEPT ![c].todo = @ \ {r}, ![c].claimed = @ \cup {r}]
               /\ UNCHANGED pc
    <3>1. PICK r \in mem[c].todo :
               /\ mutateRun(r, [rec[r] EXCEPT !.claim = c])
               /\ mem' = [mem EXCEPT ![c].todo = @ \ {r}, ![c].claimed = @ \cup {r}]
               /\ UNCHANGED pc
      BY <2>3
    <3>2. r \in Run
      BY LocalSets
    <3>3. [rec[r] EXCEPT !.claim = c] \in RunRecord
      BY <3>2 DEF TypeOK, RunRecord
    <3>4. hold(r, mem[c].claimed \cup {r}) \in Locals
      <4>1. mem[c].todo \ {r} \in SUBSET Run /\ mem[c].claimed \cup {r} \in SUBSET Run
        BY <3>2, LocalSets
      <4> QED BY <4>1, LocalsType
    <3>5. mem' \in [Proc -> Locals] /\ pc' \in [Proc -> Label]
      BY <3>1, <3>4 DEF TypeOK
    <3> QED BY <3>1, <3>3, <3>5, MutateType DEF TypeOK
  <2> QED BY <1>3, <2>1, <2>2, <2>3 DEF claimRunForDelete
<1>4. CASE removeClaimedRun(c)
  <2>1. CASE Finish(c) /\ UNCHANGED <<store, tree>>
    BY <2>1, TypeLocal
  <2>2. CASE ReleaseClaims(c)
    BY <1>2, <2>2
  <2>3. CASE \E r \in mem[c].todo :
               /\ removeRun(r, TRUE)
               /\ mem' = [mem EXCEPT ![c].todo = @ \ {r}, ![c].claimed = @ \ {r}]
               /\ UNCHANGED pc
    <3>1. PICK r \in mem[c].todo :
               /\ removeRun(r, TRUE)
               /\ mem' = [mem EXCEPT ![c].todo = @ \ {r}, ![c].claimed = @ \ {r}]
               /\ UNCHANGED pc
      BY <2>3
    <3>2. hold(r, mem[c].claimed \ {r}) \in Locals
      BY <1>0
    <3>3. mem' \in [Proc -> Locals] /\ pc' \in [Proc -> Label]
      BY <3>1, <3>2 DEF TypeOK
    <3> QED BY <3>1, <3>3, StoreType DEF TypeOK
  <2> QED BY <1>4, <2>1, <2>2, <2>3 DEF removeClaimedRun
<1> QED BY <1>1, <1>3, <1>4

LEMMA TypeHook == ASSUME TypeOK, NEW h \in Hook,
                         \/ \E r \in Run, sid \in Session : hookMain(h, r, sid)
                         \/ bindSession(h) \/ beginSweep(h) \/ removeOlderDeadRecords(h)
                  PROVE TypeOK'
<1> h \in Proc
  BY DEF Proc
<1>0. mem[h] \in Locals
  BY DEF TypeOK
<1>1. CASE \E r \in Run, sid \in Session : hookMain(h, r, sid)
  <2>1. PICK r \in Run, sid \in Session : hookMain(h, r, sid)
    BY <1>1
  <2>2. [mem[h] EXCEPT !.cmd = "hook", !.own = r, !.sid = sid] \in Locals
    <3> HIDE CommandAssumption
    <3> QED BY <1>0 DEF Locals
  <2>3. Go(h, "bind") /\ mem' = [mem EXCEPT ![h] = [mem[h] EXCEPT !.cmd = "hook", !.own = r,
                                                                  !.sid = sid]]
    BY <2>1 DEF hookMain, TypeOK
  <2>4. UNCHANGED <<store, tree>>
    BY <2>1 DEF hookMain
  <2> QED BY <2>2, <2>3, <2>4, TypeLocal DEF Label
<1>2. CASE bindSession(h)
  <2> DEFINE r == mem[h].own
             codexOf(ancestor) == IF rec[r].codex = "none" THEN ancestor ELSE rec[r].codex
  <2>1. CASE Finish(h) /\ UNCHANGED <<store, tree>>
    BY <2>1, TypeLocal
  <2>2. ASSUME r \in files, NEW ancestor \in nearestCodexAncestor,
               mutateRun(r, [rec[r] EXCEPT !.session = mem[h].sid, !.codex = codexOf(ancestor)]),
               Go(h, "readdir"), Keep
        PROVE  TypeOK'
    <3>1. rec[r] \in RunRecord /\ mem[h].sid \in Session \cup {NoSession}
      BY <2>2, <1>0 DEF TypeOK, Locals
    <3>2. codexOf(ancestor) \in {"none", "root", "ancestor"}
      BY <3>1 DEF RunRecord, nearestCodexAncestor
    <3>3. [rec[r] EXCEPT !.session = mem[h].sid, !.codex = codexOf(ancestor)] \in RunRecord
      <4> HIDE DEF codexOf
      <4> QED BY <3>1, <3>2 DEF RunRecord
    <3>4. pc' \in [Proc -> Label] /\ mem' \in [Proc -> Locals]
      BY <2>2, GoType DEF Keep, TypeOK, Label
    <3> QED BY <2>2, <3>3, <3>4, MutateType DEF TypeOK
  <2>3. CASE ~(Finish(h) /\ UNCHANGED <<store, tree>>)
    <3>1. r \in files /\ Go(h, "readdir") /\ Keep
      BY <1>2, <2>3 DEF bindSession
    <3>2. PICK ancestor \in nearestCodexAncestor :
            mutateRun(r, [rec[r] EXCEPT !.session = mem[h].sid, !.codex = codexOf(ancestor)])
      BY <1>2, <2>3 DEF bindSession
    <3> QED BY <2>2, <3>1, <3>2
  <2> QED BY <2>1, <2>3
<1>3. CASE beginSweep(h)
  <2>1. [mem[h] EXCEPT !.todo = Matches(h) \ {mem[h].own}] \in Locals
    <3>1. Matches(h) \ {mem[h].own} \in SUBSET Run
      BY LocalSets DEF Matches
    <3> QED BY <3>1, <1>0, LocalsType
  <2>2. Go(h, "sweep") /\ mem' = [mem EXCEPT ![h] = [mem[h] EXCEPT
                                                       !.todo = Matches(h) \ {mem[h].own}]]
    BY <1>3 DEF beginSweep
  <2>3. UNCHANGED <<store, tree>>
    BY <1>3 DEF beginSweep
  <2> QED BY <2>1, <2>2, <2>3, TypeLocal DEF Label
<1>4. CASE removeOlderDeadRecords(h)
  <2>1. CASE Finish(h) /\ UNCHANGED <<store, tree>>
    BY <2>1, TypeLocal
  <2>2. ASSUME NEW r \in mem[h].todo, NEW ok, removeRun(r, ok), UNCHANGED pc,
               mem' = [mem EXCEPT ![h].todo = @ \ {r}]
        PROVE TypeOK'
    <3>1. [mem[h] EXCEPT !.todo = @ \ {r}] \in Locals
      <4>1. mem[h].todo \ {r} \in SUBSET Run
        BY LocalSets
      <4> QED BY <4>1, <1>0, LocalsType
    <3>2. pc' \in [Proc -> Label] /\ mem' \in [Proc -> Locals]
      BY <2>2, <3>1 DEF TypeOK
    <3> QED BY <2>2, <3>2, StoreType DEF TypeOK
  <2>3. CASE ~(Finish(h) /\ UNCHANGED <<store, tree>>)
    <3>1. PICK r \in mem[h].todo, ok \in Attempt, blind \in Blind :
            /\ removeRun(r, ok /\ ~recordIsAlive(r, mem[h].view[r], blind))
            /\ mem' = [mem EXCEPT ![h].todo = @ \ {r}]
            /\ UNCHANGED pc
      BY <1>4, <2>3 DEF removeOlderDeadRecords
    <3> QED BY <2>2, <3>1
  <2> QED BY <2>1, <2>3
<1> QED BY <1>1, <1>2, <1>3, <1>4

LEMMA TypeEnvironment == ASSUME TypeOK,
                                \/ \E r \in Run : RootExits(r) \/ TreeDies(r)
                                \/ \E p \in Proc : Kill(p)
                                \/ Reboot
                         PROVE TypeOK'
<1>1. CASE \E r \in Run : RootExits(r)
  BY <1>1 DEF RootExits, TypeOK, store, TreeState
<1>2. ASSUME NEW P, NEW R, Die(P, R) PROVE TypeOK'
  <2>1. pc' \in [Proc -> Label] /\ mem' \in [Proc -> Locals]
    BY <1>2, FreshType DEF Die, TypeOK, Label
  <2>2. tree' \in [Run -> TreeState]
    BY <1>2 DEF Die, TypeOK, TreeState
  <2> QED BY <1>2, <2>1, <2>2 DEF Die, TypeOK, store
<1> QED BY <1>1, <1>2 DEF TreeDies, Kill, Reboot

LEMMA TypeStep == TypeOK /\ [Next]_vars => TypeOK'
<1> SUFFICES ASSUME TypeOK, [Next]_vars PROVE TypeOK'
  OBVIOUS
<1>1. ASSUME NEW c \in Csg, CsgStep(c) PROVE TypeOK'
  <2> c \in Proc
    BY DEF Proc
  <2> QED BY <1>1, TypeSupervise, TypeScan, TypeTracked, TypeResume, TypeDelete DEF CsgStep
<1>2. ASSUME NEW h \in Hook, HookStep(h) PROVE TypeOK'
  <2> h \in Proc
    BY DEF Proc
  <2> QED BY <1>2, TypeScan, TypeHook DEF HookStep
<1>3. CASE UNCHANGED vars
  BY <1>3 DEF vars, TypeOK
<1> QED BY <1>1, <1>2, <1>3, TypeInvoke, TypeHook, TypeEnvironment DEF Next

\* Every variable keeps its type, for any number of processes and records.
THEOREM Typing == Spec => []TypeOK
  BY InitType, TypeStep, PTL DEF Spec

-----------------------------------------------------------------------------
(* What a step may change at all.                                          *)

\* A step of the process p.
StepOf(p) == \/ p \in Csg /\ CsgStep(p)
             \/ p \in Csg /\ \E cmd \in Commands, sid \in Session \cup {NoSession} :
                               Invoke(p, cmd, sid)
             \/ p \in Hook /\ HookStep(p)
             \/ p \in Hook /\ \E r \in Run, sid \in Session : hookMain(p, r, sid)

\* A process that takes a step is not gone, and is the only one it moves.
LEMMA Alone == ASSUME TypeOK, NEW p \in Proc, StepOf(p)
               PROVE /\ pc[p] # "gone"
                     /\ \A q \in Proc \ {p} : pc'[q] = pc[q] /\ mem'[q] = mem[q]
<1> DEFINE alone == /\ pc[p] # "gone"
                    /\ \A q \in Proc \ {p} : pc'[q] = pc[q] /\ mem'[q] = mem[q]
<1>1. ASSUME p \in Csg, Supervise(p) PROVE alone
  <2>1. CASE saveNewRun(p)
    BY <2>1 DEF saveNewRun, Return, Finish, Go, TypeOK
  <2>2. CASE startTarget(p) \/ assignProcessToJob(p) \/ onStart(p) \/ resumeSuspendedProcess(p)
               \/ superviseProcess(p)
    BY <2>2 DEF startTarget, assignProcessToJob, onStart, resumeSuspendedProcess, superviseProcess,
                Go, Keep, TypeOK
  <2>3. CASE waitForSessionBinding(p)
    BY <2>3 DEF waitForSessionBinding, Return, Finish, Go, Keep, TypeOK
  <2>4. CASE removeOwnRun(p)
    BY <2>4 DEF removeOwnRun, Return, Finish, Go, TypeOK
  <2> QED BY <1>1, <2>1, <2>2, <2>3, <2>4 DEF Supervise
<1>2. ASSUME readDir(p) \/ readFile(p) PROVE alone
  BY <1>2 DEF readDir, readFile, Finish, Go, TypeOK
<1>3. ASSUME beginClassify(p) \/ classifyRecord(p) \/ endClassify(p) PROVE alone
  <2>1. CASE beginClassify(p)
    BY <2>1 DEF beginClassify, Scanned, Go, TypeOK
  <2>2. CASE classifyRecord(p)
    BY <2>2 DEF classifyRecord, Finish, Go, TypeOK
  <2>3. CASE endClassify(p)
    BY <2>3 DEF endClassify, Finish, Go, TypeOK
  <2> QED BY <1>3, <2>1, <2>2, <2>3
<1>4. ASSUME claimRun(p) \/ releaseRunClaim(p) PROVE alone
  <2>1. CASE claimRun(p)
    BY <2>1 DEF claimRun, Finish, Go, TypeOK
  <2>2. CASE releaseRunClaim(p)
    BY <2>2 DEF releaseRunClaim, Finish, Go, TypeOK
  <2> QED BY <1>4, <2>1, <2>2
<1>5. ASSUME checkMatches(p) \/ claimRunForDelete(p) \/ removeClaimedRun(p) PROVE alone
  <2>1. CASE checkMatches(p)
    BY <2>1 DEF checkMatches, Scanned, Finish, Go, TypeOK
  <2>2. CASE claimRunForDelete(p)
    BY <2>2 DEF claimRunForDelete, ReleaseClaims, Finish, Go, TypeOK
  <2>3. CASE removeClaimedRun(p)
    BY <2>3 DEF removeClaimedRun, ReleaseClaims, Finish, Go, TypeOK
  <2> QED BY <1>5, <2>1, <2>2, <2>3
<1>6. ASSUME bindSession(p) \/ beginSweep(p) \/ removeOlderDeadRecords(p) PROVE alone
  <2>1. CASE bindSession(p)
    BY <2>1 DEF bindSession, Keep, Finish, Go, TypeOK
  <2>2. CASE beginSweep(p)
    BY <2>2 DEF beginSweep, Scanned, Go, TypeOK
  <2>3. CASE removeOlderDeadRecords(p)
    BY <2>3 DEF removeOlderDeadRecords, Finish, Go, TypeOK
  <2> QED BY <1>6, <2>1, <2>2, <2>3
<1>7. ASSUME \/ \E cmd \in Commands, sid \in Session \cup {NoSession} : Invoke(p, cmd, sid)
             \/ \E r \in Run, sid \in Session : hookMain(p, r, sid)
      PROVE alone
  BY <1>7 DEF Invoke, hookMain, Go, TypeOK
<1> QED
  BY <1>1, <1>2, <1>3, <1>4, <1>5, <1>6, <1>7 DEF StepOf, CsgStep, HookStep

\* What a step does to the files: nothing, create one, write one that keeps
\* its wrapper, or remove one.
Rewrites(r, record) == mutateRun(r, record) /\ record.wrapper = rec[r].wrapper
StoreEffect(p) == \/ UNCHANGED store
                  \/ saveNewRun(p)
                  \/ \E r \in files, record \in RunRecord : Rewrites(r, record)
                  \/ \E r, ok : removeRun(r, ok)

LEMMA SameStore == ASSUME TypeOK, NEW r, mutateRun(r, rec[r]) PROVE UNCHANGED store
  BY DEF TypeOK, mutateRun, store

LEMMA StepEffect == ASSUME TypeOK, NEW p \in Proc, StepOf(p) PROVE StoreEffect(p)
<1>1. ASSUME p \in Csg, Supervise(p) PROVE StoreEffect(p)
  <2>1. CASE onStart(p)
    <3>1. PICK ok \in Attempt :
            mutateRun(mem[p].own, IF ok /\ mem[p].own \in files
                                  THEN [rec[mem[p].own] EXCEPT !.codex = "root"]
                                  ELSE rec[mem[p].own])
      BY <2>1 DEF onStart
    <3>2. CASE ok /\ mem[p].own \in files
      <4>1. rec[mem[p].own] \in RunRecord
        BY <3>2 DEF TypeOK
      <4>2. [rec[mem[p].own] EXCEPT !.codex = "root"] \in RunRecord
        BY <4>1 DEF RunRecord
      <4>3. [rec[mem[p].own] EXCEPT !.codex = "root"].wrapper = rec[mem[p].own].wrapper
        BY <4>1 DEF RunRecord
      <4> QED BY <3>1, <3>2, <4>2, <4>3 DEF StoreEffect, Rewrites
    <3>3. CASE ~(ok /\ mem[p].own \in files)
      BY <3>1, <3>3, SameStore DEF StoreEffect
    <3> QED BY <3>2, <3>3
  <2>2. CASE startTarget(p) \/ assignProcessToJob(p) \/ resumeSuspendedProcess(p)
               \/ superviseProcess(p) \/ waitForSessionBinding(p)
    BY <2>2 DEF startTarget, assignProcessToJob, resumeSuspendedProcess, superviseProcess,
                waitForSessionBinding,
                StoreEffect
  <2>3. CASE removeOwnRun(p)
    BY <2>3 DEF removeOwnRun, StoreEffect
  <2> QED BY <1>1, <2>1, <2>2, <2>3 DEF Supervise, StoreEffect
<1>2. ASSUME readDir(p) \/ readFile(p) \/ beginClassify(p) \/ endClassify(p) \/ checkMatches(p)
             \/ beginSweep(p)
      PROVE StoreEffect(p)
  BY <1>2 DEF readDir, readFile, beginClassify, endClassify, checkMatches, beginSweep,
              StoreEffect
<1>3. ASSUME classifyRecord(p) PROVE StoreEffect(p)
  BY <1>3 DEF classifyRecord, StoreEffect
<1>4. ASSUME p \in Csg, NEW r \in files, mutateRun(r, [rec[r] EXCEPT !.claim = p])
      PROVE StoreEffect(p)
  <2>1. rec[r] \in RunRecord
    BY DEF TypeOK
  <2>2. [rec[r] EXCEPT !.claim = p] \in RunRecord
    BY <1>4, <2>1 DEF RunRecord
  <2>3. [rec[r] EXCEPT !.claim = p].wrapper = rec[r].wrapper
    BY <2>1 DEF RunRecord
  <2> QED BY <1>4, <2>2, <2>3 DEF StoreEffect, Rewrites
<1>5. ASSUME p \in Csg, claimRun(p) PROVE StoreEffect(p)
  BY <1>4, <1>5 DEF claimRun, StoreEffect
<1>6. ASSUME p \in Csg, releaseRunClaim(p) PROVE StoreEffect(p)
  <2>1. ASSUME NEW r \in files, mutateRun(r, [rec[r] EXCEPT !.claim = NoProc])
        PROVE StoreEffect(p)
    <3>1. rec[r] \in RunRecord
      BY DEF TypeOK
    <3>2. [rec[r] EXCEPT !.claim = NoProc] \in RunRecord
      BY <3>1 DEF RunRecord
    <3>3. [rec[r] EXCEPT !.claim = NoProc].wrapper = rec[r].wrapper
      BY <3>1 DEF RunRecord
    <3> QED BY <2>1, <3>2, <3>3 DEF StoreEffect, Rewrites
  <2>2. CASE UNCHANGED <<store, tree>>
    BY <2>2 DEF StoreEffect
  <2>3. CASE ~UNCHANGED <<store, tree>>
    <3>1. PICK r \in mem[p].todo, ok \in Attempt :
            mutateRun(r, IF ok /\ r \in files /\ rec[r].claim = p
                         THEN [rec[r] EXCEPT !.claim = NoProc] ELSE rec[r])
      BY <1>6, <2>3 DEF releaseRunClaim
    <3> QED BY <3>1, <2>1, SameStore DEF StoreEffect
  <2> QED BY <2>2, <2>3
<1>7. ASSUME p \in Csg, claimRunForDelete(p) PROVE StoreEffect(p)
  BY <1>4, <1>7 DEF claimRunForDelete, ReleaseClaims, StoreEffect
<1>8. ASSUME removeClaimedRun(p) \/ removeOlderDeadRecords(p) PROVE StoreEffect(p)
  BY <1>8 DEF removeClaimedRun, removeOlderDeadRecords, ReleaseClaims, StoreEffect
<1>9. ASSUME bindSession(p) PROVE StoreEffect(p)
  <2> DEFINE r == mem[p].own
             codexOf(ancestor) == IF rec[r].codex = "none" THEN ancestor ELSE rec[r].codex
  <2>1. CASE UNCHANGED <<store, tree>>
    BY <2>1 DEF StoreEffect
  <2>2. CASE ~UNCHANGED <<store, tree>>
    <3>0. r \in files
      BY <1>9, <2>2 DEF bindSession
    <3>1. PICK ancestor \in nearestCodexAncestor :
            mutateRun(r, [rec[r] EXCEPT !.session = mem[p].sid, !.codex = codexOf(ancestor)])
      BY <1>9, <2>2 DEF bindSession
    <3>2. rec[r] \in RunRecord /\ mem[p].sid \in Session \cup {NoSession}
      BY <3>0 DEF TypeOK, Locals
    <3>3. codexOf(ancestor) \in {"none", "root", "ancestor"}
      BY <3>2 DEF RunRecord, nearestCodexAncestor
    <3> HIDE DEF codexOf
    <3>4. [rec[r] EXCEPT !.session = mem[p].sid, !.codex = codexOf(ancestor)] \in RunRecord
      BY <3>2, <3>3 DEF RunRecord
    <3>5. [rec[r] EXCEPT !.session = mem[p].sid, !.codex = codexOf(ancestor)].wrapper
            = rec[r].wrapper
      BY <3>2 DEF RunRecord
    <3> QED BY <3>0, <3>1, <3>4, <3>5 DEF StoreEffect, Rewrites
  <2> QED BY <2>1, <2>2
<1>10. CASE p \in Csg /\ CsgStep(p)
  BY <1>1, <1>2, <1>3, <1>5, <1>6, <1>7, <1>8, <1>10 DEF CsgStep
<1>11. CASE p \in Hook /\ HookStep(p)
  BY <1>2, <1>8, <1>9, <1>11 DEF HookStep
<1>12. CASE \E cmd \in Commands, sid \in Session \cup {NoSession} : Invoke(p, cmd, sid)
  BY <1>12 DEF Invoke, StoreEffect
<1>13. CASE \E r \in Run, sid \in Session : hookMain(p, r, sid)
  BY <1>13 DEF hookMain, StoreEffect
<1> QED
  BY <1>10, <1>11, <1>12, <1>13 DEF StepOf

\* Files are created under new numbers and keep the wrapper they name.
Numbered == files \subseteq 1..born
Grows == /\ born <= born' /\ files' \subseteq 1..born'
         /\ \A r \in files' \ files : born < r
         /\ \A r \in files \cap files' : rec'[r].wrapper = rec[r].wrapper

LEMMA StoreGrows == ASSUME TypeOK, Numbered, NEW p \in Proc, StoreEffect(p) PROVE Grows
<1> born \in Nat /\ files \subseteq Run /\ rec \in [Run -> RunRecord]
  BY DEF TypeOK
<1>1. CASE UNCHANGED store
  BY <1>1 DEF store, Grows, Numbered
<1>2. CASE saveNewRun(p) /\ ~UNCHANGED store
  <2>1. /\ born' = born + 1 /\ files' = files \cup {born'}
        /\ rec' = [rec EXCEPT ![born'] = [Blank EXCEPT !.wrapper = p, !.session = mem[p].sid]]
    BY <1>2 DEF saveNewRun
  <2>2. born' \notin files
    BY <2>1 DEF Numbered
  <2>3. \A r \in files : rec'[r] = rec[r]
    BY <2>1, <2>2
  <2> QED BY <2>1, <2>3 DEF Grows, Numbered
<1>3. CASE \E r \in files, record \in RunRecord : Rewrites(r, record)
  BY <1>3 DEF Rewrites, mutateRun, Grows, Numbered
<1>4. CASE \E r, ok : removeRun(r, ok)
  <2>1. PICK r, ok : removeRun(r, ok)
    BY <1>4
  <2>2. files' \subseteq files /\ born' = born
    BY <2>1 DEF removeRun
  <2>3. \A q \in files \cap files' : rec'[q] = rec[q]
    BY <2>1 DEF removeRun
  <2> QED BY <2>2, <2>3 DEF Grows, Numbered
<1> QED BY <1>1, <1>2, <1>3, <1>4 DEF StoreEffect

\* A step of the environment ends processes and trees and leaves the files.
Ends == \/ \E r \in Run : RootExits(r)
        \/ \E r \in Run : TreeDies(r)
        \/ \E p \in Proc : Kill(p)
        \/ Reboot

LEMMA Steps == ASSUME Next PROVE (\E p \in Proc : StepOf(p)) \/ Ends
  BY DEF Next, StepOf, Ends, Proc

LEMMA EndsEffect == ASSUME Ends
                    PROVE /\ UNCHANGED store
                          /\ \A p \in Proc : \/ pc'[p] = pc[p] /\ mem'[p] = mem[p]
                                             \/ pc'[p] = "gone" /\ mem'[p] = Fresh
<1>1. ASSUME NEW P, NEW R, Die(P, R)
      PROVE /\ UNCHANGED store
            /\ \A p \in Proc : \/ pc'[p] = pc[p] /\ mem'[p] = mem[p]
                               \/ pc'[p] = "gone" /\ mem'[p] = Fresh
  BY <1>1 DEF Die
<1> QED BY <1>1 DEF Ends, RootExits, TreeDies, Kill, Reboot

-----------------------------------------------------------------------------
(* Claims.  A process that holds a claim is alive, so the record says so    *)
(* for as long as it does, and nobody else takes it.                       *)

Held == \A c \in Csg : /\ mem[c].claimed \subseteq 1..born
                       /\ mem[c].claimed # {} => Live(c)
ClaimInv == Numbered /\ Held /\ ClaimOnDisk /\ ClaimExclusive

\* A step that takes no claim, and that takes nobody's claim away on disk
\* before its holder has dropped it.
KeepsClaims == \A c \in Csg :
  /\ mem'[c].claimed \subseteq mem[c].claimed
  /\ mem'[c].claimed # {} => Live(c)'
  /\ \A r \in mem'[c].claimed \cap files \cap files' : rec[r].claim = c => rec'[r].claim = c

LEMMA ClaimKept == ASSUME TypeOK, TypeOK', ClaimInv, Grows, KeepsClaims
                   PROVE  ClaimInv'
<1> born \in Nat /\ born' \in Nat /\ Numbered'
  BY DEF TypeOK, Grows, Numbered
<1>1. Held'
  <2> SUFFICES ASSUME NEW c \in Csg
               PROVE mem'[c].claimed \subseteq 1..(born') /\ (mem'[c].claimed # {} => Live(c)')
    BY DEF Held
  <2>1. mem'[c].claimed \subseteq 1..born
    BY DEF ClaimInv, Held, KeepsClaims, Live
  <2>2. 1..born \subseteq 1..(born')
    BY DEF Grows, TypeOK
  <2> QED BY <2>1, <2>2 DEF KeepsClaims
<1>2. ClaimOnDisk'
  <2> SUFFICES ASSUME NEW c \in Csg, NEW r \in mem'[c].claimed, r \in files'
               PROVE rec'[r].claim = c
    BY DEF ClaimOnDisk
  <2>1. r \in mem[c].claimed /\ r \in 1..born
    BY DEF KeepsClaims, ClaimInv, Held, Live
  <2>2. r \in files
    BY <2>1 DEF Grows
  <2>3. rec[r].claim = c
    BY <2>1, <2>2 DEF ClaimInv, ClaimOnDisk
  <2> QED BY <2>2, <2>3 DEF KeepsClaims
<1>3. ClaimExclusive'
  BY DEF ClaimExclusive, ClaimInv, KeepsClaims
<1> QED BY <1>1, <1>2, <1>3 DEF ClaimInv

\* claimRun and claimRunForDelete take a claim that no live process has.
LEMMA ClaimTaken ==
  ASSUME TypeOK, ClaimInv, NEW c \in Csg, NEW r \in files, NEW blind \in Blind,
         ~recordHasActiveRecoveryClaim(rec[r], blind),
         mutateRun(r, [rec[r] EXCEPT !.claim = c]),
         mem'[c].claimed \subseteq mem[c].claimed \cup {r}, Live(c)',
         \A d \in Csg \ {c} : pc'[d] = pc[d] /\ mem'[d] = mem[d]
  PROVE  ClaimInv'
<1>1. UNCHANGED <<files, born>> /\ r \in Run /\ rec[r] \in RunRecord
  BY DEF mutateRun, TypeOK
<1>2. rec' = [rec EXCEPT ![r] = [rec[r] EXCEPT !.claim = c]]
  BY DEF mutateRun
<1>3. rec'[r].claim = c /\ \A q \in Run \ {r} : rec'[q] = rec[q]
  BY <1>1, <1>2 DEF TypeOK, RunRecord
<1>4. \A d \in Csg : r \notin mem[d].claimed
  <2> SUFFICES ASSUME NEW d \in Csg, r \in mem[d].claimed PROVE FALSE
    OBVIOUS
  <2>1. rec[r].claim = d /\ Live(d)
    BY DEF ClaimInv, ClaimOnDisk, Held, Live
  <2>2. ProcAlive(rec[r].claim)
    BY <2>1 DEF ProcAlive, Live
  <2> QED BY <2>2 DEF recordHasActiveRecoveryClaim, processLiveness
<1>5. Numbered' /\ Held'
  <2>1. Numbered'
    BY <1>1 DEF Numbered, ClaimInv
  <2>2. r \in 1..born
    BY DEF ClaimInv, Numbered
  <2> QED BY <1>1, <2>1, <2>2 DEF Held, ClaimInv, Live
<1>6. ClaimOnDisk'
  <2> SUFFICES ASSUME NEW d \in Csg, NEW q \in mem'[d].claimed, q \in files
               PROVE rec'[q].claim = d
    BY <1>1 DEF ClaimOnDisk
  <2> q \in Run
    BY DEF TypeOK
  <2>1. CASE q = r
    BY <1>3, <1>4, <2>1
  <2>2. CASE q # r
    BY <1>3, <2>2 DEF ClaimInv, ClaimOnDisk
  <2> QED BY <2>1, <2>2
<1>7. ClaimExclusive'
  BY <1>4 DEF ClaimExclusive, ClaimInv
<1> QED BY <1>5, <1>6, <1>7 DEF ClaimInv

\* Until it ends, a process does not pass through a label without claims.
LEMMA ClaimStep == ASSUME TypeOK, TypeOK', ClaimInv, NEW p \in Proc, StepOf(p)
                   PROVE ClaimInv'
<1> Grows
  BY StepEffect, StoreGrows DEF ClaimInv
<1> /\ pc[p] # "gone"
    /\ \A q \in Proc \ {p} : pc'[q] = pc[q] /\ mem'[q] = mem[q]
  BY Alone
<1> Csg \subseteq Proc /\ files \subseteq Run /\ rec \in [Run -> RunRecord]
  BY DEF Proc, TypeOK
<1> DEFINE quiet == /\ mem'[p].claimed \subseteq mem[p].claimed
                    /\ mem'[p].claimed = {} \/ pc'[p] \notin {"idle", "gone"}
           same  == \A r \in files \cap files' : rec'[r].claim = rec[r].claim
<1>1. ASSUME p \in Csg => quiet,
             \A r \in files \cap files' : rec'[r].claim = rec[r].claim
                \/ (rec[r].claim = p /\ r \notin mem'[p].claimed)
      PROVE  ClaimInv'
  <2>1. KeepsClaims
    <3> SUFFICES ASSUME NEW c \in Csg
                 PROVE /\ mem'[c].claimed \subseteq mem[c].claimed
                       /\ mem'[c].claimed # {} => Live(c)'
                       /\ \A r \in mem'[c].claimed \cap files \cap files' :
                            rec[r].claim = c => rec'[r].claim = c
      BY DEF KeepsClaims
    <3>1. CASE c = p
      BY <1>1, <3>1 DEF Live
    <3>2. CASE c # p
      BY <1>1, <3>2 DEF Live, ClaimInv, Held
    <3> QED BY <3>1, <3>2
  <2> QED BY <2>1, ClaimKept
<1>2. ASSUME UNCHANGED store PROVE same
  BY <1>2 DEF store
<1>3. ASSUME NEW r, NEW ok, removeRun(r, ok) PROVE same
  BY <1>3 DEF removeRun
<1>4. ASSUME p \in Csg, Return(p) PROVE quiet
  <2>1. CASE mem[p].cmd = "resume"
    <3>1. mem[p] \in Locals /\ pc \in [Proc -> Label] /\ mem \in [Proc -> Locals]
      BY DEF TypeOK
    <3>2. [mem[p] EXCEPT !.todo = mem[p].claimed].claimed = mem[p].claimed
      BY <3>1 DEF Locals
    <3> QED BY <1>4, <2>1, <3>1, <3>2 DEF Return, Go
  <2>2. CASE mem[p].cmd # "resume"
    BY <1>4, <2>2 DEF Return, Finish, Fresh, TypeOK
  <2> QED BY <2>1, <2>2
<1>5. ASSUME Finish(p) PROVE quiet
  BY <1>5 DEF Finish, Fresh, TypeOK
<1> pc \in [Proc -> Label] /\ mem \in [Proc -> Locals] /\ mem[p] \in Locals
  BY DEF TypeOK
<1>6. ASSUME p \in Csg, Supervise(p) PROVE quiet /\ same
  <2>1. CASE saveNewRun(p)
    <3>1. CASE UNCHANGED store /\ Return(p)
      BY <1>2, <1>4, <1>6, <3>1
    <3>2. CASE ~(UNCHANGED store /\ Return(p))
      <4>1. /\ born' = born + 1
            /\ rec' = [rec EXCEPT ![born'] = [Blank EXCEPT !.wrapper = p, !.session = mem[p].sid]]
            /\ Go(p, "start") /\ mem' = [mem EXCEPT ![p].own = born']
        BY <2>1, <3>2 DEF saveNewRun
      <4>2. born' \notin files
        BY <4>1 DEF ClaimInv, Numbered, TypeOK
      <4>3. same
        BY <4>1, <4>2
      <4>4. quiet
        BY <4>1 DEF Go, Locals
      <4> QED BY <4>3, <4>4
    <3> QED BY <3>1, <3>2
  <2>2. CASE startTarget(p) \/ assignProcessToJob(p) \/ resumeSuspendedProcess(p)
               \/ superviseProcess(p)
    BY <1>2, <2>2 DEF startTarget, assignProcessToJob, resumeSuspendedProcess, superviseProcess,
                      Go, Keep
  <2>3. CASE onStart(p)
    <3>1. quiet
      BY <2>3 DEF onStart, Go, Keep
    <3>2. PICK ok \in Attempt :
            mutateRun(mem[p].own, IF ok /\ mem[p].own \in files
                                  THEN [rec[mem[p].own] EXCEPT !.codex = "root"]
                                  ELSE rec[mem[p].own])
      BY <2>3 DEF onStart
    <3>3. \A r \in Run : [rec[r] EXCEPT !.codex = "root"].claim = rec[r].claim
      BY DEF RunRecord
    <3> QED BY <3>1, <3>2, <3>3 DEF mutateRun
  <2>4. CASE waitForSessionBinding(p)
    BY <1>2, <1>4, <1>6, <2>4 DEF waitForSessionBinding, Go, Keep
  <2>5. CASE removeOwnRun(p)
    BY <1>3, <1>4, <1>6, <2>5 DEF removeOwnRun
  <2> QED BY <1>6, <2>1, <2>2, <2>3, <2>4, <2>5 DEF Supervise
<1>7. ASSUME readDir(p) \/ readFile(p) PROVE (p \in Csg => quiet) /\ same
  <2>1. CASE readDir(p)
    <3>1. [mem[p] EXCEPT !.todo = files].claimed = mem[p].claimed
      BY DEF Locals
    <3> QED BY <1>2, <1>5, <2>1, <3>1 DEF readDir, Go
  <2>2. CASE readFile(p)
    <3>1. mem'[p].claimed = mem[p].claimed /\ pc'[p] = "scan"
      BY <2>2 DEF readFile, Locals
    <3> QED BY <1>2, <2>2, <3>1 DEF readFile
  <2> QED BY <1>7, <2>1, <2>2
<1>8. ASSUME p \in Csg, beginClassify(p) \/ classifyRecord(p) \/ endClassify(p)
      PROVE quiet /\ same
  <2>1. CASE beginClassify(p)
    <3>1. mem'[p].claimed = mem[p].claimed
      BY <2>1 DEF beginClassify, Locals
    <3> QED BY <1>2, <2>1, <3>1 DEF beginClassify, Go
  <2>2. CASE classifyRecord(p)
    <3>1. Finish(p) \/ (mem'[p].claimed = mem[p].claimed /\ pc'[p] = "classify")
      BY <2>2 DEF classifyRecord, Locals
    <3>2. UNCHANGED store \/ \E r, ok : removeRun(r, ok)
      BY <2>2 DEF classifyRecord
    <3> QED BY <1>2, <1>3, <1>5, <3>1, <3>2
  <2>3. CASE endClassify(p)
    <3>1. [mem[p] EXCEPT !.todo = Matches(p) \cap mem[p].crashed].claimed = mem[p].claimed
      BY DEF Locals
    <3> QED BY <1>2, <1>5, <2>3, <3>1 DEF endClassify, Go
  <2> QED BY <1>8, <2>1, <2>2, <2>3
<1>9. ASSUME p \in Csg, checkMatches(p) PROVE quiet /\ same
  <2>1. [mem[p] EXCEPT !.todo = Matches(p)].claimed = mem[p].claimed
    BY DEF Locals
  <2> QED BY <1>2, <1>5, <1>9, <2>1 DEF checkMatches, Go
<1>10. ASSUME p \in Csg, ReleaseClaims(p) PROVE quiet /\ same
  <2>1. [mem[p] EXCEPT !.todo = mem[p].claimed].claimed = mem[p].claimed
    BY DEF Locals
  <2> QED BY <1>2, <1>10, <2>1 DEF ReleaseClaims, Go
<1>11. ASSUME p \in Csg, removeClaimedRun(p) PROVE quiet /\ same
  <2>1. \/ ReleaseClaims(p)
        \/ Finish(p) /\ UNCHANGED <<store, tree>>
        \/ \E r \in mem[p].todo :
             /\ removeRun(r, TRUE) /\ UNCHANGED pc
             /\ mem' = [mem EXCEPT ![p].todo = @ \ {r}, ![p].claimed = @ \ {r}]
    BY <1>11 DEF removeClaimedRun
  <2>2. ASSUME NEW r, removeRun(r, TRUE), UNCHANGED pc,
               mem' = [mem EXCEPT ![p].todo = @ \ {r}, ![p].claimed = @ \ {r}]
        PROVE quiet /\ same
    <3>1. mem'[p].claimed = mem[p].claimed \ {r} /\ pc'[p] = "removeAll"
      BY <1>11, <2>2 DEF removeClaimedRun, Locals
    <3> QED BY <1>3, <2>2, <3>1
  <2> QED BY <1>2, <1>5, <1>10, <1>11, <2>1, <2>2
<1>12. ASSUME p \in Csg, releaseRunClaim(p) PROVE ClaimInv'
  <2>1. CASE Finish(p) /\ UNCHANGED <<store, tree>>
    BY <1>1, <1>2, <1>5, <2>1
  <2>2. CASE ~(Finish(p) /\ UNCHANGED <<store, tree>>)
    <3>1. PICK r \in mem[p].todo, ok \in Attempt :
            /\ mutateRun(r, IF ok /\ r \in files /\ rec[r].claim = p
                            THEN [rec[r] EXCEPT !.claim = NoProc] ELSE rec[r])
            /\ mem' = [mem EXCEPT ![p].todo = @ \ {r}, ![p].claimed = @ \ {r}]
            /\ UNCHANGED pc
      BY <1>12, <2>2 DEF releaseRunClaim
    <3>2. mem'[p].claimed = mem[p].claimed \ {r} /\ pc'[p] = "release"
      BY <1>12, <3>1 DEF releaseRunClaim, Locals
    <3>3. \A q \in files : rec'[q] = rec[q] \/ (q = r /\ rec[q].claim = p)
      BY <3>1 DEF mutateRun
    <3> QED BY <1>1, <3>2, <3>3
  <2> QED BY <2>1, <2>2
<1>13. ASSUME p \in Csg, claimRun(p) PROVE ClaimInv'
  <2>1. CASE Finish(p) /\ UNCHANGED <<store, tree>>
    BY <1>1, <1>2, <1>5, <2>1
  <2>2. CASE ~(Finish(p) /\ UNCHANGED <<store, tree>>)
    <3>1. PICK r \in files, blind \in Blind :
            /\ ~recordHasActiveRecoveryClaim(rec[r], blind)
            /\ mutateRun(r, [rec[r] EXCEPT !.claim = p])
            /\ Go(p, "save")
            /\ mem' = [mem EXCEPT ![p].claimed = {r}]
      BY <1>13, <2>2 DEF claimRun
    <3>2. mem'[p].claimed = {r} /\ pc'[p] = "save"
      BY <3>1 DEF Go, Locals
    <3> QED BY <1>13, <3>1, <3>2, ClaimTaken DEF Live
  <2> QED BY <2>1, <2>2
<1>14. ASSUME p \in Csg, claimRunForDelete(p) PROVE ClaimInv'
  <2>1. CASE ReleaseClaims(p)
    BY <1>1, <1>10, <1>14, <2>1
  <2>2. CASE Go(p, "removeAll") /\ mem' = [mem EXCEPT ![p].todo = mem[p].claimed]
                                /\ UNCHANGED <<store, tree>>
    <3>1. mem'[p].claimed = mem[p].claimed /\ pc'[p] = "removeAll"
      BY <2>2 DEF Go, Locals
    <3> QED BY <1>1, <1>2, <2>2, <3>1
  <2>3. CASE \E r \in mem[p].todo, ok \in Attempt, blind \in Blind :
               /\ r \in files /\ ~recordHasActiveRecoveryClaim(rec[r], blind)
               /\ mutateRun(r, [rec[r] EXCEPT !.claim = p])
               /\ mem' = [mem EXCEPT ![p].todo = @ \ {r}, ![p].claimed = @ \cup {r}]
               /\ UNCHANGED pc
    <3>1. PICK r \in files, blind \in Blind :
            /\ ~recordHasActiveRecoveryClaim(rec[r], blind)
            /\ mutateRun(r, [rec[r] EXCEPT !.claim = p])
            /\ mem' = [mem EXCEPT ![p].todo = @ \ {r}, ![p].claimed = @ \cup {r}]
            /\ UNCHANGED pc
      BY <2>3
    <3>2. mem'[p].claimed = mem[p].claimed \cup {r} /\ pc'[p] = "claimAll"
      BY <1>14, <3>1 DEF claimRunForDelete, Locals
    <3> QED BY <1>14, <3>1, <3>2, ClaimTaken DEF Live
  <2> QED BY <1>14, <2>1, <2>2, <2>3 DEF claimRunForDelete
<1>15. ASSUME p \in Hook, HookStep(p) PROVE same
  <2>1. CASE bindSession(p)
    <3> DEFINE r == mem[p].own
               codexOf(ancestor) == IF rec[r].codex = "none" THEN ancestor ELSE rec[r].codex
    <3>1. CASE UNCHANGED store
      BY <1>2, <3>1
    <3>2. CASE ~UNCHANGED store
      <4>1. r \in files
        BY <2>1, <3>2 DEF bindSession
      <4>2. PICK ancestor \in nearestCodexAncestor :
              rec' = [rec EXCEPT ![r] = [rec[r] EXCEPT !.session = mem[p].sid,
                                                       !.codex = codexOf(ancestor)]]
        BY <2>1, <3>2 DEF bindSession, mutateRun
      <4> HIDE DEF codexOf
      <4>3. rec[r] \in RunRecord
        BY <4>1
      <4>4. [rec[r] EXCEPT !.session = mem[p].sid, !.codex = codexOf(ancestor)].claim
              = rec[r].claim
        BY <4>3 DEF RunRecord
      <4> QED BY <4>1, <4>2, <4>4
    <3> QED BY <3>1, <3>2
  <2>2. CASE removeOlderDeadRecords(p)
    BY <1>2, <1>3, <2>2 DEF removeOlderDeadRecords
  <2>3. CASE beginSweep(p)
    BY <1>2, <2>3 DEF beginSweep
  <2> QED BY <1>7, <1>15, <2>1, <2>2, <2>3 DEF HookStep
<1>16. ASSUME p \in Csg, NEW cmd \in Commands, NEW sid \in Session \cup {NoSession},
              Invoke(p, cmd, sid)
       PROVE  quiet /\ same
  <2>1. mem'[p].claimed = mem[p].claimed /\ pc'[p] \in {"save", "readdir"}
    BY <1>16 DEF Invoke, Go, Locals
  <2> QED BY <1>2, <1>16, <2>1 DEF Invoke
<1>17. ASSUME p \in Hook, NEW r \in Run, NEW sid \in Session, hookMain(p, r, sid) PROVE same
  BY <1>2, <1>17 DEF hookMain
<1>18. CASE p \in Csg /\ CsgStep(p)
  BY <1>1, <1>6, <1>7, <1>8, <1>9, <1>11, <1>12, <1>13, <1>14, <1>18 DEF CsgStep
<1>19. CASE p \in Hook
  BY <1>1, <1>15, <1>17, <1>19 DEF StepOf
<1>20. CASE p \in Csg /\ ~CsgStep(p)
  BY <1>1, <1>16, <1>20 DEF StepOf
<1> QED BY <1>18, <1>19, <1>20 DEF Proc

LEMMA ClaimEnds == ASSUME TypeOK, TypeOK', ClaimInv, Ends PROVE ClaimInv'
<1>1. /\ UNCHANGED <<files, rec, born>>
      /\ \A c \in Csg : \/ pc'[c] = pc[c] /\ mem'[c] = mem[c]
                        \/ pc'[c] = "gone" /\ mem'[c].claimed = {}
  BY EndsEffect DEF store, Proc, Fresh
<1>2. Grows
  BY <1>1 DEF Grows, ClaimInv, Numbered, TypeOK
<1>3. KeepsClaims
  BY <1>1 DEF KeepsClaims, ClaimInv, Held, Live
<1> QED BY <1>2, <1>3, ClaimKept

LEMMA ClaimInit == Init => ClaimInv
<1> SUFFICES ASSUME Init PROVE ClaimInv
  OBVIOUS
<1>1. files = 1..born
  BY DEF Init
<1>2. \A c \in Csg : mem[c].claimed = {}
  BY DEF Init, Fresh, Proc
<1> QED BY <1>1, <1>2 DEF ClaimInv, Numbered, Held, ClaimOnDisk, ClaimExclusive

LEMMA ClaimNext == TypeOK /\ TypeOK' /\ ClaimInv /\ [Next]_vars => ClaimInv'
<1> SUFFICES ASSUME TypeOK, TypeOK', ClaimInv, [Next]_vars PROVE ClaimInv'
  OBVIOUS
<1>1. CASE UNCHANGED vars
  BY <1>1 DEF vars, ClaimInv, Numbered, Held, Live, ClaimOnDisk, ClaimExclusive
<1>2. CASE Next
  BY <1>2, Steps, ClaimStep, ClaimEnds
<1> QED BY <1>1, <1>2

\* However many processes resume and delete, whichever of their calls and
\* queries fail and whoever is killed: no record's recovery has two holders.
THEOREM Exclusion == Spec => []ClaimExclusive
<1>1. ClaimInv => ClaimExclusive
  BY DEF ClaimInv
<1> QED BY <1>1, ClaimInit, ClaimNext, Typing, PTL DEF Spec

\* ... and the claim of a process that holds one is the one on disk.
THEOREM ClaimsOnDisk == Spec => []ClaimOnDisk
<1>1. ClaimInv => ClaimOnDisk
  BY DEF ClaimInv
<1> QED BY <1>1, ClaimInit, ClaimNext, Typing, PTL DEF Spec

-----------------------------------------------------------------------------
(***************************************************************************)
(* The record of a running process tree is never removed, and what a scan  *)
(* took for crashed has no process left, where a supervisor is not killed  *)
(* alone or takes its tree with it.                                        *)
(***************************************************************************)

Active == {"start", "assign", "onstart", "resume", "wait"}
Owning == Active \cup {"remove", "unstarted", "binding", "discard", "unread"}

\* A supervisor has a run of its own,
Owns(c) == /\ mem[c].own \in 0..born
           /\ pc[c] \in Owning => mem[c].own # NoRun
Apart   == \A c, d \in Csg : mem[c].own = mem[d].own /\ mem[c].own # NoRun => c = d

\* whose record names it while it is at work,
Tracked(c) == pc[c] \in Active => mem[c].own \in files /\ rec[mem[c].own].wrapper = c

\* and no tree runs without one.
Owned == \A r \in Run : tree[r] \in Running =>
           \E c \in Csg : pc[c] \in {"onstart", "resume", "wait"} /\ mem[c].own = r

\* What a scan read may be old, but not in the supervisor it names.
Viewed(p) == /\ mem[p].saw \subseteq 1..born
             /\ \A r \in mem[p].saw \cap files : mem[p].view[r].wrapper = rec[r].wrapper

\* What each loop is about to visit.
Phased(p) == /\ pc[p] \in {"classify", "sweep"} => mem[p].todo \subseteq mem[p].saw
             /\ pc[p] = "claim" => mem[p].todo \subseteq mem[p].crashed
             /\ pc[p] = "removeAll" => mem[p].todo \subseteq mem[p].claimed

\* Candidates were read, and their supervisor was gone then, so it is now.
Candidates(c) == \A r \in mem[c].crashed :
                   r \in mem[c].saw /\ ~ProcAlive(mem[c].view[r].wrapper)

\* Nobody claims the record of a supervisor that is alive.
DeadHeld(c) == /\ mem[c].claimed \subseteq 1..born
               /\ \A r \in mem[c].claimed \cap files : ~ProcAlive(rec[r].wrapper)

RunInv  == (\A c \in Csg : Owns(c) /\ Tracked(c)) /\ Apart /\ Owned
ScanInv == /\ \A p \in Proc : Viewed(p) /\ Phased(p)
           /\ \A c \in Csg : Candidates(c) /\ DeadHeld(c)
IInv    == Numbered /\ RunInv /\ ScanInv

-----------------------------------------------------------------------------
(* What every step leaves as it is.                                        *)

Mortal == \A p \in Proc : pc[p] = "gone" => pc'[p] = "gone"
Spares == \A c \in Csg : pc[c] \in Active => mem[c].own \in files'

LEMMA Mortality == ASSUME TypeOK, Next PROVE Mortal
<1>1. ASSUME NEW p \in Proc, StepOf(p) PROVE Mortal
  BY <1>1, Alone DEF Mortal
<1>2. CASE Ends
  <2>1. \A p \in Proc : pc'[p] = pc[p] \/ pc'[p] = "gone"
    BY <1>2, EndsEffect
  <2> QED BY <2>1 DEF Mortal
<1> QED BY <1>1, <1>2, Steps

\* Who is gone does not come back.
LEMMA DeadStays == ASSUME Mortal, NEW w \in Csg \cup {NoProc}, ~ProcAlive(w)
                   PROVE ~ProcAlive(w)'
  BY DEF Mortal, ProcAlive, Proc

\* A process that is alive is not counted as dead.
LEMMA DeadWrapper == ASSUME NEW r, NEW record, NEW blind, ~recordIsAlive(r, record, blind)
                     PROVE  ~ProcAlive(record.wrapper)
<1>1. processLiveness(ProcAlive(record.wrapper), blind) = "dead"
  BY DEF recordIsAlive, recordProcessLiveness, processLiveness
<1> QED BY <1>1 DEF processLiveness

LEMMA OwnAlive == ASSUME RunInv, NEW c \in Csg, pc[c] \in Active
                  PROVE mem[c].own \in files /\ ProcAlive(rec[mem[c].own].wrapper)
<1>1. mem[c].own \in files /\ rec[mem[c].own].wrapper = c
  BY DEF RunInv, Tracked
<1>2. ProcAlive(c)
  BY DEF Active, ProcAlive
<1> QED BY <1>1, <1>2

LEMMA SparesStep == ASSUME TypeOK, IInv, NEW p \in Proc, StepOf(p) PROVE Spares
<1> SUFFICES ASSUME NEW c \in Csg, pc[c] \in Active PROVE mem[c].own \in files'
  BY DEF Spares
<1>1. mem[c].own \in files /\ ProcAlive(rec[mem[c].own].wrapper)
  BY OwnAlive DEF IInv
<1>2. ASSUME NEW r, NEW ok, removeRun(r, ok), r \in files => ~ProcAlive(rec[r].wrapper)
      PROVE  mem[c].own \in files'
  BY <1>1, <1>2 DEF removeRun
<1>3. ASSUME NEW r \in mem[p].saw, ~ProcAlive(mem[p].view[r].wrapper), r \in files
      PROVE  ~ProcAlive(rec[r].wrapper)
  BY <1>3 DEF IInv, ScanInv, Viewed
<1>4. CASE removeOwnRun(p) /\ p \in Csg
  <2>1. pc[p] \in Owning /\ pc[p] \notin Active
    BY <1>4 DEF removeOwnRun, Owning, Active
  <2>2. mem[p].own # mem[c].own
    BY <1>4, <2>1 DEF IInv, RunInv, Apart, Owns
  <2> QED BY <1>1, <1>4, <2>2 DEF removeOwnRun, removeRun
<1>5. CASE classifyRecord(p)
  <2>1. CASE UNCHANGED store
    BY <1>1, <2>1 DEF store
  <2>2. CASE ~UNCHANGED store
    <3>1. PICK r \in Newest(mem[p].todo), blind \in Blind, ok \in Attempt :
            removeRun(r, ok) /\ statusForRecord(r, mem[p].view[r], blind) = "CRASHED"
      BY <1>5, <2>2 DEF classifyRecord
    <3>2. r \in mem[p].saw
      BY <1>5 DEF Newest, classifyRecord, IInv, ScanInv, Phased
    <3>3. ~recordIsAlive(r, mem[p].view[r], blind)
      BY <3>1 DEF statusForRecord
    <3>4. ~ProcAlive(mem[p].view[r].wrapper)
      BY <3>3, DeadWrapper
    <3> QED BY <1>2, <1>3, <3>1, <3>2, <3>4
  <2> QED BY <2>1, <2>2
<1>6. CASE removeClaimedRun(p) /\ p \in Csg
  <2>1. CASE UNCHANGED store
    BY <1>1, <2>1 DEF store
  <2>2. CASE ~UNCHANGED store
    <3>1. PICK r \in mem[p].todo : removeRun(r, TRUE)
      BY <1>6, <2>2 DEF removeClaimedRun, ReleaseClaims
    <3>2. r \in mem[p].claimed
      BY <1>6 DEF removeClaimedRun, IInv, ScanInv, Phased
    <3>3. r \in files => ~ProcAlive(rec[r].wrapper)
      BY <1>6, <3>2 DEF IInv, ScanInv, DeadHeld
    <3> QED BY <1>2, <3>1, <3>3
  <2> QED BY <2>1, <2>2
<1>7. CASE removeOlderDeadRecords(p)
  <2>1. CASE UNCHANGED store
    BY <1>1, <2>1 DEF store
  <2>2. CASE ~UNCHANGED store
    <3>1. PICK r \in mem[p].todo, blind \in Blind, ok \in Attempt :
            removeRun(r, ok /\ ~recordIsAlive(r, mem[p].view[r], blind))
      BY <1>7, <2>2 DEF removeOlderDeadRecords
    <3>2. r \in mem[p].saw
      BY <1>7 DEF removeOlderDeadRecords, IInv, ScanInv, Phased
    <3>3. CASE recordIsAlive(r, mem[p].view[r], blind)
      BY <1>1, <3>1, <3>3 DEF removeRun
    <3>4. CASE ~recordIsAlive(r, mem[p].view[r], blind)
      BY <1>2, <1>3, <3>1, <3>2, <3>4, DeadWrapper
    <3> QED BY <3>3, <3>4
  <2> QED BY <2>1, <2>2
<1>8. ASSUME files \subseteq files' PROVE mem[c].own \in files'
  BY <1>1, <1>8
<1>9. CASE \/ saveNewRun(p) \/ startTarget(p) \/ assignProcessToJob(p) \/ onStart(p)
           \/ resumeSuspendedProcess(p) \/ superviseProcess(p) \/ waitForSessionBinding(p)
  BY <1>8, <1>9 DEF saveNewRun, startTarget, assignProcessToJob, onStart, resumeSuspendedProcess,
                    superviseProcess, waitForSessionBinding, mutateRun, store
<1>10. CASE \/ readDir(p) \/ readFile(p) \/ beginClassify(p) \/ endClassify(p)
            \/ checkMatches(p) \/ beginSweep(p)
  BY <1>8, <1>10 DEF readDir, readFile, beginClassify, endClassify, checkMatches, beginSweep,
                     store
<1>11. CASE claimRun(p) \/ releaseRunClaim(p) \/ claimRunForDelete(p) \/ bindSession(p)
  BY <1>8, <1>11 DEF claimRun, releaseRunClaim, claimRunForDelete, ReleaseClaims, bindSession,
                     mutateRun, store
<1>12. CASE \E cmd \in Commands, sid \in Session \cup {NoSession} : Invoke(p, cmd, sid)
  BY <1>8, <1>12 DEF Invoke, store
<1>13. CASE \E r \in Run, sid \in Session : hookMain(p, r, sid)
  BY <1>8, <1>13 DEF hookMain, store
<1>14. CASE p \in Csg /\ CsgStep(p)
  BY <1>4, <1>5, <1>6, <1>9, <1>10, <1>11, <1>14 DEF CsgStep, Supervise
<1>15. CASE p \in Hook /\ HookStep(p)
  BY <1>7, <1>10, <1>11, <1>15 DEF HookStep
<1> QED BY <1>12, <1>13, <1>14, <1>15 DEF StepOf

-----------------------------------------------------------------------------
(* The scan half of the invariant.                                         *)

\* What a process read stays as good as it was, whatever the others write.
LEMMA ScanKept ==
  ASSUME TypeOK, TypeOK', Numbered, Grows, Mortal, NEW p \in Proc, Viewed(p),
         mem'[p].saw = mem[p].saw, mem'[p].view = mem[p].view
  PROVE  Viewed(p)'
<1>1. mem[p].saw \subseteq 1..born /\ born \in Nat /\ born' \in Nat
  BY DEF Viewed, TypeOK
<1>2. \A r \in mem[p].saw \cap files' : r \in files /\ rec'[r].wrapper = rec[r].wrapper
  BY <1>1 DEF Grows
<1>3. mem'[p].saw \subseteq 1..(born')
  BY <1>1 DEF Grows
<1> QED BY <1>2, <1>3 DEF Viewed

LEMMA CandidatesKept ==
  ASSUME TypeOK, Mortal, NEW c \in Csg, Candidates(c),
         mem'[c].saw = mem[c].saw, mem'[c].view = mem[c].view,
         mem'[c].crashed \subseteq mem[c].crashed
  PROVE  Candidates(c)'
<1> SUFFICES ASSUME NEW r \in mem'[c].crashed
             PROVE r \in mem[c].saw /\ ~ProcAlive(mem[c].view[r].wrapper)'
  BY DEF Candidates, ProcAlive
<1>1. r \in mem[c].saw /\ ~ProcAlive(mem[c].view[r].wrapper)
  BY DEF Candidates
<1>2. mem[c].view[r].wrapper \in Csg \cup {NoProc}
  <2>1. mem[c] \in Locals /\ r \in Run
    BY <1>1 DEF TypeOK, Locals, Proc
  <2> QED BY <2>1 DEF Locals, RunRecord
<1> QED BY <1>1, <1>2 DEF Mortal, ProcAlive, Proc

LEMMA HeldKept ==
  ASSUME TypeOK, TypeOK', Grows, Mortal, NEW c \in Csg, DeadHeld(c),
         mem'[c].claimed \subseteq mem[c].claimed
  PROVE  DeadHeld(c)'
<1>1. born \in Nat /\ born' \in Nat /\ files \subseteq Run /\ rec \in [Run -> RunRecord]
  BY DEF TypeOK
<1>2. mem[c].claimed \subseteq 1..born
  BY DEF DeadHeld
<1>3. mem'[c].claimed \subseteq 1..(born')
  BY <1>1, <1>2 DEF Grows
<1>4. ASSUME NEW r \in mem'[c].claimed, r \in files' PROVE ~ProcAlive(rec[r].wrapper)'
  <2>1. r \in files /\ rec'[r].wrapper = rec[r].wrapper
    BY <1>1, <1>2, <1>4 DEF Grows
  <2>2. ~ProcAlive(rec[r].wrapper) /\ rec[r].wrapper \in Csg \cup {NoProc}
    BY <1>1, <1>4, <2>1 DEF DeadHeld, RunRecord
  <2> QED BY <2>1, <2>2 DEF Mortal, ProcAlive, Proc
<1> QED BY <1>3, <1>4 DEF DeadHeld, ProcAlive

\* The scan invariant of one process.
Scan(p) == Viewed(p) /\ Phased(p) /\ (p \in Csg => Candidates(p) /\ DeadHeld(p))

LEMMA Quiet ==
  ASSUME TypeOK, TypeOK', Numbered, Grows, Mortal, NEW p \in Proc, Scan(p), Phased(p)',
         mem'[p].saw = mem[p].saw, mem'[p].view = mem[p].view,
         p \in Csg => /\ mem'[p].crashed \subseteq mem[p].crashed
                      /\ mem'[p].claimed \subseteq mem[p].claimed
  PROVE  Scan(p)'
  BY ScanKept, CandidatesKept, HeldKept DEF Scan

LEMMA Ended == ASSUME NEW p \in Proc, pc'[p] = "gone", mem'[p] = Fresh PROVE Scan(p)'
<1>1. mem'[p].saw = {} /\ mem'[p].crashed = {} /\ mem'[p].claimed = {}
  BY DEF Fresh
<1> QED BY <1>1 DEF Scan, Viewed, Phased, Candidates, DeadHeld

LEMMA Bystander ==
  ASSUME TypeOK, TypeOK', Numbered, Grows, Mortal, NEW p \in Proc, Scan(p),
         pc'[p] = pc[p], mem'[p] = mem[p]
  PROVE  Scan(p)'
<1>1. Phased(p)'
  BY DEF Scan, Phased
<1> QED BY <1>1, Quiet

LEMMA ScanStep == ASSUME TypeOK, TypeOK', Numbered, Grows, Mortal,
                         NEW p \in Proc, Scan(p), StepOf(p)
                  PROVE  Scan(p)'
<1> /\ pc \in [Proc -> Label] /\ mem \in [Proc -> Locals] /\ mem[p] \in Locals
    /\ files \subseteq Run /\ rec \in [Run -> RunRecord]
  BY DEF TypeOK
<1> DEFINE reads == mem'[p].saw = mem[p].saw /\ mem'[p].view = mem[p].view
           same  == reads /\ mem'[p].crashed = mem[p].crashed
           keeps == same /\ mem'[p].claimed \subseteq mem[p].claimed
           free  == pc'[p] \notin {"classify", "sweep", "claim", "removeAll"}
<1>1. ASSUME Finish(p) PROVE Scan(p)'
  <2>1. pc'[p] = "gone" /\ mem'[p] = Fresh
    BY <1>1 DEF Finish, Go
  <2> QED BY <2>1, Ended
<1>2. ASSUME keeps, free PROVE Scan(p)'
  <2>1. Phased(p)'
    BY <1>2 DEF Phased
  <2> QED BY <1>2, <2>1, Quiet
<1>3. ASSUME keeps, Phased(p)' PROVE Scan(p)'
  BY <1>3, Quiet
<1>4. ASSUME NEW S, Go(p, "release"), mem' = [mem EXCEPT ![p].todo = S] PROVE Scan(p)'
  <2>1. keeps /\ free
    BY <1>4 DEF Go, Locals
  <2> QED BY <1>2, <2>1
<1>5. ASSUME Return(p) PROVE Scan(p)'
  BY <1>1, <1>4, <1>5 DEF Return
<1>6. ASSUME p \in Csg, Supervise(p) PROVE Scan(p)'
  <2>1. CASE saveNewRun(p) /\ ~Return(p)
    <3>1. Go(p, "start") /\ mem' = [mem EXCEPT ![p].own = born']
      BY <2>1 DEF saveNewRun
    <3>2. keeps /\ free
      BY <3>1 DEF Go, Locals
    <3> QED BY <1>2, <3>2
  <2>2. CASE startTarget(p) \/ assignProcessToJob(p) \/ onStart(p) \/ resumeSuspendedProcess(p)
               \/ superviseProcess(p)
    <3>1. free
      BY <2>2 DEF startTarget, assignProcessToJob, onStart, resumeSuspendedProcess,
                  superviseProcess, Go
    <3>2. keeps
      BY <2>2 DEF startTarget, assignProcessToJob, onStart, resumeSuspendedProcess,
                  superviseProcess, Keep
    <3> QED BY <1>2, <3>1, <3>2
  <2>3. CASE waitForSessionBinding(p) /\ ~Return(p)
    <3>1. keeps /\ free
      BY <2>3 DEF waitForSessionBinding, Go, Keep
    <3> QED BY <1>2, <3>1
  <2> QED BY <1>5, <1>6, <2>1, <2>2, <2>3 DEF Supervise, removeOwnRun
<1>7. CASE readDir(p)
  <2>1. CASE Finish(p)
    BY <1>1, <2>1
  <2>2. CASE ~Finish(p)
    <3>1. Go(p, "scan") /\ mem' = [mem EXCEPT ![p].todo = files]
      BY <1>7, <2>2 DEF readDir
    <3>2. keeps
      BY <3>1 DEF Locals
    <3>3. free
      BY <3>1 DEF Go
    <3> QED BY <1>2, <3>2, <3>3
  <2> QED BY <2>1, <2>2
<1>8. CASE readFile(p)
  <2> free
    BY <1>8 DEF readFile
  <2>1. PICK r \in mem[p].todo, ok \in Attempt :
          mem' = [mem EXCEPT ![p].todo = @ \ {r},
                             ![p].saw  = IF ok /\ r \in files THEN @ \cup {r} ELSE @,
                             ![p].view = IF ok /\ r \in files THEN [@ EXCEPT ![r] = rec[r]] ELSE @]
    BY <1>8 DEF readFile
  <2>2. CASE ~(ok /\ r \in files)
    <3>1. keeps
      BY <2>1, <2>2 DEF Locals
    <3> QED BY <1>2, <3>1
  <2>3. CASE ok /\ r \in files
    <3>1. /\ mem'[p].saw = mem[p].saw \cup {r}
          /\ mem'[p].view = [mem[p].view EXCEPT ![r] = rec[r]]
          /\ mem'[p].crashed = mem[p].crashed /\ mem'[p].claimed = mem[p].claimed
      BY <2>1, <2>3 DEF Locals
    <3>2. UNCHANGED store /\ UNCHANGED pc
      BY <1>8 DEF readFile
    <3>3. mem[p].view \in [Run -> RunRecord] /\ mem[p].saw \subseteq Run
      BY DEF Locals
    <3>4. \A q \in Run : mem'[p].view[q] = IF q = r THEN rec[r] ELSE mem[p].view[q]
      BY <3>1, <3>3
    <3>5. Viewed(p)'
      <4>1. mem'[p].saw \subseteq 1..born /\ files' = files /\ rec' = rec /\ born' = born
        BY <2>3, <3>1, <3>2 DEF Scan, Viewed, Numbered, store
      <4>2. \A q \in mem'[p].saw \cap files : mem'[p].view[q].wrapper = rec[q].wrapper
        BY <3>1, <3>3, <3>4 DEF Scan, Viewed
      <4> QED BY <4>1, <4>2 DEF Viewed
    <3>6. ASSUME p \in Csg PROVE Candidates(p)'
      <4> SUFFICES ASSUME NEW q \in mem[p].crashed
                   PROVE  q \in mem'[p].saw /\ mem'[p].view[q].wrapper = mem[p].view[q].wrapper
        BY <3>1, <3>2, <3>6 DEF Candidates, ProcAlive, Scan
      <4>1. q \in mem[p].saw
        BY <3>6 DEF Scan, Candidates
      <4>2. q = r => mem[p].view[q].wrapper = rec[q].wrapper
        BY <2>3, <4>1 DEF Scan, Viewed
      <4> QED BY <3>1, <3>3, <3>4, <4>1, <4>2
    <3>7. p \in Csg => DeadHeld(p)'
      BY <3>1, HeldKept DEF Scan
    <3>8. Phased(p)'
      BY DEF Phased
    <3> QED BY <3>5, <3>6, <3>7, <3>8 DEF Scan
  <2> QED BY <2>2, <2>3
<1>9. CASE p \in Csg /\ beginClassify(p)
  <2>1. Go(p, "classify") /\ mem' = [mem EXCEPT ![p].todo = mem[p].saw]
    BY <1>9 DEF beginClassify
  <2>2. keeps /\ mem'[p].todo = mem'[p].saw
    BY <2>1 DEF Locals
  <2>3. Phased(p)'
    BY <2>1, <2>2 DEF Go, Phased
  <2> QED BY <1>3, <2>2, <2>3
<1>10. CASE p \in Csg /\ classifyRecord(p) /\ ~Finish(p)
  <2>1. PICK r \in Newest(mem[p].todo), blind \in Blind :
          /\ UNCHANGED pc
          /\ \/ mem' = [mem EXCEPT ![p].todo = @ \ {r}]
             \/ mem' = [mem EXCEPT ![p].todo = @ \ {r}, ![p].crashed = @]
             \/ /\ statusForRecord(r, mem[p].view[r], blind) = "CRASHED"
                /\ mem' = [mem EXCEPT ![p].todo = @ \ {r}, ![p].crashed = @ \cup {r}]
    BY <1>10 DEF classifyRecord
  <2>2. r \in mem[p].saw /\ mem[p].todo \subseteq mem[p].saw /\ pc[p] = "classify"
    BY <1>10 DEF classifyRecord, Newest, Scan, Phased
  <2>3. reads /\ mem'[p].todo = mem[p].todo \ {r} /\ mem'[p].claimed = mem[p].claimed
    BY <2>1 DEF Locals
  <2>4. Phased(p)'
    BY <2>1, <2>2, <2>3 DEF Phased
  <2>5. Viewed(p)' /\ DeadHeld(p)'
    BY <1>10, <2>3, ScanKept, HeldKept DEF Scan
  <2>6. mem'[p].crashed = mem[p].crashed
        \/ /\ mem'[p].crashed = mem[p].crashed \cup {r}
           /\ ~ProcAlive(mem[p].view[r].wrapper)
    <3>1. statusForRecord(r, mem[p].view[r], blind) = "CRASHED"
            => ~ProcAlive(mem[p].view[r].wrapper)
      BY DeadWrapper DEF statusForRecord
    <3> QED BY <2>1, <3>1 DEF Locals
  <2>7. \A q \in mem'[p].crashed : q \in mem[p].saw /\ ~ProcAlive(mem[p].view[q].wrapper)
    BY <1>10, <2>2, <2>6 DEF Scan, Candidates
  <2>8. Candidates(p)'
    BY <2>1, <2>3, <2>7 DEF Candidates, ProcAlive
  <2> QED BY <2>4, <2>5, <2>8 DEF Scan
<1>11. CASE p \in Csg /\ endClassify(p) /\ ~Finish(p)
  <2>1. Go(p, "claim") /\ mem' = [mem EXCEPT ![p].todo = Matches(p) \cap mem[p].crashed]
    BY <1>11 DEF endClassify
  <2>2. keeps /\ mem'[p].todo \subseteq mem'[p].crashed
    BY <2>1 DEF Locals
  <2>3. Phased(p)'
    BY <2>1, <2>2 DEF Go, Phased
  <2> QED BY <1>3, <2>2, <2>3
\* A claim is taken on a record whose supervisor is gone.
<1>12. ASSUME p \in Csg, NEW r \in files, ~ProcAlive(rec[r].wrapper),
              mutateRun(r, [rec[r] EXCEPT !.claim = p]), same, free,
              mem'[p].claimed \subseteq mem[p].claimed \cup {r}
       PROVE  Scan(p)'
  <2>1. Viewed(p)' /\ Candidates(p)'
    BY <1>12, ScanKept, CandidatesKept DEF Scan
  <2>2. Phased(p)'
    BY <1>12 DEF Phased
  <2>3. DeadHeld(p)'
    <3>1. mem'[p].claimed \subseteq 1..born /\ born' = born /\ files' = files
      BY <1>12 DEF Scan, DeadHeld, Numbered, mutateRun
    <3>2. \A q \in mem'[p].claimed \cap files :
            rec'[q].wrapper = rec[q].wrapper /\ ~ProcAlive(rec[q].wrapper)
      BY <1>12, <3>1 DEF Scan, DeadHeld, Grows
    <3>3. \A q \in files : rec[q].wrapper \in Csg \cup {NoProc}
      BY DEF RunRecord
    <3> QED BY <3>1, <3>2, <3>3 DEF DeadHeld, Mortal, ProcAlive, Proc
  <2> QED BY <2>1, <2>2, <2>3 DEF Scan
<1>13. CASE p \in Csg /\ claimRun(p) /\ ~Finish(p)
  <2>1. PICK r \in mem[p].todo :
          /\ r \in files /\ mutateRun(r, [rec[r] EXCEPT !.claim = p])
          /\ Go(p, "save") /\ mem' = [mem EXCEPT ![p].claimed = {r}]
    BY <1>13 DEF claimRun
  <2>2. r \in mem[p].crashed
    BY <1>13 DEF claimRun, Scan, Phased
  <2>3. ~ProcAlive(rec[r].wrapper)
    BY <1>13, <2>1, <2>2 DEF Scan, Candidates, Viewed
  <2>4. same /\ mem'[p].claimed = {r}
    BY <2>1 DEF Locals
  <2>5. free
    BY <2>1 DEF Go
  <2> QED BY <1>12, <1>13, <2>1, <2>3, <2>4, <2>5
<1>14. CASE p \in Csg /\ releaseRunClaim(p) /\ ~Finish(p)
  <2>1. PICK r : /\ UNCHANGED pc
                 /\ mem' = [mem EXCEPT ![p].todo = @ \ {r}, ![p].claimed = @ \ {r}]
    BY <1>14 DEF releaseRunClaim
  <2>2. keeps /\ free
    BY <1>14, <2>1 DEF releaseRunClaim, Locals
  <2> QED BY <1>2, <2>2
<1>15. CASE p \in Csg /\ checkMatches(p) /\ ~Finish(p)
  <2>1. Go(p, "claimAll") /\ mem' = [mem EXCEPT ![p].todo = Matches(p)]
    BY <1>15 DEF checkMatches
  <2>2. keeps /\ free
    BY <2>1 DEF Go, Locals
  <2> QED BY <1>2, <2>2
<1>16. CASE ReleaseClaims(p)
  BY <1>4, <1>16 DEF ReleaseClaims
<1>17. CASE p \in Csg /\ claimRunForDelete(p) /\ ~ReleaseClaims(p)
  <2>1. CASE Go(p, "removeAll") /\ mem' = [mem EXCEPT ![p].todo = mem[p].claimed]
    <3>1. keeps /\ mem'[p].todo = mem'[p].claimed
      BY <2>1 DEF Locals
    <3>2. Phased(p)'
      BY <2>1, <3>1 DEF Go, Phased
    <3> QED BY <1>3, <3>1, <3>2
  <2>2. CASE \E r \in mem[p].todo, blind \in Blind :
               /\ r \in files /\ ~recordIsAlive(r, rec[r], blind)
               /\ mutateRun(r, [rec[r] EXCEPT !.claim = p]) /\ UNCHANGED pc
               /\ mem' = [mem EXCEPT ![p].todo = @ \ {r}, ![p].claimed = @ \cup {r}]
    <3>1. PICK r \in mem[p].todo, blind \in Blind :
               /\ r \in files /\ ~recordIsAlive(r, rec[r], blind)
               /\ mutateRun(r, [rec[r] EXCEPT !.claim = p]) /\ UNCHANGED pc
               /\ mem' = [mem EXCEPT ![p].todo = @ \ {r}, ![p].claimed = @ \cup {r}]
      BY <2>2
    <3>2. same /\ mem'[p].claimed = mem[p].claimed \cup {r}
      BY <3>1 DEF Locals
    <3>3. free
      BY <1>17, <3>1 DEF claimRunForDelete
    <3> QED BY <1>12, <1>17, <3>1, <3>2, <3>3, DeadWrapper
  <2> QED BY <1>17, <2>1, <2>2 DEF claimRunForDelete
<1>18. CASE p \in Csg /\ removeClaimedRun(p) /\ ~ReleaseClaims(p) /\ ~Finish(p)
  <2>1. PICK r : /\ UNCHANGED pc
                 /\ mem' = [mem EXCEPT ![p].todo = @ \ {r}, ![p].claimed = @ \ {r}]
    BY <1>18 DEF removeClaimedRun
  <2>2. keeps /\ mem'[p].todo = mem[p].todo \ {r} /\ mem'[p].claimed = mem[p].claimed \ {r}
    BY <2>1 DEF Locals
  <2>3. Phased(p)'
    BY <1>18, <2>1, <2>2 DEF removeClaimedRun, Scan, Phased
  <2> QED BY <1>3, <2>2, <2>3
<1>19. CASE bindSession(p) /\ ~Finish(p)
  <2>1. keeps /\ free
    BY <1>19 DEF bindSession, Go, Keep
  <2> QED BY <1>2, <2>1
<1>20. CASE beginSweep(p)
  <2>1. Go(p, "sweep") /\ mem' = [mem EXCEPT ![p].todo = Matches(p) \ {mem[p].own}]
    BY <1>20 DEF beginSweep
  <2>2. keeps /\ mem'[p].todo \subseteq mem'[p].saw
    BY <2>1 DEF Matches, Locals
  <2>3. Phased(p)'
    BY <2>1, <2>2 DEF Go, Phased
  <2> QED BY <1>3, <2>2, <2>3
<1>21. CASE removeOlderDeadRecords(p) /\ ~Finish(p)
  <2>1. PICK r : UNCHANGED pc /\ mem' = [mem EXCEPT ![p].todo = @ \ {r}]
    BY <1>21 DEF removeOlderDeadRecords
  <2>2. keeps /\ mem'[p].todo = mem[p].todo \ {r}
    BY <2>1 DEF Locals
  <2>3. Phased(p)'
    BY <1>21, <2>1, <2>2 DEF removeOlderDeadRecords, Scan, Phased
  <2> QED BY <1>3, <2>2, <2>3
<1>22. CASE \E cmd \in Commands, sid \in Session \cup {NoSession} : Invoke(p, cmd, sid)
  <2>1. PICK cmd, sid : /\ Go(p, IF cmd = "run" THEN "save" ELSE "readdir")
                        /\ mem' = [mem EXCEPT ![p].cmd = cmd, ![p].sid = sid]
    BY <1>22 DEF Invoke
  <2>2. keeps /\ free
    BY <2>1 DEF Go, Locals
  <2> QED BY <1>2, <2>2
<1>23. CASE \E r \in Run, sid \in Session : hookMain(p, r, sid)
  <2>1. PICK r, sid : /\ Go(p, "bind")
                      /\ mem' = [mem EXCEPT ![p].cmd = "hook", ![p].own = r, ![p].sid = sid]
    BY <1>23 DEF hookMain
  <2>2. keeps /\ free
    BY <2>1 DEF Go, Locals
  <2> QED BY <1>2, <2>2
<1>24. CASE p \in Csg /\ CsgStep(p)
  BY <1>1, <1>6, <1>7, <1>8, <1>9, <1>10, <1>11, <1>13, <1>14, <1>15, <1>16, <1>17, <1>18, <1>24
  DEF CsgStep
<1>25. CASE p \in Hook /\ HookStep(p)
  BY <1>1, <1>7, <1>8, <1>19, <1>20, <1>21, <1>25 DEF HookStep
<1> QED BY <1>22, <1>23, <1>24, <1>25 DEF StepOf

-----------------------------------------------------------------------------
(* The supervisors' half of the invariant.                                 *)

Guarding == {"onstart", "resume", "wait"}

LEMMA OwnedKept ==
  ASSUME Owned, \A r \in Run : tree'[r] \in Running => tree[r] \in Running,
         \A c \in Csg : pc[c] \in Guarding /\ tree'[mem[c].own] \in Running =>
                      pc'[c] \in Guarding /\ mem'[c].own = mem[c].own
  PROVE  Owned'
  BY DEF Owned, Guarding

\* No supervisor starts its work, and nobody takes another run for its own.
LEMMA RunKept ==
  ASSUME TypeOK, TypeOK', RunInv, Grows, Spares, Owned',
         \A c \in Csg : mem'[c].own \in {mem[c].own, NoRun},
         \A c \in Csg : pc'[c] \in Owning => pc[c] \in Owning /\ mem'[c].own = mem[c].own,
         \A c \in Csg : pc'[c] \in Active => pc[c] \in Active
  PROVE  RunInv'
<1> born \in Nat /\ born' \in Nat
  BY DEF TypeOK
<1>1. ASSUME NEW c \in Csg PROVE Owns(c)' /\ Tracked(c)'
  <2>1. Owns(c) /\ Tracked(c)
    BY DEF RunInv
  <2>2. mem'[c].own \in 0..(born')
    <3>1. mem[c].own \in 0..born /\ born <= born'
      BY <2>1 DEF Owns, Grows
    <3> QED BY <3>1 DEF NoRun
  <2>3. pc'[c] \in Owning => mem'[c].own # NoRun
    BY <2>1 DEF Owns
  <2>4. ASSUME pc'[c] \in Active
        PROVE  mem'[c].own \in files' /\ rec'[mem'[c].own].wrapper = c
    <3>1. pc[c] \in Active /\ mem'[c].own = mem[c].own
      BY <2>4 DEF Active, Owning
    <3>2. mem[c].own \in files \cap files' /\ rec[mem[c].own].wrapper = c
      BY <2>1, <3>1 DEF Tracked, Spares
    <3> QED BY <3>1, <3>2 DEF Grows
  <2> QED BY <2>2, <2>3, <2>4 DEF Owns, Tracked
<1>2. Apart'
  BY DEF RunInv, Apart
<1> QED BY <1>1, <1>2 DEF RunInv

LEMMA RunStep == ASSUME TypeOK, TypeOK', IInv, Grows, Spares, NEW p \in Proc, StepOf(p)
                 PROVE  RunInv'
<1> /\ pc \in [Proc -> Label] /\ mem \in [Proc -> Locals] /\ mem[p] \in Locals
    /\ tree \in [Run -> TreeState] /\ born \in Nat /\ born' \in Nat
    /\ Csg \subseteq Proc /\ Csg \cap Hook = {}
  BY DEF TypeOK, Proc
<1> RunInv /\ Owned /\ Numbered
  BY DEF IInv, RunInv
<1>0. \A q \in Proc \ {p} : pc'[q] = pc[q] /\ mem'[q] = mem[q]
  BY Alone
\* most steps are of a process that has no running tree, and leave the trees
<1>1. ASSUME tree' = tree,
             p \in Csg => /\ pc[p] \notin Guarding /\ pc'[p] \notin Owning
                          /\ mem'[p].own \in {mem[p].own, NoRun}
      PROVE  RunInv'
  <2>1. Owned'
    BY <1>0, <1>1, OwnedKept
  <2>2. \A c \in Csg : mem'[c].own \in {mem[c].own, NoRun}
    BY <1>0, <1>1
  <2>3. \A c \in Csg : pc'[c] \in Owning => pc[c] \in Owning /\ mem'[c].own = mem[c].own
    BY <1>0, <1>1
  <2>4. \A c \in Csg : pc'[c] \in Active => pc[c] \in Active
    BY <1>0, <1>1 DEF Active, Owning
  <2> QED BY <2>1, <2>2, <2>3, <2>4, RunKept
<1>2. ASSUME p \in Csg, pc[p] \in Owning, mem' = mem, Owned',
             pc'[p] \in Owning, pc'[p] \in Active => pc[p] \in Active
      PROVE  RunInv'
  <2>1. \A c \in Csg : mem'[c].own \in {mem[c].own, NoRun}
    BY <1>2
  <2>2. \A c \in Csg : pc'[c] \in Owning => pc[c] \in Owning /\ mem'[c].own = mem[c].own
    BY <1>0, <1>2
  <2>3. \A c \in Csg : pc'[c] \in Active => pc[c] \in Active
    BY <1>0, <1>2
  <2> QED BY <1>2, <2>1, <2>2, <2>3, RunKept
<1>3. ASSUME p \in Csg, Return(p) PROVE pc'[p] \notin Owning /\ mem'[p].own \in {mem[p].own, NoRun}
  <2>1. CASE mem[p].cmd = "resume"
    BY <1>3, <2>1 DEF Return, Go, Owning, Active, Locals
  <2>2. CASE mem[p].cmd # "resume"
    BY <1>3, <2>2 DEF Return, Finish, Go, Fresh, Owning, Active
  <2> QED BY <2>1, <2>2
<1>4. ASSUME p \in Csg, saveNewRun(p) PROVE RunInv'
  <2>1. CASE UNCHANGED <<store, tree>> /\ Return(p)
    BY <1>1, <1>3, <1>4, <2>1 DEF saveNewRun, Guarding
  <2>2. CASE ~(UNCHANGED <<store, tree>> /\ Return(p))
    <3>1. /\ born' = born + 1 /\ files' = files \cup {born'}
          /\ rec' = [rec EXCEPT ![born'] = [Blank EXCEPT !.wrapper = p, !.session = mem[p].sid]]
          /\ Go(p, "start") /\ mem' = [mem EXCEPT ![p].own = born'] /\ tree' = tree
          /\ born < MaxRuns
      BY <1>4, <2>2 DEF saveNewRun
    <3>2. mem'[p].own = born' /\ pc'[p] = "start"
      BY <3>1 DEF Go, Locals
    <3>3. Owned'
      BY <1>0, <1>4, <3>1, OwnedKept DEF saveNewRun, Guarding
    <3>4. \A c \in Csg : mem[c].own \in 0..born
      BY DEF RunInv, Owns
    <3>5. Apart'
      <4>1. \A c \in Csg \ {p} : mem'[c].own # born'
        BY <1>0, <3>1, <3>4
      <4> QED BY <1>0, <3>2, <4>1 DEF RunInv, Apart
    <3>6. Owns(p)' /\ Tracked(p)'
      <4>1. born' \in Run /\ rec \in [Run -> RunRecord]
        BY <3>1 DEF Run, TypeOK
      <4>2. rec'[born'].wrapper = p
        BY <3>1, <4>1 DEF Blank
      <4> QED BY <3>1, <3>2, <4>2 DEF Owns, Tracked, NoRun
    <3>7. ASSUME NEW c \in Csg \ {p} PROVE Owns(c)' /\ Tracked(c)'
      <4>1. pc'[c] = pc[c] /\ mem'[c] = mem[c] /\ Owns(c) /\ Tracked(c)
        BY <1>0 DEF RunInv
      <4>2. \A r \in files : r \in files' /\ rec'[r].wrapper = rec[r].wrapper
        BY <3>1 DEF Grows
      <4>3. mem[c].own \in 0..(born')
        BY <3>1, <3>4
      <4> QED BY <4>1, <4>2, <4>3 DEF Owns, Tracked
    <3> QED BY <3>3, <3>5, <3>6, <3>7 DEF RunInv
  <2> QED BY <2>1, <2>2
<1>5. ASSUME p \in Csg, startTarget(p) PROVE RunInv'
  <2>1. pc[p] = "start" /\ mem' = mem
    BY <1>5 DEF startTarget, Keep
  <2>2. PICK ok \in Attempt :
          /\ tree' = [tree EXCEPT ![mem[p].own] =
                        IF ~ok THEN "none" ELSE IF KillOnClose THEN "stray" ELSE "root"]
          /\ Go(p, IF ~ok THEN "unstarted" ELSE IF KillOnClose THEN "assign" ELSE "onstart")
    BY <1>5 DEF startTarget
  <2>3. pc'[p] = IF ~ok THEN "unstarted" ELSE IF KillOnClose THEN "assign" ELSE "onstart"
    BY <2>2 DEF Go
  <2>4. Owned'
    <3> SUFFICES ASSUME NEW r \in Run, tree'[r] \in Running
                 PROVE  \E c \in Csg : pc'[c] \in {"onstart", "resume", "wait"} /\ mem'[c].own = r
      BY DEF Owned
    <3>1. CASE r = mem[p].own
      <4>1. ok /\ ~KillOnClose
        BY <2>2, <3>1 DEF Running
      <4> QED BY <1>5, <2>1, <2>3, <3>1, <4>1
    <3>2. CASE r # mem[p].own
      <4>1. tree[r] \in Running
        BY <2>2, <3>2
      <4>2. PICK c \in Csg : pc[c] \in {"onstart", "resume", "wait"} /\ mem[c].own = r
        BY <4>1 DEF Owned
      <4> QED BY <1>0, <2>1, <3>2, <4>2
    <3> QED BY <3>1, <3>2
  <2> QED BY <1>2, <1>5, <2>1, <2>3, <2>4 DEF Owning, Active
<1>22. ASSUME p \in Csg, assignProcessToJob(p) PROVE RunInv'
  <2>1. pc[p] = "assign" /\ mem' = mem
    BY <1>22 DEF assignProcessToJob, Keep
  <2>2. \/ /\ tree' = [tree EXCEPT ![mem[p].own] = "suspended"] /\ pc'[p] = "onstart"
        \/ /\ tree' = [tree EXCEPT ![mem[p].own] = "dead"] /\ pc'[p] = "unstarted"
    BY <1>22 DEF assignProcessToJob, Go
  <2>3. Owned'
    <3> SUFFICES ASSUME NEW r \in Run, tree'[r] \in Running
                 PROVE  \E c \in Csg : pc'[c] \in {"onstart", "resume", "wait"} /\ mem'[c].own = r
      BY DEF Owned
    <3>1. CASE r = mem[p].own
      <4>1. pc'[p] = "onstart"
        BY <2>2, <3>1 DEF Running
      <4> QED BY <1>22, <2>1, <3>1, <4>1
    <3>2. CASE r # mem[p].own
      <4>1. tree[r] \in Running
        BY <2>2, <3>2
      <4>2. PICK c \in Csg : pc[c] \in {"onstart", "resume", "wait"} /\ mem[c].own = r
        BY <4>1 DEF Owned
      <4> QED BY <1>0, <2>1, <3>2, <4>2
    <3> QED BY <3>1, <3>2
  <2> QED BY <1>2, <1>22, <2>1, <2>2, <2>3 DEF Owning, Active
<1>6. ASSUME p \in Csg, onStart(p) PROVE RunInv'
  <2>1. /\ pc[p] = "onstart" /\ mem' = mem /\ tree' = tree
        /\ pc'[p] \in {"resume", "wait"}
    BY <1>6 DEF onStart, Keep, Go, mutateRun
  <2>2. Owned'
    BY <1>0, <2>1, OwnedKept DEF Guarding
  <2> QED BY <1>2, <1>6, <2>1, <2>2 DEF Owning, Active
<1>7. ASSUME p \in Csg, resumeSuspendedProcess(p) PROVE RunInv'
  <2>1. pc[p] = "resume" /\ mem' = mem
    BY <1>7 DEF resumeSuspendedProcess, Keep
  <2>2. \/ /\ tree[mem[p].own] = "suspended" /\ pc'[p] = "wait"
           /\ tree' = [tree EXCEPT ![mem[p].own] = "root"]
        \/ /\ tree' = [tree EXCEPT ![mem[p].own] = "dead"] /\ pc'[p] = "unstarted"
    BY <1>7 DEF resumeSuspendedProcess, Go
  <2>3. mem[p].own \in Run
    BY <1>7, <2>1 DEF RunInv, Owns, Owning, Active, Locals
  <2>4. /\ \A r \in Run : tree'[r] \in Running => tree[r] \in Running
        /\ pc'[p] = "wait" \/ tree'[mem[p].own] \notin Running
    BY <2>2, <2>3 DEF Running
  <2>5. Owned'
    BY <1>0, <2>1, <2>4, OwnedKept DEF Guarding
  <2> QED BY <1>2, <1>7, <2>1, <2>2, <2>5 DEF Owning, Active
<1>8. ASSUME p \in Csg, superviseProcess(p) PROVE RunInv'
  <2>1. /\ pc[p] = "wait" /\ mem' = mem /\ tree' = tree /\ tree[mem[p].own] = "dead"
        /\ pc'[p] \in {"remove", "binding"}
    BY <1>8 DEF superviseProcess, Keep, Go
  <2>2. Owned'
    BY <1>0, <2>1, OwnedKept DEF Guarding, Running
  <2> QED BY <1>2, <1>8, <2>1, <2>2 DEF Owning, Active
<1>9. ASSUME p \in Csg, waitForSessionBinding(p) PROVE RunInv'
  <2>1. pc[p] = "binding" /\ tree' = tree
    BY <1>9 DEF waitForSessionBinding
  <2>2. CASE Return(p)
    BY <1>1, <1>3, <1>9, <2>1, <2>2 DEF Guarding
  <2>3. CASE ~Return(p)
    <3>1. pc'[p] \in {"discard", "unread"} /\ mem' = mem
      BY <1>9, <2>3 DEF waitForSessionBinding, Keep, Go
    <3>2. Owned'
      BY <1>0, <2>1, <3>1, OwnedKept DEF Guarding
    <3> QED BY <1>2, <1>9, <2>1, <3>1, <3>2 DEF Owning, Active
  <2> QED BY <2>2, <2>3
<1>10. ASSUME p \in Csg, removeOwnRun(p) PROVE RunInv'
  <2>1. pc[p] \notin Guarding /\ tree' = tree
    BY <1>10 DEF removeOwnRun, removeRun, Guarding
  <2> QED BY <1>1, <1>3, <1>10, <2>1 DEF removeOwnRun
\* a scan, a listing, a claim or a delete
<1> DEFINE else == /\ tree' = tree /\ pc[p] \notin Guarding /\ pc'[p] \notin Owning
                   /\ mem'[p].own \in {mem[p].own, NoRun}
<1>11. ASSUME tree' = tree, pc[p] \notin Guarding, Finish(p) PROVE else
  BY <1>11 DEF Finish, Go, Fresh, Owning, Active
<1>12. ASSUME tree' = tree, pc[p] \notin Guarding, mem'[p].own = mem[p].own,
              pc'[p] \in {"save", "readdir", "scan", "classify", "claim", "claimAll",
                          "removeAll", "release", "bind", "sweep"}
       PROVE  else
  BY <1>12 DEF Owning, Active
<1>13. ASSUME readDir(p) \/ readFile(p) PROVE else
  <2>1. CASE readDir(p) /\ ~Finish(p)
    BY <1>12, <2>1 DEF readDir, Go, Guarding, Locals
  <2>2. CASE readFile(p)
    <3>1. mem'[p].own = mem[p].own
      BY <2>2 DEF readFile, Locals
    <3> QED BY <1>12, <2>2, <3>1 DEF readFile, Guarding
  <2>3. CASE readDir(p) /\ Finish(p)
    BY <1>11, <2>3 DEF readDir, Guarding
  <2> QED BY <1>13, <2>1, <2>2, <2>3
<1>14. ASSUME beginClassify(p) \/ classifyRecord(p) \/ endClassify(p) PROVE else
  <2>1. CASE beginClassify(p)
    <3>1. mem'[p].own = mem[p].own
      BY <2>1 DEF beginClassify, Locals
    <3> QED BY <1>12, <2>1, <3>1 DEF beginClassify, Scanned, Go, Guarding
  <2>2. CASE classifyRecord(p)
    <3>1. tree' = tree /\ pc[p] = "classify"
      BY <2>2 DEF classifyRecord, removeRun
    <3>2. Finish(p) \/ (mem'[p].own = mem[p].own /\ UNCHANGED pc)
      BY <2>2 DEF classifyRecord, Locals
    <3> QED BY <1>11, <1>12, <3>1, <3>2 DEF Guarding
  <2>3. CASE endClassify(p)
    <3>1. Finish(p) \/ (mem'[p].own = mem[p].own /\ pc'[p] = "claim")
      BY <2>3 DEF endClassify, Go, Locals
    <3> QED BY <1>11, <1>12, <2>3, <3>1 DEF endClassify, Guarding
  <2> QED BY <1>14, <2>1, <2>2, <2>3
<1>15. ASSUME claimRun(p) \/ releaseRunClaim(p) PROVE else
  <2>1. CASE claimRun(p)
    <3>1. tree' = tree /\ pc[p] = "claim"
      BY <2>1 DEF claimRun, mutateRun
    <3>2. Finish(p) \/ (mem'[p].own = mem[p].own /\ pc'[p] = "save")
      BY <2>1 DEF claimRun, Go, Locals
    <3> QED BY <1>11, <1>12, <3>1, <3>2 DEF Guarding
  <2>2. CASE releaseRunClaim(p)
    <3>1. tree' = tree /\ pc[p] = "release"
      BY <2>2 DEF releaseRunClaim, mutateRun
    <3>2. ASSUME ~Finish(p) PROVE mem'[p].own = mem[p].own /\ pc' = pc
      <4>1. PICK r : /\ UNCHANGED pc
                     /\ mem' = [mem EXCEPT ![p].todo = @ \ {r}, ![p].claimed = @ \ {r}]
        BY <2>2, <3>2 DEF releaseRunClaim
      <4> QED BY <4>1 DEF Locals
    <3> QED BY <1>11, <1>12, <3>1, <3>2 DEF Guarding
  <2> QED BY <1>15, <2>1, <2>2
<1>16. ASSUME checkMatches(p) \/ claimRunForDelete(p) \/ removeClaimedRun(p) PROVE else
  <2>1. CASE checkMatches(p)
    <3>1. Finish(p) \/ (mem'[p].own = mem[p].own /\ pc'[p] = "claimAll")
      BY <2>1 DEF checkMatches, Go, Locals
    <3> QED BY <1>11, <1>12, <2>1, <3>1 DEF checkMatches, Scanned, Guarding
  <2>2. ASSUME ReleaseClaims(p) PROVE tree' = tree /\ mem'[p].own = mem[p].own /\ pc'[p] = "release"
    BY <2>2 DEF ReleaseClaims, Go, Locals
  <2>3. CASE claimRunForDelete(p)
    <3>1. tree' = tree /\ pc[p] = "claimAll"
      BY <2>3 DEF claimRunForDelete, ReleaseClaims, mutateRun
    <3>2. CASE Go(p, "removeAll") /\ mem' = [mem EXCEPT ![p].todo = mem[p].claimed]
      <4>1. mem'[p].own = mem[p].own /\ pc'[p] = "removeAll"
        BY <3>2 DEF Go, Locals
      <4> QED BY <1>12, <3>1, <4>1 DEF Guarding
    <3>3. CASE \E r : /\ UNCHANGED pc
                      /\ mem' = [mem EXCEPT ![p].todo = @ \ {r}, ![p].claimed = @ \cup {r}]
      <4>1. mem'[p].own = mem[p].own /\ pc'[p] = "claimAll"
        BY <3>1, <3>3 DEF Locals
      <4> QED BY <1>12, <3>1, <4>1 DEF Guarding
    <3>4. CASE ReleaseClaims(p)
      BY <1>12, <2>2, <3>1, <3>4 DEF Guarding
    <3> QED BY <2>3, <3>2, <3>3, <3>4 DEF claimRunForDelete
  <2>4. CASE removeClaimedRun(p)
    <3>1. tree' = tree /\ pc[p] = "removeAll"
      BY <2>4 DEF removeClaimedRun, ReleaseClaims, removeRun
    <3>2. CASE \E r : /\ UNCHANGED pc
                      /\ mem' = [mem EXCEPT ![p].todo = @ \ {r}, ![p].claimed = @ \ {r}]
      <4>1. mem'[p].own = mem[p].own /\ pc'[p] = "removeAll"
        BY <3>1, <3>2 DEF Locals
      <4> QED BY <1>12, <3>1, <4>1 DEF Guarding
    <3>3. CASE ReleaseClaims(p)
      BY <1>12, <2>2, <3>1, <3>3 DEF Guarding
    <3>4. CASE Finish(p)
      BY <1>11, <3>1, <3>4 DEF Guarding
    <3> QED BY <2>4, <3>2, <3>3, <3>4 DEF removeClaimedRun
  <2> QED BY <1>16, <2>1, <2>3, <2>4
<1>17. ASSUME NEW cmd, NEW sid, Invoke(p, cmd, sid) PROVE else
  <2>1. mem'[p].own = mem[p].own /\ pc'[p] \in {"save", "readdir"}
    BY <1>17 DEF Invoke, Go, Locals
  <2> QED BY <1>12, <1>17, <2>1 DEF Invoke, Guarding
<1>18. ASSUME bindSession(p) \/ beginSweep(p) \/ removeOlderDeadRecords(p)
              \/ \E r \in Run, sid \in Session : hookMain(p, r, sid)
       PROVE  tree' = tree
  BY <1>18 DEF bindSession, beginSweep, removeOlderDeadRecords, hookMain, mutateRun, removeRun
<1>19. CASE p \in Csg /\ CsgStep(p)
  <2>1. CASE Supervise(p)
    BY <1>4, <1>5, <1>6, <1>7, <1>8, <1>9, <1>10, <1>19, <1>22, <2>1 DEF Supervise
  <2>2. CASE ~Supervise(p)
    BY <1>1, <1>13, <1>14, <1>15, <1>16, <1>19, <2>2 DEF CsgStep
  <2> QED BY <2>1, <2>2
<1>20. CASE p \in Csg /\ ~CsgStep(p)
  BY <1>1, <1>17, <1>20 DEF StepOf
<1>21. CASE p \in Hook
  BY <1>1, <1>13, <1>18, <1>21 DEF StepOf, HookStep
<1> QED BY <1>19, <1>20, <1>21 DEF Proc

-----------------------------------------------------------------------------
(* Processes and trees end.                                                *)

\* The trees of R end, among them those that the supervisors that end guard.
LEMMA RunDie ==
  ASSUME TypeOK, TypeOK', RunInv, Grows, Spares, NEW P, NEW R, Die(P, R),
         \A c \in Csg \cap P : pc[c] \in Guarding => mem[c].own \in R \cup {NoRun}
  PROVE  RunInv'
<1>1. \A c \in Csg : \/ c \notin P /\ pc'[c] = pc[c] /\ mem'[c] = mem[c]
                     \/ c \in P /\ pc'[c] = "gone" /\ mem'[c].own = NoRun
  BY DEF Die, Fresh, Proc
<1>2. \A r \in Run : /\ tree'[r] \in Running => tree[r] \in Running
                     /\ r \in R => tree'[r] \notin Running
  BY DEF Die, Running
<1>3. Owned'
  <2> SUFFICES ASSUME NEW r \in Run, tree'[r] \in Running
               PROVE  \E c \in Csg : pc'[c] \in {"onstart", "resume", "wait"} /\ mem'[c].own = r
    BY DEF Owned
  <2>1. PICK c \in Csg : pc[c] \in {"onstart", "resume", "wait"} /\ mem[c].own = r
    BY <1>2 DEF RunInv, Owned
  <2>2. c \notin P
    <3>1. r \notin R \cup {NoRun}
      BY <1>2 DEF Run, NoRun
    <3> QED BY <2>1, <3>1 DEF Guarding
  <2> QED BY <1>1, <2>1, <2>2
<1>4. \A c \in Csg : /\ mem'[c].own \in {mem[c].own, NoRun}
                     /\ pc'[c] \in Owning => pc[c] \in Owning /\ mem'[c].own = mem[c].own
                     /\ pc'[c] \in Active => pc[c] \in Active
  BY <1>1 DEF Owning, Active
<1> QED BY <1>3, <1>4, RunKept

LEMMA RunEnds == ASSUME TypeOK, TypeOK', RunInv, Grows, Spares, Ends, KillOnClose \/ ~LoneKill
                 PROVE  RunInv'
<1>1. CASE \E r \in Run : RootExits(r)
  <2>1. /\ pc' = pc /\ mem' = mem
        /\ \A r \in Run : tree'[r] \in Running => tree[r] \in Running
    BY <1>1 DEF RootExits, Running, TypeOK
  <2>2. Owned'
    BY <2>1, OwnedKept DEF RunInv
  <2> QED BY <2>1, <2>2, RunKept
<1>2. CASE \E r \in Run : TreeDies(r)
  BY <1>2, RunDie DEF TreeDies
<1>3. CASE \E p \in Proc : Kill(p)
  <2>1. PICK p \in Proc : Die({p}, IF p \in Csg /\ pc[p] # "assign" THEN {mem[p].own} ELSE {})
    BY <1>3 DEF Kill
  <2>2. \A c \in Csg \cap {p} : pc[c] \in Guarding => p \in Csg /\ pc[p] # "assign"
    BY DEF Guarding
  <2> QED BY <2>1, <2>2, RunDie
<1>4. CASE Reboot
  <2>1. Die({p \in Proc : Live(p)}, Run)
    BY <1>4 DEF Reboot
  <2>2. \A c \in Csg : mem[c].own \in Run \cup {NoRun}
    BY DEF TypeOK, Locals, Proc
  <2> QED BY <2>1, <2>2, RunDie
<1> QED BY <1>1, <1>2, <1>3, <1>4 DEF Ends

-----------------------------------------------------------------------------
(* The invariant and the theorems.                                         *)

LEMMA TrackingInit == Init => IInv
<1> SUFFICES ASSUME Init PROVE IInv
  OBVIOUS
<1>1. files = 1..Leftover /\ born = Leftover /\ born \in Nat
  <2>1. files = 1..Leftover /\ born = Leftover
    BY DEF Init
  <2> QED BY <2>1
<1> \A p \in Proc : pc[p] = "idle" /\ mem[p] = Fresh
  BY DEF Init
<1> \A r \in Run : tree[r] \notin Running
  <2>1. tree = [r \in Run |-> IF r \in 1..Leftover THEN "dead" ELSE "none"]
    BY DEF Init
  <2> QED BY <2>1 DEF Running
<1>2. \A p \in Proc : /\ mem[p].own = NoRun /\ mem[p].saw = {}
                      /\ mem[p].crashed = {} /\ mem[p].claimed = {}
  BY <1>1 DEF Fresh
<1>3. RunInv
  BY <1>1, <1>2 DEF RunInv, Owns, Tracked, Apart, Owned, Owning, Active, NoRun, Proc
<1>4. ScanInv
  BY <1>1, <1>2 DEF ScanInv, Viewed, Phased, Candidates, DeadHeld, Proc
<1> QED BY <1>1, <1>3, <1>4 DEF IInv, Numbered

LEMMA TrackingNext == ASSUME KillOnClose \/ ~LoneKill
                      PROVE  TypeOK /\ TypeOK' /\ IInv /\ [Next]_vars => IInv'
<1> SUFFICES ASSUME TypeOK, TypeOK', IInv, [Next]_vars PROVE IInv'
  OBVIOUS
<1>1. CASE UNCHANGED vars
  BY <1>1 DEF vars, IInv, Numbered, RunInv, Owns, Tracked, Apart, Owned,
              ScanInv, Viewed, Phased, Candidates, DeadHeld, ProcAlive
<1>2. CASE Next
  <2>1. Mortal
    BY <1>2, Mortality
  <2>2. ASSUME NEW p \in Proc, StepOf(p) PROVE IInv'
    <3>1. Grows /\ Spares
      BY <2>2, StepEffect, StoreGrows, SparesStep DEF IInv
    <3>2. RunInv'
      BY <2>2, <3>1, RunStep
    <3>3. \A q \in Proc : Scan(q)'
      <4>1. Scan(p)'
        <5>1. Scan(p) /\ Numbered
          BY DEF IInv, ScanInv, Scan
        <5> QED BY <2>1, <2>2, <3>1, <5>1, ScanStep
      <4>2. ASSUME NEW q \in Proc \ {p} PROVE Scan(q)'
        <5>1. pc'[q] = pc[q] /\ mem'[q] = mem[q] /\ Scan(q)
          BY <2>2, Alone DEF IInv, ScanInv, Scan
        <5> QED BY <2>1, <3>1, <5>1, Bystander DEF IInv
      <4> QED BY <4>1, <4>2
    <3>4. ScanInv'
      BY <3>3 DEF ScanInv, Scan, Proc
    <3>5. Numbered'
      BY <3>1 DEF Grows, Numbered
    <3> QED BY <3>2, <3>4, <3>5 DEF IInv
  <2>3. CASE Ends
    <3>1. UNCHANGED <<files, rec, born>>
      BY <2>3, EndsEffect DEF store
    <3>2. Grows
      BY <3>1 DEF Grows, IInv, Numbered, TypeOK
    <3>3. Spares
      BY <3>1 DEF Spares, IInv, RunInv, Tracked
    <3>4. RunInv'
      BY <2>3, <3>2, <3>3, RunEnds DEF IInv
    <3>5. ASSUME NEW q \in Proc PROVE Scan(q)'
      <4>1. Scan(q)
        BY DEF IInv, ScanInv, Scan
      <4>2. CASE pc'[q] = pc[q] /\ mem'[q] = mem[q]
        BY <2>1, <3>2, <4>1, <4>2, Bystander DEF IInv
      <4>3. CASE pc'[q] = "gone" /\ mem'[q] = Fresh
        BY <4>3, Ended
      <4> QED BY <2>3, <4>2, <4>3, EndsEffect
    <3>6. ScanInv'
      BY <3>5 DEF ScanInv, Scan, Proc
    <3> QED BY <3>1, <3>4, <3>6 DEF IInv, Numbered
  <2> QED BY <1>2, <2>2, <2>3, Steps
<1> QED BY <1>1, <1>2

LEMMA TrackedTrees == TypeOK /\ IInv => ActiveTracked /\ CrashedIsDead
<1> SUFFICES ASSUME TypeOK, IInv PROVE ActiveTracked /\ CrashedIsDead
  OBVIOUS
<1>1. ASSUME NEW r \in Run, tree[r] \in Running PROVE r \in files /\ ProcAlive(rec[r].wrapper)
  <2>1. PICK c \in Csg : pc[c] \in {"onstart", "resume", "wait"} /\ mem[c].own = r
    BY <1>1 DEF IInv, RunInv, Owned
  <2>2. pc[c] \in Active
    BY <2>1 DEF Active
  <2> QED BY <2>1, <2>2, OwnAlive DEF IInv
<1>2. CrashedIsDead
  <2> SUFFICES ASSUME NEW c \in Csg, NEW r \in mem[c].crashed, tree[r] \in Running
               PROVE  FALSE
    BY DEF CrashedIsDead
  <2>1. r \in mem[c].saw /\ ~ProcAlive(mem[c].view[r].wrapper)
    BY DEF IInv, ScanInv, Candidates
  <2>2. r \in Run
    BY DEF TypeOK, Locals, Proc
  <2>3. mem[c].view[r].wrapper = rec[r].wrapper
    BY <1>1, <2>1, <2>2 DEF IInv, ScanInv, Viewed, Proc
  <2> QED BY <1>1, <2>1, <2>2, <2>3
<1> QED BY <1>1, <1>2 DEF ActiveTracked

\* Where a supervisor does not die without its tree, the record of a running
\* tree stays on disk, whatever the listings, hooks, resumes and deletes of
\* any number of processes find and remove.
THEOREM Tracking == ASSUME KillOnClose \/ ~LoneKill PROVE Spec => []ActiveTracked
<1>1. Spec => [](TypeOK /\ IInv)
  BY TrackingInit, TrackingNext, Typing, PTL DEF Spec
<1> QED BY <1>1, TrackedTrees, PTL

\* ... and no process has a running tree among the sessions it shows as
\* CRASHED or takes for resumable, from however old a scan.
THEOREM CrashedAreDead == ASSUME KillOnClose \/ ~LoneKill PROVE Spec => []CrashedIsDead
<1>1. Spec => [](TypeOK /\ IInv)
  BY TrackingInit, TrackingNext, Typing, PTL DEF Spec
<1> QED BY <1>1, TrackedTrees, PTL
=============================================================================
