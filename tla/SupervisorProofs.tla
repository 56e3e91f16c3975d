-------------------------- MODULE SupervisorProofs --------------------------
(***************************************************************************)
(* The supervisor, for any number of sessions a launcher starts.           *)
(***************************************************************************)
EXTENDS Supervisor, TLAPS

Behind == {"alive", "sample", "check", "return", "done"}

\* Once the supervisor has seen the root exit, it stays so, and it returns
\* only when the rest of the tree has ended too or has been sent a kill.
Waited ==
  /\ pc \in Behind => root # "running"
  /\ root = "running" => ~verdict.detached
  /\ pc \in {"return", "done"} => ~CodexAlive \/ killed
  /\ killed => pc \in {"return", "done", "dead"}

\* How the root of a launcher that waits has exited, and why.
Foreground ==
  ~detaching =>
    /\ root = "ok" => ~CodexAlive /\ ~verdict.detached
    /\ root # "running" /\ ~sigint => ~CodexAlive /\ root \in StatusOf(fate)

\* Nobody has seen an interrupt that the tree has not received.
Noticed == fate = "interrupted" \/ root = "sigint" \/ interrupted \/ verdict.interrupted => sigint

\* The result is what cleanExit says, and is not said before.
Decided ==
  /\ pc = "done" => (result = "clean" <=> cleanExit)
  /\ pc # "done" => result = "none"

\* A deadline is set for a failed root or an ended session, and the first
\* session has not ended while its Codex runs.
Deadlines ==
  /\ deadline # "none" => forceStop \/ ended
  /\ pc \in {"onstart", "wait"} => deadline = "none"
  /\ started = 0 => codex = "absent" /\ ~ended
  /\ started = 1 /\ ended => codex # "running"

IInv == TypeOK /\ Waited /\ Foreground /\ Noticed /\ Decided /\ Deadlines

USE SessionAssumption, SwitchAssumption

Verdict == [interrupted : BOOLEAN, detached : BOOLEAN, sessionEnded : BOOLEAN]

LEMMA TypesStart == Init => TypeOK
<1> SUFFICES ASSUME Init PROVE TypeOK
  OBVIOUS
<1>1. verdict \in Verdict  BY DEF Init, Verdict
<1>2. /\ detaching \in BOOLEAN /\ sigint \in BOOLEAN /\ ended \in BOOLEAN
      /\ pending \in BOOLEAN /\ killed \in BOOLEAN /\ interrupted \in BOOLEAN /\ forceStop \in BOOLEAN
  BY DEF Init
<1>3. started \in 0..MaxSessions  BY DEF Init
<1> QED BY <1>1, <1>2, <1>3 DEF Init, TypeOK, Verdict

LEMMA Start == Init => IInv
<1> SUFFICES ASSUME Init PROVE IInv
  OBVIOUS
<1>1. TypeOK  BY TypesStart
<1> QED BY <1>1 DEF Init, IInv, Waited, Foreground, Noticed, Decided, Deadlines, CodexAlive, Behind,
        StatusOf, cleanExit

LEMMA TypesKeep == TypeOK /\ [Next]_vars => TypeOK'
<1> SUFFICES ASSUME TypeOK, [Next]_vars PROVE TypeOK'
  OBVIOUS
<1> USE DEF TypeOK
<1>1. CASE StartCodex  BY <1>1 DEF StartCodex, supervisor
<1>2. CASE SessionEnd  BY <1>2 DEF SessionEnd, supervisor
<1>3. CASE CodexEnds   BY <1>3 DEF CodexEnds, supervisor
<1>4. CASE RootExits   BY <1>4 DEF RootExits, StatusOf, InterruptedExit, supervisor
<1>5. CASE Interrupt
  <2>1. pending' \in BOOLEAN /\ sigint' \in BOOLEAN  BY <1>5 DEF Interrupt
  <2> QED BY <2>1, <1>5 DEF Interrupt
<1>14. CASE InterruptKills
  <2>1. /\ sigint' \in BOOLEAN
        /\ root' \in {"running", "ok", "failed", "sigint"}
        /\ codex' \in {"absent", "running", "ending", "gone"}
        /\ fate' \in {"none", "exited", "interrupted", "crashed", "stopped"}
    BY <1>14 DEF InterruptKills
  <2> QED BY <2>1, <1>14 DEF InterruptKills
<1>15. CASE noteInterrupt
  <2>1. pending' \in BOOLEAN /\ sigint' \in BOOLEAN /\ interrupted' \in BOOLEAN
    BY <1>15 DEF noteInterrupt
  <2> QED BY <2>1, <1>15 DEF noteInterrupt
<1>6. CASE notifySignals  BY <1>6 DEF notifySignals, tree
<1>7. CASE waitRoot
  <2>1. PICK stopped \in BOOLEAN :
          verdict' = [verdict EXCEPT !.interrupted = stopped] /\ forceStop' = (root # "ok" \/ stopped)
    BY <1>7 DEF waitRoot
  <2>2. verdict' \in Verdict  BY <2>1 DEF Verdict
  <2>3. forceStop' \in BOOLEAN  BY <2>1
  <2> QED BY <1>7, <2>2, <2>3 DEF waitRoot, tree, Verdict
<1>8. CASE checkDetached
  <2>1. verdict' \in Verdict  BY <1>8 DEF checkDetached, processResult, Verdict
  <2>2. /\ pc' \in {"sample", "return"} /\ deadline' \in {"none", "ahead", "passed"}
        /\ UNCHANGED <<platform, tree, pending, interrupted, forceStop, killed, result>>
    BY <1>8 DEF checkDetached
  <2> QED BY <2>1, <2>2 DEF tree, Verdict
<1>9. CASE sampleSessionEnd  BY <1>9 DEF sampleSessionEnd, tree
<1>10. CASE checkGroup
  <2>1. verdict' \in Verdict  BY <1>10 DEF checkGroup, processResult, Verdict
  <2>2. killed' \in BOOLEAN  BY <1>10 DEF checkGroup, GroupAlive, CodexAlive
  <2>3. /\ pc' \in {"sample", "return"}
        /\ UNCHANGED <<platform, tree, pending, interrupted, forceStop, deadline, result>>
    BY <1>10 DEF checkGroup
  <2> QED BY <2>1, <2>2, <2>3 DEF tree, Verdict
<1>11. CASE classifyExit  BY <1>11 DEF classifyExit, tree
<1>12. CASE Tick  BY <1>12 DEF Tick, tree
<1>13. CASE UNCHANGED vars  BY <1>13 DEF vars
<1> QED BY <1>1, <1>2, <1>3, <1>4, <1>5, <1>6, <1>7, <1>8, <1>9, <1>10, <1>11, <1>12, <1>13,
        <1>14, <1>15 DEF Next, Supervise

-----------------------------------------------------------------------------
(* Each part is kept by every step.                                        *)

\* Nobody starts Codex again once the root has exited.
LEMMA WaitedKeeps == TypeOK /\ Waited /\ [Next]_vars => Waited'
<1> SUFFICES ASSUME TypeOK, Waited, [Next]_vars PROVE Waited'
  OBVIOUS
<1> USE DEF TypeOK, Waited, Behind, CodexAlive, GroupAlive, Handles
<1>1. CASE StartCodex  BY <1>1 DEF StartCodex, supervisor
<1>2. CASE SessionEnd  BY <1>2 DEF SessionEnd, supervisor
<1>3. CASE CodexEnds  BY <1>3 DEF CodexEnds, supervisor
<1>4. CASE RootExits  BY <1>4 DEF RootExits, supervisor
<1>5. CASE Interrupt  BY <1>5 DEF Interrupt
<1>14. CASE InterruptKills  BY <1>14 DEF InterruptKills
<1>15. CASE noteInterrupt  BY <1>15 DEF noteInterrupt
<1>6. CASE notifySignals  BY <1>6 DEF notifySignals, tree
<1>7. CASE waitRoot  BY <1>7 DEF waitRoot, tree
<1>8. CASE checkDetached  BY <1>8 DEF checkDetached, tree, processResult
<1>9. CASE sampleSessionEnd  BY <1>9 DEF sampleSessionEnd, tree
<1>10. CASE checkGroup  BY <1>10 DEF checkGroup, tree, processResult
<1>11. CASE classifyExit  BY <1>11 DEF classifyExit, tree
<1>12. CASE Tick  BY <1>12 DEF Tick, tree
<1>13. CASE UNCHANGED vars  BY <1>13 DEF vars
<1> QED BY <1>1, <1>2, <1>3, <1>4, <1>5, <1>6, <1>7, <1>8, <1>9, <1>10, <1>11, <1>12, <1>13,
        <1>14, <1>15 DEF Next, Supervise

\* The root of a launcher that waits outlives Codex, but for an interrupt.
LEMMA ForegroundKeeps == IInv /\ [Next]_vars => Foreground'
<1> SUFFICES ASSUME IInv, [Next]_vars PROVE Foreground'
  OBVIOUS
<1> USE DEF IInv, TypeOK, Waited, Foreground, Noticed, Behind, CodexAlive, GroupAlive, StatusOf,
        InterruptedExit
<1>1. CASE StartCodex  BY <1>1 DEF StartCodex, supervisor
<1>2. CASE SessionEnd  BY <1>2 DEF SessionEnd, supervisor
<1>3. CASE CodexEnds  BY <1>3 DEF CodexEnds, supervisor
<1>4. CASE RootExits  BY <1>4 DEF RootExits, supervisor
<1>5. CASE Interrupt  BY <1>5 DEF Interrupt
<1>14. CASE InterruptKills  BY <1>14 DEF InterruptKills
<1>15. CASE noteInterrupt  BY <1>15 DEF noteInterrupt
<1>6. CASE notifySignals  BY <1>6 DEF notifySignals, tree
<1>7. CASE waitRoot  BY <1>7 DEF waitRoot, tree
<1>8. CASE checkDetached  BY <1>8 DEF checkDetached, tree, processResult
<1>9. CASE sampleSessionEnd  BY <1>9 DEF sampleSessionEnd, tree
<1>10. CASE checkGroup  BY <1>10 DEF checkGroup, tree, processResult
<1>11. CASE classifyExit  BY <1>11 DEF classifyExit, tree
<1>12. CASE Tick  BY <1>12 DEF Tick, tree
<1>13. CASE UNCHANGED vars  BY <1>13 DEF vars
<1> QED BY <1>1, <1>2, <1>3, <1>4, <1>5, <1>6, <1>7, <1>8, <1>9, <1>10, <1>11, <1>12, <1>13,
        <1>14, <1>15 DEF Next, Supervise

\* The supervisor passes on to the tree what it notes.
LEMMA NoticedKeeps == IInv /\ [Next]_vars => Noticed'
<1> SUFFICES ASSUME IInv, [Next]_vars PROVE Noticed'
  OBVIOUS
<1> USE DEF IInv, TypeOK, Noticed, Waited, Foreground, Behind, CodexAlive, GroupAlive, StatusOf,
        InterruptedExit
<1>1. CASE StartCodex  BY <1>1 DEF StartCodex, supervisor
<1>2. CASE SessionEnd  BY <1>2 DEF SessionEnd, supervisor
<1>3. CASE CodexEnds  BY <1>3 DEF CodexEnds, supervisor
<1>4. CASE RootExits  BY <1>4 DEF RootExits, supervisor
<1>5. CASE Interrupt  BY <1>5 DEF Interrupt
<1>14. CASE InterruptKills  BY <1>14 DEF InterruptKills
<1>15. CASE noteInterrupt  BY <1>15 DEF noteInterrupt
<1>6. CASE notifySignals  BY <1>6 DEF notifySignals, tree
<1>7. CASE waitRoot  BY <1>7 DEF waitRoot, tree
<1>8. CASE checkDetached  BY <1>8 DEF checkDetached, tree, processResult
<1>9. CASE sampleSessionEnd  BY <1>9 DEF sampleSessionEnd, tree
<1>10. CASE checkGroup  BY <1>10 DEF checkGroup, tree, processResult
<1>11. CASE classifyExit  BY <1>11 DEF classifyExit, tree
<1>12. CASE Tick  BY <1>12 DEF Tick, tree
<1>13. CASE UNCHANGED vars  BY <1>13 DEF vars
<1> QED BY <1>1, <1>2, <1>3, <1>4, <1>5, <1>6, <1>7, <1>8, <1>9, <1>10, <1>11, <1>12, <1>13,
        <1>14, <1>15 DEF Next, Supervise

\* Nothing that decides changes after the decision.
LEMMA DecidedKeeps == IInv /\ [Next]_vars => Decided'
<1> SUFFICES ASSUME IInv, [Next]_vars PROVE Decided'
  OBVIOUS
<1> USE DEF IInv, TypeOK, Decided, Waited, Noticed, cleanExit, Behind, CodexAlive, GroupAlive, Handles
<1>1. CASE StartCodex  BY <1>1 DEF StartCodex, supervisor
<1>2. CASE SessionEnd  BY <1>2 DEF SessionEnd, supervisor
<1>3. CASE CodexEnds  BY <1>3 DEF CodexEnds, supervisor
<1>4. CASE RootExits  BY <1>4 DEF RootExits, supervisor
<1>5. CASE Interrupt  BY <1>5 DEF Interrupt
<1>14. CASE InterruptKills  BY <1>14 DEF InterruptKills
<1>15. CASE noteInterrupt  BY <1>15 DEF noteInterrupt
<1>6. CASE notifySignals  BY <1>6 DEF notifySignals, tree
<1>7. CASE waitRoot  BY <1>7 DEF waitRoot, tree
<1>8. CASE checkDetached  BY <1>8 DEF checkDetached, tree, processResult
<1>9. CASE sampleSessionEnd  BY <1>9 DEF sampleSessionEnd, tree
<1>10. CASE checkGroup  BY <1>10 DEF checkGroup, tree, processResult
<1>11. CASE classifyExit  BY <1>11 DEF classifyExit, tree
<1>12. CASE Tick  BY <1>12 DEF Tick, tree
<1>13. CASE UNCHANGED vars  BY <1>13 DEF vars
<1> QED BY <1>1, <1>2, <1>3, <1>4, <1>5, <1>6, <1>7, <1>8, <1>9, <1>10, <1>11, <1>12, <1>13,
        <1>14, <1>15 DEF Next, Supervise

\* A second session makes the SessionEndedAt of the first count.
LEMMA DeadlinesKeep == IInv /\ [Next]_vars => Deadlines'
<1> SUFFICES ASSUME IInv, [Next]_vars PROVE Deadlines'
  OBVIOUS
<1> USE DEF IInv, TypeOK, Deadlines, Waited, Behind, CodexAlive, GroupAlive, Handles
<1>1. CASE StartCodex  BY <1>1 DEF StartCodex, supervisor
<1>2. CASE SessionEnd  BY <1>2 DEF SessionEnd, supervisor
<1>3. CASE CodexEnds  BY <1>3 DEF CodexEnds, supervisor
<1>4. CASE RootExits  BY <1>4 DEF RootExits, supervisor
<1>5. CASE Interrupt  BY <1>5 DEF Interrupt
<1>14. CASE InterruptKills  BY <1>14 DEF InterruptKills
<1>15. CASE noteInterrupt  BY <1>15 DEF noteInterrupt
<1>6. CASE notifySignals  BY <1>6 DEF notifySignals, tree
<1>7. CASE waitRoot  BY <1>7 DEF waitRoot, tree
<1>8. CASE checkDetached  BY <1>8 DEF checkDetached, tree, processResult
<1>9. CASE sampleSessionEnd  BY <1>9 DEF sampleSessionEnd, tree
<1>10. CASE checkGroup  BY <1>10 DEF checkGroup, tree, processResult
<1>11. CASE classifyExit  BY <1>11 DEF classifyExit, tree
<1>12. CASE Tick  BY <1>12 DEF Tick, tree
<1>13. CASE UNCHANGED vars  BY <1>13 DEF vars
<1> QED BY <1>1, <1>2, <1>3, <1>4, <1>5, <1>6, <1>7, <1>8, <1>9, <1>10, <1>11, <1>12, <1>13,
        <1>14, <1>15 DEF Next, Supervise

LEMMA Keep == IInv /\ [Next]_vars => IInv'
BY TypesKeep, WaitedKeeps, ForegroundKeeps, NoticedKeeps, DecidedKeeps, DeadlinesKeep DEF IInv

-----------------------------------------------------------------------------
(* The theorems.                                                           *)

\* The inductive invariant holds always.
THEOREM Invariance == Spec => []IInv
<1> QED BY Start, Keep, PTL DEF Spec

\* Every variable of the supervisor and the tree keeps its type.
THEOREM TypeCorrectness == Spec => []TypeOK
<1>1. IInv => TypeOK  BY DEF IInv
<1> QED BY <1>1, Invariance, PTL

\* The supervisor returns only when nothing of the tree is left, or what is
\* left has been sent a kill.
THEOREM WaitsForTreeTheorem == Spec => []WaitsForTree
<1>1. IInv => WaitsForTree
  BY DEF IInv, Waited, WaitsForTree, GroupAlive, Behind
<1> QED BY <1>1, Invariance, PTL

\* Under a launcher that waits, a crash that nobody asked for keeps the record.
THEOREM ForegroundCrashKeptTheorem == Spec => []ForegroundCrashKept
<1>1. IInv => ForegroundCrashKept
  <2> SUFFICES ASSUME IInv, ~detaching, ~sigint, fate = "crashed", result = "clean" PROVE FALSE
    BY DEF ForegroundCrashKept
  <2>1. pc = "done" /\ cleanExit /\ root # "running"
    BY DEF IInv, Decided, Waited, Behind
  <2>2. root = "failed"  BY <2>1 DEF IInv, Foreground, StatusOf
  <2> QED BY <2>1, <2>2 DEF IInv, Noticed, cleanExit
<1> QED BY <1>1, Invariance, PTL

\* Under a launcher that waits, an orderly exit removes the record.
THEOREM ForegroundExitRemovedTheorem == Spec => []ForegroundExitRemoved
<1>1. IInv => ForegroundExitRemoved
  BY DEF IInv, TypeOK, ForegroundExitRemoved, Decided, Foreground, cleanExit
<1> QED BY <1>1, Invariance, PTL

\* The first session of a run is killed only after its launcher has failed.
THEOREM FirstSessionSparedTheorem == Spec => FirstSessionSpared
<1> DEFINE Spared == checkGroup /\ started = 1 /\ codex = "running" /\ killed' => forceStop
<1>1. IInv /\ [Next]_vars => [Spared]_vars
  <2> SUFFICES ASSUME IInv, checkGroup, started = 1, codex = "running", killed', ~forceStop
               PROVE FALSE
    OBVIOUS
  <2>1. pc = "check" /\ ~killed  BY DEF checkGroup, IInv, Waited
  <2>2. deadline = "passed"  BY <2>1 DEF checkGroup
  <2> QED BY <2>2 DEF IInv, TypeOK, Deadlines
<1> QED BY <1>1, Invariance, PTL DEF Spec, FirstSessionSpared
=============================================================================
