----------------------------- MODULE Supervisor -----------------------------
(***************************************************************************)
(* superviseProcess and the verdict of runGuarded for one run: wait for    *)
(* the launcher and then for the rest of its process tree, stop what stays *)
(* too long, and decide between a clean exit, which removes the record,    *)
(* and a crash, which keeps it.                                            *)
(*                                                                         *)
(* The tree is a root, which is the launcher, and at most one Codex at a   *)
(* time.  A launcher in the foreground waits for Codex and passes its exit *)
(* status on, and so does Codex as its own root; a detaching one may exit  *)
(* with Codex still running.  Codex runs the SessionEnd hook before it     *)
(* exits by itself.  A program may take an interrupt as it likes: end of    *)
(* it, exit with a status of its own, or go on.                            *)
(***************************************************************************)
EXTENDS Integers

CONSTANTS Detach,       \* TRUE: there are launchers that exit before Codex does
          Interrupts,   \* TRUE: the user may press Ctrl-C
          MaxSessions   \* bound on how often the launcher starts Codex

ASSUME SwitchAssumption  == Detach \in BOOLEAN /\ Interrupts \in BOOLEAN
ASSUME SessionAssumption == MaxSessions \in Nat

VARIABLES
  platform,   \* "unix" or "windows"
  detaching,  \* whether this launcher may exit before Codex does
  root,       \* the launcher: running, or how it exited
  codex,      \* Codex in the tree; "ending" once its SessionEnd hook has run
  started,    \* how often Codex has been started
  fate,       \* how the last Codex ended, as its user would tell
  sigint,     \* whether the tree has received an interrupt
  ended,      \* SessionEndedAt of the record is set
  pc,         \* where the supervisor is
  pending,    \* an interrupt has reached the supervisor and is not noted yet
  interrupted,\* what its signal handler has noted
  verdict,    \* Interrupted, Detached and SessionEnded of processResult
  forceStop,  \* the tree is to be stopped whatever it does
  deadline,   \* of waitForUnixProcessGroup or waitForWindowsJob
  killed,     \* what was left of the tree has been sent a kill
  result      \* cleanExit of runGuarded

tree == <<detaching, root, codex, started, fate, sigint, ended>>
vars == <<platform, detaching, root, codex, started, fate, sigint, ended,
          pc, pending, interrupted, verdict, forceStop, deadline, killed, result>>

TypeOK ==
  /\ platform \in {"unix", "windows"}
  /\ detaching \in BOOLEAN
  /\ root \in {"running", "ok", "failed", "sigint"}
  /\ codex \in {"absent", "running", "ending", "gone"}
  /\ started \in 0..MaxSessions
  /\ fate \in {"none", "exited", "interrupted", "crashed", "stopped"}
  /\ sigint \in BOOLEAN /\ ended \in BOOLEAN
  /\ pc \in {"onstart", "wait", "alive", "sample", "check", "return", "done", "dead"}
  /\ pending \in BOOLEAN /\ interrupted \in BOOLEAN
  /\ verdict \in [interrupted : BOOLEAN, detached : BOOLEAN, sessionEnded : BOOLEAN]
  /\ forceStop \in BOOLEAN
  /\ deadline \in {"none", "ahead", "passed"}
  /\ killed \in BOOLEAN
  /\ result \in {"none", "clean", "crash"}

Init ==
  /\ platform \in {"unix", "windows"}
  /\ detaching \in {FALSE, Detach}
  /\ root = "running" /\ codex = "absent" /\ started = 0 /\ fate = "none"
  /\ sigint = FALSE /\ ended = FALSE
  /\ pc = "onstart"
  /\ pending = FALSE /\ interrupted = FALSE
  /\ verdict = [interrupted |-> FALSE, detached |-> FALSE, sessionEnded |-> FALSE]
  /\ forceStop = FALSE /\ deadline = "none" /\ killed = FALSE /\ result = "none"

CodexAlive   == codex \in {"running", "ending"}
\* processGroupAlive, or active processes in the Job
GroupAlive   == root = "running" \/ CodexAlive

\* When the supervisor listens for signals: on Unix until the group has
\* ended, on Windows only while it waits for the root.
Handles == pc = "wait" \/ (platform = "unix" /\ pc \in {"alive", "sample", "check"})

supervisor == <<platform, pc, pending, interrupted, verdict, forceStop, deadline, killed, result>>

-----------------------------------------------------------------------------
(* The tree.                                                               *)

StartCodex ==
  /\ root = "running" /\ ~CodexAlive /\ started < MaxSessions
  /\ codex' = "running" /\ started' = started + 1 /\ fate' = "none"
  /\ UNCHANGED <<supervisor, detaching, root, sigint, ended>>

\* hookMain for SessionEnd, which Codex awaits
SessionEnd ==
  /\ codex = "running"
  /\ codex' = "ending" /\ ended' = TRUE
  /\ UNCHANGED <<supervisor, detaching, root, started, fate, sigint>>

CodexEnds ==
  /\ \/ codex = "ending" /\ fate' = "exited"
     \/ codex = "running" /\ fate' = "crashed"
     \/ codex = "running" /\ sigint /\ fate' = "interrupted"
     \/ CodexAlive /\ killed /\ fate' = "stopped"
  /\ codex' = "gone"
  /\ UNCHANGED <<supervisor, detaching, root, started, sigint, ended>>

\* How a program exits for an interrupt: on Unix of the signal, or with a
\* status of its own.
InterruptedExit == IF platform = "unix" THEN {"sigint", "failed"} ELSE {"failed"}

\* The exit status a foreground launcher passes on.
StatusOf(how) ==
  CASE how = "crashed"     -> {"failed"}
    [] how = "interrupted" -> {"ok"} \cup InterruptedExit
    [] OTHER               -> {"ok"}

RootExits ==
  /\ root = "running"
  /\ \/ ~CodexAlive /\ root' \in StatusOf(fate)
     \/ detaching /\ CodexAlive /\ root' \in {"ok", "failed"}
     \/ sigint /\ root' \in InterruptedExit
  /\ UNCHANGED <<supervisor, detaching, codex, started, fate, sigint, ended>>

\* Ctrl-C.  On Unix it goes to the tree, if giveTerminalTo has handed it the
\* terminal, or to the supervisor; on Windows to both.
Interrupt ==
  /\ Interrupts
  /\ \/ /\ platform = "unix" /\ GroupAlive
        /\ sigint' = TRUE /\ UNCHANGED pending
     \/ /\ platform = "unix" /\ Handles
        /\ pending' = TRUE /\ UNCHANGED sigint
     \/ /\ platform = "windows" /\ Handles
        /\ pending' = TRUE /\ sigint' = TRUE
  /\ UNCHANGED <<platform, detaching, root, codex, started, fate, ended, pc, interrupted,
                 verdict, forceStop, deadline, killed, result>>

\* A supervisor that does not listen dies of it, and on Windows the Job with
\* it.
InterruptKills ==
  /\ Interrupts /\ ~Handles /\ pc \notin {"done", "dead"}
  /\ pc' = "dead"
  /\ IF platform = "windows"
     THEN /\ sigint' = TRUE
          /\ root' = IF root = "running" THEN "failed" ELSE root
          /\ codex' = IF CodexAlive THEN "gone" ELSE codex
          /\ fate' = IF CodexAlive THEN "stopped" ELSE fate
     ELSE UNCHANGED <<sigint, root, codex, fate>>
  /\ UNCHANGED <<platform, detaching, started, ended, pending, interrupted, verdict,
                 forceStop, deadline, killed, result>>

-----------------------------------------------------------------------------
(* The supervisor.                                                         *)

\* onStart has run; from here on signals are noted.
notifySignals ==
  /\ pc = "onstart"
  /\ pc' = "wait"
  /\ UNCHANGED <<platform, tree, pending, interrupted, verdict, forceStop, deadline, killed, result>>

\* The goroutine that takes the signals, which runs beside the rest and may
\* come too late, or on Windows never.  On Unix it passes them on.
noteInterrupt ==
  /\ pending /\ pc \in {"wait", "alive", "sample", "check"}
  /\ pending' = FALSE
  /\ interrupted' = TRUE /\ sigint' = TRUE
  /\ UNCHANGED <<platform, detaching, root, codex, started, fate, ended, pc, verdict,
                 forceStop, deadline, killed, result>>

\* Mutant: the verdict is made anew, without its other parts.
waitRootAnew ==
  /\ pc = "wait" /\ root # "running"
  /\ verdict' = [interrupted |-> interrupted]
  /\ forceStop' = (root # "ok")
  /\ pc' = "alive"
  /\ UNCHANGED <<platform, tree, pending, interrupted, deadline, killed, result>>

\* cmd.Wait returns with the exit of the root, and the flag is read.
waitRoot ==
  /\ pc = "wait" /\ root # "running"
  /\ LET stopped == interrupted \/ (platform = "unix" /\ root = "sigint")
     IN /\ verdict' = [verdict EXCEPT !.interrupted = stopped]
        /\ forceStop' = (root # "ok" \/ stopped)
  /\ pc' = "alive"
  /\ UNCHANGED <<platform, tree, pending, interrupted, deadline, killed, result>>

\* What superviseProcess returns: on Windows the flag is read once more.
processResult(v) == [v EXCEPT !.interrupted = IF platform = "windows" THEN interrupted ELSE @]

\* Mutants: nobody looks behind the root; the rest always has a deadline.
checkRootOnly ==
  /\ pc = "alive"
  /\ pc' = "return"
  /\ UNCHANGED <<platform, tree, pending, interrupted, verdict, forceStop, deadline, killed, result>>
checkWithDeadline ==
  /\ pc = "alive"
  /\ IF GroupAlive
     THEN /\ verdict' = [verdict EXCEPT !.detached = TRUE]
          /\ deadline' = "ahead"
          /\ pc' = "sample"
     ELSE /\ verdict' = processResult([verdict EXCEPT !.sessionEnded = ended])
          /\ pc' = "return"
          /\ UNCHANGED deadline
  /\ UNCHANGED <<platform, tree, pending, interrupted, forceStop, killed, result>>

\* Is anything left?  Then the exit was detached; after a failed or
\* interrupted root it has three seconds.
checkDetached ==
  /\ pc = "alive"
  /\ IF GroupAlive
     THEN /\ verdict' = [verdict EXCEPT !.detached = TRUE]
          /\ deadline' = IF forceStop THEN "ahead" ELSE "none"
          /\ pc' = "sample"
     ELSE /\ verdict' = processResult([verdict EXCEPT !.sessionEnded = ended])
          /\ pc' = "return"
          /\ UNCHANGED deadline
  /\ UNCHANGED <<platform, tree, pending, interrupted, forceStop, killed, result>>

\* Mutant: every sample moves the deadline.
sampleMovesDeadline ==
  /\ pc = "sample"
  /\ verdict' = [verdict EXCEPT !.sessionEnded = ended]
  /\ deadline' = IF ended THEN "ahead" ELSE deadline
  /\ pc' = "check"
  /\ UNCHANGED <<platform, tree, pending, interrupted, forceStop, killed, result>>

\* sessionEndWasSeen; from then on the rest has two seconds.
sampleSessionEnd ==
  /\ pc = "sample"
  /\ verdict' = [verdict EXCEPT !.sessionEnded = ended]
  /\ deadline' = IF ended /\ deadline = "none" THEN "ahead" ELSE deadline
  /\ pc' = "check"
  /\ UNCHANGED <<platform, tree, pending, interrupted, forceStop, killed, result>>

\* The group has ended, or is sent a kill at the deadline, which nobody waits
\* for, or the loop sleeps.
checkGroup ==
  /\ pc = "check"
  /\ IF GroupAlive /\ deadline # "passed"
     THEN pc' = "sample" /\ UNCHANGED <<verdict, killed>>
     ELSE /\ killed' = GroupAlive
          /\ verdict' = processResult(verdict)
          /\ pc' = "return"
  /\ UNCHANGED <<platform, tree, pending, interrupted, forceStop, deadline, result>>

\* Mutants: the exit status does not count, or a session must have ended
\* whether or not the exit was detached.
cleanAlways    == TRUE
cleanWhenEnded == root = "ok" /\ verdict.sessionEnded /\ verdict.detached

\* runGuarded: the record is removed after a clean exit.
cleanExit == /\ root = "ok" \/ verdict.interrupted
             /\ verdict.detached => verdict.sessionEnded \/ verdict.interrupted

classifyExit ==
  /\ pc = "return"
  /\ result' = IF cleanExit THEN "clean" ELSE "crash"
  /\ pc' = "done"
  /\ UNCHANGED <<platform, tree, pending, interrupted, verdict, forceStop, deadline, killed>>

Tick == /\ deadline = "ahead"
        /\ deadline' = "passed"
        /\ UNCHANGED <<platform, tree, pc, pending, interrupted, verdict, forceStop, killed, result>>

-----------------------------------------------------------------------------
Supervise == \/ notifySignals \/ waitRoot \/ checkDetached \/ sampleSessionEnd
             \/ checkGroup \/ classifyExit

Next == \/ StartCodex \/ SessionEnd \/ CodexEnds \/ RootExits
        \/ Interrupt \/ InterruptKills \/ noteInterrupt
        \/ Supervise \/ Tick

\* The supervisor runs and time passes; the tree need do nothing, and the
\* signal handler may come too late.
Spec == Init /\ [][Next]_vars /\ WF_vars(Supervise) /\ WF_vars(Tick)

-----------------------------------------------------------------------------
(* Properties.                                                             *)

\* README: "The supervisor waits for the complete process tree, including a
\* script that exits before its child Codex process."  It returns with
\* something left only if it has sent that a kill.
WaitsForTree == pc \in {"return", "done"} /\ GroupAlive => killed

\* README, the same sentence: a session that goes on after its launcher has
\* exited well is waited for, and killed only once it has ended itself.
StopsOnlyEnded ==
  [][checkGroup /\ codex = "running" /\ killed' => forceStop]_vars

\* The same for the first session of a run: it is not stopped before its own
\* SessionEnd, however long its launcher has been gone.
FirstSessionSpared ==
  [][checkGroup /\ started = 1 /\ codex = "running" /\ killed' => forceStop]_vars

\* A tree that must be stopped, or says it has ended, does not keep the
\* supervisor for ever.
StopsInTime ==
  (pc \in {"alive", "sample", "check"} /\ (forceStop \/ ended)) ~> (pc \in {"done", "dead"})

\* README: "An abrupt stop leaves it on disk for the next csg list."  A
\* crash under a launcher that waits for Codex keeps the record, if nobody
\* pressed Ctrl-C.
ForegroundCrashKept ==
  ~detaching /\ ~sigint /\ fate = "crashed" => result # "clean"

\* README: "Sessions that exit normally ... are removed instead of being
\* retained as history", under a launcher that waits for Codex, and whatever
\* earlier sessions of the run did.
ForegroundExitRemoved ==
  ~detaching /\ fate = "exited" /\ root = "ok" => result # "crash"
=============================================================================
