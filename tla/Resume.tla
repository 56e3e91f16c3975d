------------------------------- MODULE Resume -------------------------------
(***************************************************************************)
(* What a run record still means when it is read later.  csg run stores    *)
(* the file of the launcher and the number and start time of the process;  *)
(* until csg list and csg resume use them, programs come and go on disk    *)
(* and in PATH, csg is installed elsewhere, process numbers are given to   *)
(* other processes, and the computer is restarted, perhaps into another    *)
(* operating system that shares the home directory.                        *)
(*                                                                         *)
(* One process stands for the wrapper and the Codex process of a run, and  *)
(* a resumed run's record replaces the old one at once: what happens when  *)
(* they come apart is the subject of SessionGuard.                         *)
(***************************************************************************)
EXTENDS Launcher, FiniteSets

CONSTANTS Platform,
          Pid, MaxTick, MaxBoot,  \* process numbers; time within a boot; restarts
          Path,                   \* the values PATH may have
          Line,                   \* argument lines of csg run
          MaxChanges              \* bound on changes of the environment

ASSUME PlatformAssumption == Platform \subseteq {"linux", "darwin", "windows"}
ASSUME PidAssumption   == IsFiniteSet(Pid) /\ Pid # {}
ASSUME ClockAssumption == MaxTick \in Nat /\ MaxBoot \in Nat /\ MaxChanges \in Nat
ASSUME PathAssumption  == Path \subseteq Seq(Place)
ASSUME LineAssumption  == Line \subseteq Seq(Argument)

VARIABLES
  platform, disk, path, installDir, here,  \* the computer: here is the shell's directory
  boot, tick,   \* how often it was restarted, and the time since
  process,      \* what runs under each process number
  record,       \* the run record
  asked,        \* what the user asked for in csg run
  last,         \* what the last command did
  changes

env      == [platform |-> platform, disk |-> disk, path |-> path, installDir |-> installDir]
files    == <<disk, path, installDir, here>>
clock    == <<platform, boot, tick>>
run      == <<process, record, asked>>
vars     == <<files, clock, run, last, changes>>

NoRecord  == [run |-> "none"]
NoProcess == [process |-> "none"]
Nothing   == [did |-> "nothing", file |-> NoFile]

Record == [requested : Request, resolved : File, platform : Platform, cwd : Place,
           pid : Pid, start : Nat, boot : 0..MaxBoot]

TypeOK ==
  /\ platform \in Platform
  /\ disk \in [File -> Kind] /\ path \in Path /\ installDir \in Place /\ here \in Place
  /\ boot \in 0..MaxBoot /\ tick \in 0..MaxTick
  /\ process \in [Pid -> {NoProcess} \cup [ours : BOOLEAN, start : Nat]]
  /\ record \in {NoRecord} \cup Record
  /\ asked \in {NoRecord} \cup Request
  /\ last \in [did : {"nothing", "started", "failed", "refused", "running", "unknown", "crashed"},
               file : File \cup {NoFile}]
  /\ changes \in 0..MaxChanges

\* csg is installed in one directory, and one program is somewhere.
Init ==
  /\ platform \in Platform /\ path \in Path /\ installDir \in Place /\ here \in Place
  /\ \E program \in File :
       disk = [file \in File |->
                 IF isGuardInstallEntry(file, installDir) THEN "self"
                 ELSE IF file = program THEN "program" ELSE "absent"]
  /\ boot = 0 /\ tick = 0
  /\ process = [pid \in Pid |-> NoProcess]
  /\ record = NoRecord /\ asked = NoRecord
  /\ last = Nothing /\ changes = 0

-----------------------------------------------------------------------------
(* Processes.                                                              *)

\* When a process started: on Linux in ticks since the restart, elsewhere
\* an absolute time.  Never 0.
startTime == IF platform = "linux" THEN tick + 1 ELSE boot * (MaxTick + 1) + tick + 1

\* What asking the system about a process number may answer.
queryProcess(pid) ==
  IF process[pid] = NoProcess THEN {"dead", "unknown"} ELSE {"alive", "unknown"}

\* Mutants: not knowing counts as dead; the start time is not compared.
unknownIsDead(answer, pid, expectedStart) ==
  IF answer = "unknown" \/ (answer = "alive" /\ expectedStart # 0
                            /\ process[pid].start # expectedStart)
  THEN "dead" ELSE answer
anyStart(answer, pid, expectedStart) == answer

\* A process number with another start time is another process.
livenessFrom(answer, pid, expectedStart) ==
  IF answer = "alive" /\ expectedStart # 0 /\ process[pid].start # expectedStart
  THEN "dead" ELSE answer

processLiveness(pid, expectedStart) ==
  {livenessFrom(answer, pid, expectedStart) : answer \in queryProcess(pid)}

OurProcessLives == \E pid \in Pid : process[pid] # NoProcess /\ process[pid].ours

-----------------------------------------------------------------------------
(* Commands of csg.                                                        *)

\* Mutant: the record does not name the platform.
runWithoutPlatform(requested, file, cwd) ==
  IF disk[file] \notin {"program", "self"}
  THEN last' = [did |-> "failed", file |-> NoFile] /\ UNCHANGED <<process, record>>
  ELSE \E pid \in {p \in Pid : process[p] = NoProcess}, known \in {startTime, 0} :
         /\ process' = [process EXCEPT ![pid] = [ours |-> TRUE, start |-> startTime]]
         /\ record' = [requested |-> requested, resolved |-> file, platform |-> "",
                       cwd |-> cwd, pid |-> pid, start |-> known, boot |-> boot]
         /\ last' = [did |-> "started", file |-> file]

\* What runGuarded does with a target: it stores a record, starts the file,
\* and takes the record back if the file cannot be started.  The start time
\* it stores is 0 if the system could not tell.
runGuarded(requested, file, cwd) ==
  IF disk[file] \notin {"program", "self"}
  THEN last' = [did |-> "failed", file |-> NoFile] /\ UNCHANGED <<process, record>>
  ELSE \E pid \in {p \in Pid : process[p] = NoProcess}, known \in {startTime, 0} :
         /\ process' = [process EXCEPT ![pid] = [ours |-> TRUE, start |-> startTime]]
         /\ record' = [requested |-> requested, resolved |-> file, platform |-> platform,
                       cwd |-> cwd, pid |-> pid, start |-> known, boot |-> boot]
         /\ last' = [did |-> "started", file |-> file]

Refuse == last' = [did |-> "refused", file |-> NoFile] /\ UNCHANGED <<process, record>>

Run(request) ==
  LET file == resolveLaunchTarget(env, request, here)
  IN /\ record = NoRecord
     /\ IF file = NoFile THEN Refuse ELSE runGuarded(request, file, here)
     /\ asked' = IF record' = NoRecord THEN NoRecord ELSE request
     /\ UNCHANGED <<files, clock, changes>>

\* csg list.
List ==
  /\ record # NoRecord
  /\ \E answer \in processLiveness(record.pid, record.start) :
       last' = [did  |-> CASE answer = "alive" -> "running"
                           [] answer = "dead"  -> "crashed"
                           [] OTHER            -> "unknown",
                file |-> NoFile]
  /\ UNCHANGED <<files, clock, run, changes>>

\* csg resume, which finds the record only if its process is known to be
\* dead.  The recorded directory may be gone; then the current one is used.
Resume ==
  LET file == targetForRecord(env, record)
  IN /\ record # NoRecord
     /\ "dead" \in processLiveness(record.pid, record.start)
     /\ IF file[1] = NoFile THEN Refuse
        ELSE \E cwd \in {record.cwd, here} : runGuarded(file[2], file[1], cwd)
     /\ UNCHANGED <<files, clock, asked, changes>>

-----------------------------------------------------------------------------
(* The environment.                                                        *)

Change == changes < MaxChanges /\ changes' = changes + 1 /\ last' = Nothing

\* The run ends: after a clean exit its wrapper removes the record.  A
\* number is not given away again before the clock moves.
Exit ==
  \E pid \in Pid :
    /\ process[pid] # NoProcess
    /\ tick < MaxTick /\ tick' = tick + 1
    /\ process' = [process EXCEPT ![pid] = NoProcess]
    /\ \/ record' = record /\ UNCHANGED asked
       \/ process[pid].ours /\ record' = NoRecord /\ asked' = NoRecord
    /\ last' = Nothing
    /\ UNCHANGED <<files, platform, boot, changes>>

\* Any other program starts.
OtherStarts ==
  /\ Change
  /\ \E pid \in Pid : /\ process[pid] = NoProcess
                      /\ process' = [process EXCEPT ![pid] = [ours |-> FALSE, start |-> startTime]]
  /\ UNCHANGED <<files, clock, record, asked>>

\* The computer is restarted, with any of its operating systems.
Reboot ==
  /\ boot < MaxBoot /\ boot' = boot + 1 /\ tick' = 0
  /\ platform' \in Platform
  /\ process' = [pid \in Pid |-> NoProcess]
  /\ last' = Nothing
  /\ UNCHANGED <<files, record, asked, changes>>

\* The hook of the session stores its working directory in the record.
HookBinds ==
  /\ Change
  /\ record # NoRecord /\ OurProcessLives
  /\ \E cwd \in Place : record' = [record EXCEPT !.cwd = cwd]
  /\ UNCHANGED <<files, clock, process, asked>>

\* A file appears, disappears, becomes another thing, or a link to csg.
ChangeDisk ==
  /\ Change
  /\ \E file \in File, kind \in Kind :
       /\ ~isGuardInstallEntry(file, installDir)
       /\ disk[file] # kind
       /\ disk' = [disk EXCEPT ![file] = kind]
  /\ UNCHANGED <<path, installDir, here, clock, run>>

\* Another shell: another PATH and another directory.
ChangeShell ==
  /\ Change
  /\ path' \in Path /\ here' \in Place
  /\ UNCHANGED <<disk, installDir, clock, run>>

\* csg is removed and installed in a directory, where it replaces what had
\* its names; another csg than the one that ran stays an ordinary program.
Reinstall ==
  /\ Change
  /\ installDir' \in Place
  /\ \E left \in {"absent", "program"} :
       disk' = [file \in File |->
                  IF isGuardInstallEntry(file, installDir') THEN "self"
                  ELSE IF isGuardInstallEntry(file, installDir) \/ disk[file] = "self"
                  THEN left ELSE disk[file]]
  /\ UNCHANGED <<path, here, clock, run>>

Next == \/ \E request \in Request : Run(request)
        \/ List \/ Resume \/ Exit
        \/ OtherStarts \/ Reboot \/ HookBinds \/ ChangeDisk \/ ChangeShell \/ Reinstall

Spec == Init /\ [][Next]_vars

-----------------------------------------------------------------------------
(* Properties.                                                             *)

\* csg starts a program, and never itself: not under the name it is
\* installed under, not through a link, not after it was installed over the
\* recorded launcher.  Otherwise a session would start a wrapper of a
\* wrapper without end.
NeverItself ==
  last.did = "started" => /\ disk[last.file] = "program"
                          /\ ~isGuardInstallEntry(last.file, installDir)

\* However often a run is resumed, and whatever file that led to, its record
\* names what the user first asked for.
AskedIsKept == record # NoRecord => record.requested = asked

\* A resumed session gets the program it ran with, wherever PATH, the
\* directories and the installation of csg have moved, as long as that
\* program is there; and never one of another operating system.
SameProgram ==
  [][(record # NoRecord /\ last'.did = "started")
       => /\ platform = record.platform
          /\ (disk[record.resolved] = "program" /\ ~isGuardInstallEntry(record.resolved, installDir))
               => last'.file = record.resolved]_vars

\* No session is called crashed, or resumed, while its process runs.
DeadOnly ==
  [][(record # NoRecord /\ last'.did \in {"crashed", "started", "refused", "failed"})
       => ~OurProcessLives]_vars

\* A run shown as running is: not another process that got its number,
\* unless its start time was never known, or Linux counts the time from a
\* later restart.
RunningIsOurs ==
  last.did = "running" =>
    \/ OurProcessLives
    \/ record.start = 0
    \/ platform = "linux" /\ record.boot # boot

\* The session explicitResumeSessionID finds is the one the line names, and
\* it finds one whenever the line names one.
BindsWhatIsNamed ==
  \A args \in Line :
    LET session == explicitResumeSessionID(args)
    IN /\ session # NoSession => namesSession(args, session)
       /\ \A other \in SessionID : namesSession(args, other) => session = other

\* A run that starts is bound to a session before its hook speaks only if its
\* arguments, whatever they are, name that session beyond doubt, and always
\* then: the value of an option is never taken for the command.
PreboundAsWritten == last.did = "started" => BindsWhatIsNamed
=============================================================================
