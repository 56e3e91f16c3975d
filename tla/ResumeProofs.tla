---------------------------- MODULE ResumeProofs ----------------------------
(***************************************************************************)
(* What csg list and csg resume make of a record, for all process numbers, *)
(* clocks, restarts, directories and programs; and what csg run makes of   *)
(* its arguments, for all lines of any length.                             *)
(***************************************************************************)
EXTENDS Resume, Recursion, TLAPS

\* The parts of the types the proofs need.
Formed ==
  /\ platform \in Platform
  /\ boot \in 0..MaxBoot /\ tick \in 0..MaxTick
  /\ process \in [Pid -> {NoProcess} \cup [ours : BOOLEAN, start : Nat]]
  /\ record # NoRecord =>
       /\ record = [requested |-> record.requested, resolved |-> record.resolved,
                    platform |-> record.platform, cwd |-> record.cwd, pid |-> record.pid,
                    start |-> record.start, boot |-> record.boot]
       /\ record.pid \in Pid /\ record.start \in Nat /\ record.boot \in 0..boot

\* The process of the run is the one the record names.
Identity ==
  \A pid \in Pid :
    (process[pid] # NoProcess /\ process[pid].ours) =>
      /\ record # NoRecord /\ pid = record.pid
      /\ record.start \in {0, process[pid].start}

\* The last start time of a restart, where they are absolute.
LastStart(b) == (b + 1) * (MaxTick + 1)

\* A recorded start time is in the past, and no process that came after the
\* end of the run has it.
Times ==
  /\ \A pid \in Pid : process[pid] # NoProcess =>
       /\ process[pid].start <= startTime
       /\ platform # "linux" => process[pid].start > boot * (MaxTick + 1)
  /\ record # NoRecord =>
       /\ record.start <= LastStart(record.boot)
       /\ record.boot = boot => record.start <= startTime
  /\ record # NoRecord /\ record.start # 0 /\ record.boot = boot /\ ~OurProcessLives =>
       /\ record.start < startTime
       /\ process[record.pid] # NoProcess => process[record.pid].start > record.start

Kept == record # NoRecord => record.requested = asked

IInv == Formed /\ Identity /\ Times /\ Kept

USE PlatformAssumption, ClockAssumption

-----------------------------------------------------------------------------
(* Start times.                                                            *)

\* The time is within those of this restart.
LEMMA StartTimes ==
  ASSUME Formed
  PROVE  /\ startTime \in Nat /\ startTime > 0 /\ startTime <= LastStart(boot)
         /\ platform # "linux" => startTime > boot * (MaxTick + 1)
         /\ LastStart(boot) \in Nat /\ boot * (MaxTick + 1) \in Nat
<1> DEFINE M == MaxTick + 1
<1>1. /\ M \in Nat /\ boot \in Nat /\ tick \in Nat /\ tick + 1 <= M
  BY DEF Formed
<1> HIDE DEF M
<1>2. boot * M \in Nat /\ (boot + 1) * M = boot * M + M
  BY <1>1
<1>3. LastStart(boot) = boot * M + M  BY <1>2 DEF LastStart, M
<1>4. startTime = IF platform = "linux" THEN tick + 1 ELSE boot * M + tick + 1
  BY DEF startTime, M
<1>5. boot * (MaxTick + 1) = boot * M  BY DEF M
<1> QED BY <1>1, <1>2, <1>3, <1>4, <1>5

\* An earlier restart is over before this one begins.
LEMMA EarlierRestart ==
  ASSUME NEW b \in Nat, NEW c \in Nat, b < c
  PROVE  LastStart(b) <= c * (MaxTick + 1) /\ LastStart(b) \in Nat
<1> DEFINE M == MaxTick + 1
<1>1. M \in Nat /\ b + 1 <= c  OBVIOUS
<1> HIDE DEF M
<1>2. (b + 1) * M <= c * M /\ (b + 1) * M \in Nat  BY <1>1
<1> QED BY <1>2 DEF LastStart, M

-----------------------------------------------------------------------------
(* Steps.                                                                  *)

LEMMA Start == Init => IInv
<1> SUFFICES ASSUME Init PROVE IInv
  OBVIOUS
<1>1. /\ platform \in Platform /\ boot = 0 /\ tick = 0 /\ record = NoRecord
      /\ process = [pid \in Pid |-> NoProcess]
  BY DEF Init
<1> QED BY <1>1 DEF IInv, Formed, Identity, Times, Kept

\* The answer "dead" is true of the process of the run.
LEMMA DeadIsDead ==
  ASSUME IInv, record # NoRecord, "dead" \in processLiveness(record.pid, record.start)
  PROVE  ~OurProcessLives
<1> SUFFICES ASSUME NEW pid \in Pid, process[pid] # NoProcess, process[pid].ours PROVE FALSE
  BY DEF OurProcessLives
<1>1. pid = record.pid /\ record.start \in {0, process[pid].start}
  BY DEF IInv, Identity
<1> QED BY <1>1 DEF processLiveness, livenessFrom, queryProcess

\* Files, shells and directories have nothing to do with processes.
LEMMA QuietStep ==
  ASSUME IInv, UNCHANGED <<platform, boot, tick, process>>, Kept',
         record' = record \/ (record # NoRecord /\ \E cwd : record' = [record EXCEPT !.cwd = cwd])
  PROVE  IInv'
<1>1. /\ record' = NoRecord <=> record = NoRecord
      /\ record # NoRecord =>
           /\ record' = [requested |-> record'.requested, resolved |-> record'.resolved,
                         platform |-> record'.platform, cwd |-> record'.cwd,
                         pid |-> record'.pid, start |-> record'.start, boot |-> record'.boot]
           /\ record'.pid = record.pid /\ record'.start = record.start
           /\ record'.boot = record.boot
  BY DEF IInv, Formed, NoRecord
<1>2. startTime' = startTime /\ (OurProcessLives' <=> OurProcessLives)
  BY DEF startTime, OurProcessLives
<1>3. Formed'  BY <1>1 DEF IInv, Formed
<1>4. Identity'  BY <1>1 DEF IInv, Identity
<1>5. Times'
  <2>1. \A p \in Pid : process[p] # NoProcess =>
          /\ process[p].start <= startTime
          /\ platform # "linux" => process[p].start > boot * (MaxTick + 1)
    BY DEF IInv, Times
  <2>2. record # NoRecord =>
          /\ record.start <= LastStart(record.boot)
          /\ record.boot = boot => record.start <= startTime
    BY DEF IInv, Times
  <2>3. record # NoRecord /\ record.start # 0 /\ record.boot = boot /\ ~OurProcessLives =>
          /\ record.start < startTime
          /\ process[record.pid] # NoProcess => process[record.pid].start > record.start
    BY DEF IInv, Times
  <2> QED BY <1>1, <1>2, <2>1, <2>2, <2>3 DEF Times, LastStart
<1> QED BY <1>3, <1>4, <1>5 DEF IInv

\* A process starts, and its record is written.
LEMMA StartStep ==
  ASSUME IInv, ~OurProcessLives, UNCHANGED <<platform, boot, tick>>,
         NEW requested, NEW file, NEW cwd, NEW pid \in Pid, NEW known \in {startTime, 0},
         process' = [process EXCEPT ![pid] = [ours |-> TRUE, start |-> startTime]],
         record' = [requested |-> requested, resolved |-> file, platform |-> platform,
                    cwd |-> cwd, pid |-> pid, start |-> known, boot |-> boot],
         asked' = requested
  PROVE  IInv'
<1>1. /\ record'.pid = pid /\ record'.start = known /\ record'.boot = boot
      /\ record'.requested = requested /\ record' # NoRecord
  BY DEF NoRecord
<1>2. /\ startTime \in Nat /\ startTime <= LastStart(boot) /\ LastStart(boot) \in Nat
      /\ platform # "linux" => startTime > boot * (MaxTick + 1)
      /\ startTime' = startTime /\ known \in Nat /\ known <= startTime
  BY StartTimes DEF IInv, startTime
<1>3. /\ process \in [Pid -> {NoProcess} \cup [ours : BOOLEAN, start : Nat]]
      /\ process' \in [Pid -> {NoProcess} \cup [ours : BOOLEAN, start : Nat]]
      /\ process'[pid] = [ours |-> TRUE, start |-> startTime]
      /\ \A p \in Pid \ {pid} : process'[p] = process[p]
  BY <1>2 DEF IInv, Formed
<1>4. Formed'
  <2>1. boot \in 0..boot  BY DEF IInv, Formed
  <2> QED BY <1>1, <1>2, <1>3, <2>1 DEF IInv, Formed
<1>5. Identity'
  BY <1>1, <1>3 DEF Identity, OurProcessLives
<1>6. Times'
  <2>1. \A p \in Pid : process'[p] # NoProcess =>
          /\ process'[p].start <= startTime
          /\ platform # "linux" => process'[p].start > boot * (MaxTick + 1)
    BY <1>2, <1>3 DEF IInv, Times
  <2>2. OurProcessLives'
    BY <1>3 DEF OurProcessLives, NoProcess
  <2> QED BY <1>1, <1>2, <2>1, <2>2 DEF Times, LastStart
<1>7. Kept'  BY <1>1 DEF Kept
<1> QED BY <1>4, <1>5, <1>6, <1>7 DEF IInv

LEMMA RunStep ==
  ASSUME IInv, ~OurProcessLives, UNCHANGED <<platform, boot, tick>>,
         NEW requested, NEW file, NEW cwd, runGuarded(requested, file, cwd),
         asked' = IF record' = record THEN asked ELSE requested
  PROVE  IInv'
<1>1. CASE disk[file] \notin {"program", "self"}
  <2>1. UNCHANGED <<process, record>>  BY <1>1 DEF runGuarded
  <2>2. Kept'  BY <2>1 DEF IInv, Kept
  <2> QED BY <2>1, <2>2, QuietStep
<1>2. CASE disk[file] \in {"program", "self"}
  <2>1. PICK pid \in {p \in Pid : process[p] = NoProcess}, known \in {startTime, 0} :
         /\ process' = [process EXCEPT ![pid] = [ours |-> TRUE, start |-> startTime]]
         /\ record' = [requested |-> requested, resolved |-> file, platform |-> platform,
                       cwd |-> cwd, pid |-> pid, start |-> known, boot |-> boot]
    BY <1>2 DEF runGuarded
  <2>2. CASE asked' = requested
    BY <2>1, <2>2, StartStep
  <2>3. CASE record' = record /\ asked' = asked
    <3>1. record'.requested = requested /\ record' # NoRecord  BY <2>1 DEF NoRecord
    <3>2. asked' = requested  BY <3>1, <2>3 DEF IInv, Kept
    <3> QED BY <2>2, <3>2
  <2> QED BY <2>2, <2>3
<1> QED BY <1>1, <1>2

\* A run ends, or any other process.
LEMMA ExitStep == ASSUME IInv, Exit PROVE IInv'
<1>1. PICK pid \in Pid :
        /\ process[pid] # NoProcess
        /\ tick < MaxTick /\ tick' = tick + 1
        /\ process' = [process EXCEPT ![pid] = NoProcess]
        /\ \/ record' = record /\ UNCHANGED asked
           \/ process[pid].ours /\ record' = NoRecord /\ asked' = NoRecord
        /\ UNCHANGED <<platform, boot>>
  BY DEF Exit
<1>2. /\ startTime \in Nat /\ startTime' = startTime + 1
      /\ tick' \in 0..MaxTick
  BY <1>1, StartTimes DEF IInv, Formed, startTime
<1>3. /\ process \in [Pid -> {NoProcess} \cup [ours : BOOLEAN, start : Nat]]
      /\ process' \in [Pid -> {NoProcess} \cup [ours : BOOLEAN, start : Nat]]
      /\ process'[pid] = NoProcess
      /\ \A p \in Pid \ {pid} : process'[p] = process[p]
  BY <1>1 DEF IInv, Formed
<1>4. Formed'  BY <1>1, <1>2, <1>3 DEF IInv, Formed
<1>5. Identity'
  BY <1>1, <1>3 DEF IInv, Identity
<1>6. Times'
  <2>1. (\A p \in Pid : process[p] # NoProcess =>
          /\ process[p].start <= startTime
          /\ platform # "linux" => process[p].start > boot * (MaxTick + 1))'
    <3>1. \A p \in Pid : process[p] # NoProcess => process[p].start \in Nat
      BY <1>3 DEF NoProcess
    <3> QED BY <1>1, <1>2, <1>3, <3>1 DEF IInv, Times
  <2>2. CASE record' = NoRecord
    BY <2>1, <2>2 DEF Times
  <2>3. CASE record' = record /\ record # NoRecord
    <3>1. record.start \in Nat /\ record.pid \in Pid  BY <2>3 DEF IInv, Formed
    <3>2. record.start <= LastStart(record.boot) /\ (record.boot = boot => record.start <= startTime)
      BY <2>3 DEF IInv, Times
    <3>3. ASSUME record.start # 0, record.boot = boot, ~OurProcessLives',
                 process'[record.pid] # NoProcess
          PROVE  process'[record.pid].start > record.start
      <4>1. pid # record.pid /\ process'[record.pid] = process[record.pid]
        BY <1>3, <3>1, <3>3
      <4>2. ~process[record.pid].ours
        BY <3>1, <3>3, <4>1 DEF OurProcessLives
      <4>3. ~OurProcessLives
        BY <3>3, <4>1, <4>2 DEF IInv, Identity, OurProcessLives
      <4> QED BY <2>3, <3>3, <4>1, <4>3 DEF IInv, Times
    <3> QED BY <1>1, <1>2, <2>1, <2>3, <3>1, <3>2, <3>3 DEF Times, LastStart
  <2> QED BY <1>1, <2>2, <2>3
<1>7. Kept'  BY <1>1 DEF IInv, Kept
<1> QED BY <1>4, <1>5, <1>6, <1>7 DEF IInv

\* Another program gets a number.
LEMMA OtherStep == ASSUME IInv, OtherStarts PROVE IInv'
<1>1. PICK pid \in Pid :
        /\ process[pid] = NoProcess
        /\ process' = [process EXCEPT ![pid] = [ours |-> FALSE, start |-> startTime]]
        /\ UNCHANGED <<platform, boot, tick, record, asked>>
  BY DEF OtherStarts, clock
<1>2. /\ startTime \in Nat /\ startTime' = startTime
      /\ platform # "linux" => startTime > boot * (MaxTick + 1)
  BY <1>1, StartTimes DEF IInv, startTime
<1>3. /\ process \in [Pid -> {NoProcess} \cup [ours : BOOLEAN, start : Nat]]
      /\ process' \in [Pid -> {NoProcess} \cup [ours : BOOLEAN, start : Nat]]
      /\ process'[pid] = [ours |-> FALSE, start |-> startTime]
      /\ \A p \in Pid \ {pid} : process'[p] = process[p]
  BY <1>1, <1>2 DEF IInv, Formed
<1>4. Formed'  BY <1>1, <1>3 DEF IInv, Formed
<1>5. Identity'  BY <1>1, <1>3 DEF IInv, Identity
<1>6. OurProcessLives' <=> OurProcessLives
  BY <1>1, <1>3 DEF OurProcessLives
<1>7. Times'
  <2>1. (\A p \in Pid : process[p] # NoProcess =>
          /\ process[p].start <= startTime
          /\ platform # "linux" => process[p].start > boot * (MaxTick + 1))'
    BY <1>1, <1>2, <1>3 DEF IInv, Times
  <2>2. ASSUME record # NoRecord, record.start # 0, record.boot = boot, ~OurProcessLives
        PROVE  /\ record.start < startTime
               /\ process'[record.pid] # NoProcess => process'[record.pid].start > record.start
    BY <1>1, <1>3, <2>2 DEF IInv, Times, Formed
  <2>3. record # NoRecord =>
          /\ record.start <= LastStart(record.boot)
          /\ record.boot = boot => record.start <= startTime
    BY DEF IInv, Times
  <2> QED BY <1>1, <1>2, <1>6, <2>1, <2>2, <2>3 DEF Times, LastStart
<1>8. Kept'  BY <1>1 DEF IInv, Kept
<1> QED BY <1>4, <1>5, <1>7, <1>8 DEF IInv

\* The computer is restarted.
LEMMA RebootStep == ASSUME IInv, Reboot PROVE IInv'
<1>1. /\ boot' = boot + 1 /\ boot < MaxBoot /\ tick' = 0 /\ platform' \in Platform
      /\ process' = [pid \in Pid |-> NoProcess]
      /\ UNCHANGED <<record, asked>>
  BY DEF Reboot
<1>2. Formed'
  <2>1. boot' \in 0..MaxBoot /\ tick' \in 0..MaxTick /\ boot \in Nat
    BY <1>1 DEF IInv, Formed
  <2>2. record # NoRecord => record.boot \in 0..boot'  BY <1>1, <2>1 DEF IInv, Formed
  <2> QED BY <1>1, <2>1, <2>2 DEF IInv, Formed
<1>3. Identity'  BY <1>1 DEF Identity
<1>4. record # NoRecord => record.boot # boot' /\ record.start <= LastStart(record.boot)
  BY <1>1 DEF IInv, Formed, Times
<1>5. Times'  BY <1>1, <1>4 DEF Times, LastStart
<1>6. Kept'  BY <1>1 DEF IInv, Kept
<1> QED BY <1>2, <1>3, <1>5, <1>6 DEF IInv

LEMMA RunKeeps == ASSUME IInv, NEW request \in Request, Run(request) PROVE IInv'
<1> DEFINE file == resolveLaunchTarget(env, request, here)
<1>1. /\ record = NoRecord /\ UNCHANGED <<platform, boot, tick>>
      /\ asked' = IF record' = NoRecord THEN NoRecord ELSE request
      /\ IF file = NoFile THEN Refuse ELSE runGuarded(request, file, here)
  BY DEF Run, clock
<1> HIDE DEF file
<1>2. ~OurProcessLives  BY <1>1 DEF IInv, Identity, OurProcessLives
<1>3. CASE Refuse
  <2>1. UNCHANGED <<process, record>>  BY <1>3 DEF Refuse
  <2>2. Kept'  BY <1>1, <2>1 DEF Kept
  <2> QED BY <1>1, <2>1, <2>2, QuietStep
<1>4. CASE runGuarded(request, file, here)
  <2>1. CASE record' = record
    <3>1. UNCHANGED process
      <4>1. CASE disk[file] \notin {"program", "self"}
        BY <1>4, <4>1 DEF runGuarded
      <4>2. CASE disk[file] \in {"program", "self"}
        <5>1. PICK pid, known :
                record' = [requested |-> request, resolved |-> file, platform |-> platform,
                           cwd |-> here, pid |-> pid, start |-> known, boot |-> boot]
          BY <1>4, <4>2 DEF runGuarded
        <5> QED BY <1>1, <2>1, <5>1 DEF NoRecord
      <4> QED BY <4>1, <4>2
    <3>2. Kept'  BY <1>1, <2>1 DEF Kept
    <3> QED BY <1>1, <2>1, <3>1, <3>2, QuietStep
  <2>2. CASE record' # record
    <3>1. asked' = IF record' = record THEN asked ELSE request  BY <1>1, <2>2
    <3> QED BY <1>1, <1>2, <1>4, <3>1, RunStep
  <2> QED BY <2>1, <2>2
<1> QED BY <1>1, <1>3, <1>4

\* A resumed run keeps the request, because targetForRecord returns it.
LEMMA ResumeKeeps == ASSUME IInv, Resume PROVE IInv'
<1> DEFINE file == targetForRecord(env, record)
<1>1. /\ record # NoRecord /\ UNCHANGED <<platform, boot, tick, asked>>
      /\ IF file[1] = NoFile THEN Refuse
         ELSE \E cwd \in {record.cwd, here} : runGuarded(file[2], file[1], cwd)
      /\ ~OurProcessLives
  BY DeadIsDead DEF Resume, clock
<1>2. file[2] = record.requested  BY DEF targetForRecord
<1> HIDE DEF file
<1>3. CASE Refuse
  <2>1. UNCHANGED <<process, record>>  BY <1>3 DEF Refuse
  <2>2. Kept'  BY <1>1, <2>1 DEF IInv, Kept
  <2> QED BY <1>1, <2>1, <2>2, QuietStep
<1>4. ASSUME NEW cwd, runGuarded(file[2], file[1], cwd) PROVE IInv'
  <2>1. asked = file[2]  BY <1>1, <1>2 DEF IInv, Kept
  <2>2. asked' = IF record' = record THEN asked ELSE file[2]  BY <1>1, <2>1
  <2> QED BY <1>1, <1>4, <2>2, RunStep
<1> QED BY <1>1, <1>3, <1>4

LEMMA Keep == IInv /\ [Next]_vars => IInv'
<1> SUFFICES ASSUME IInv, [Next]_vars PROVE IInv'
  OBVIOUS
<1>1. CASE List \/ ChangeDisk \/ ChangeShell \/ Reinstall \/ UNCHANGED vars
  <2>1. UNCHANGED <<platform, boot, tick, process, record, asked>>
    BY <1>1 DEF List, ChangeDisk, ChangeShell, Reinstall, vars, clock, run
  <2>2. Kept'  BY <2>1 DEF IInv, Kept
  <2> QED BY <2>1, <2>2, QuietStep
<1>2. CASE HookBinds
  <2>1. /\ UNCHANGED <<platform, boot, tick, process, asked>>
        /\ record # NoRecord /\ \E cwd : record' = [record EXCEPT !.cwd = cwd]
    BY <1>2 DEF HookBinds, clock
  <2>2. record'.requested = record.requested
    BY <2>1 DEF IInv, Formed
  <2>3. Kept'  BY <2>1, <2>2 DEF IInv, Kept
  <2> QED BY <2>1, <2>3, QuietStep
<1> QED BY <1>1, <1>2, RunKeeps, ResumeKeeps, ExitStep, OtherStep, RebootStep DEF Next

-----------------------------------------------------------------------------
(* The theorems.                                                           *)

\* The inductive invariant holds always.
THEOREM Invariance == Spec => []IInv
<1> QED BY Start, Keep, PTL DEF Spec

\* However often a run is resumed, its record names what was first asked for.
THEOREM AskedIsKeptTheorem == Spec => []AskedIsKept
<1>1. IInv => AskedIsKept  BY DEF IInv, Kept, AskedIsKept
<1> QED BY <1>1, Invariance, PTL

\* No session is called crashed, or resumed, while its process runs, whatever
\* process queries could not tell and whoever got its number.
THEOREM DeadOnlyTheorem == Spec => DeadOnly
<1> DEFINE Dead == (record # NoRecord /\ last'.did \in {"crashed", "started", "refused", "failed"})
                     => ~OurProcessLives
<1>1. IInv /\ [Next]_vars => [Dead]_vars
  <2> SUFFICES ASSUME IInv, Next, record # NoRecord,
                      last'.did \in {"crashed", "started", "refused", "failed"}
               PROVE  ~OurProcessLives
    OBVIOUS
  <2>1. CASE Resume
    BY <2>1, DeadIsDead DEF Resume
  <2>2. CASE List
    <3>1. PICK answer \in processLiveness(record.pid, record.start) :
            last' = [did  |-> CASE answer = "alive" -> "running"
                                [] answer = "dead"  -> "crashed"
                                [] OTHER            -> "unknown",
                     file |-> NoFile]
      BY <2>2 DEF List
    <3>2. answer = "dead"  BY <3>1
    <3> QED BY <3>1, <3>2, DeadIsDead
  <2>3. ASSUME NEW request \in Request, Run(request) PROVE FALSE
    BY <2>3 DEF Run
  <2>4. CASE Exit \/ OtherStarts \/ Reboot \/ HookBinds \/ ChangeDisk \/ ChangeShell \/ Reinstall
    BY <2>4 DEF Exit, OtherStarts, Reboot, HookBinds, ChangeDisk, ChangeShell, Reinstall, Change, Nothing
  <2> QED BY <2>1, <2>2, <2>3, <2>4 DEF Next
<1> QED BY <1>1, Invariance, PTL DEF Spec, DeadOnly

\* A process that answers for the recorded number with the recorded start
\* time is the one of the run, except where start times repeat.
LEMMA AliveIsOurs ==
  ASSUME IInv, record # NoRecord, "alive" \in processLiveness(record.pid, record.start),
         record.start # 0, platform = "linux" => record.boot = boot
  PROVE  OurProcessLives
<1>1. process[record.pid] # NoProcess /\ process[record.pid].start = record.start
  BY DEF processLiveness, livenessFrom, queryProcess
<1>2. record.pid \in Pid /\ record.start \in Nat /\ record.boot \in 0..boot /\ boot \in Nat
  BY DEF IInv, Formed
<1>3. CASE record.boot = boot
  <2>1. ~OurProcessLives => process[record.pid].start > record.start
    BY <1>1, <1>3 DEF IInv, Times
  <2> QED BY <1>1, <1>2, <2>1
<1>4. CASE record.boot # boot
  <2>1. record.boot \in Nat /\ record.boot < boot  BY <1>2, <1>4
  <2>2. LastStart(record.boot) <= boot * (MaxTick + 1) /\ LastStart(record.boot) \in Nat
    BY <1>2, <2>1, EarlierRestart
  <2>3. process[record.pid].start > boot * (MaxTick + 1)
    BY <1>1, <1>2, <1>4 DEF IInv, Times
  <2>4. record.start <= LastStart(record.boot)
    BY DEF IInv, Times
  <2>5. boot * (MaxTick + 1) \in Nat  BY StartTimes DEF IInv
  <2> QED BY <1>1, <1>2, <2>2, <2>3, <2>4, <2>5
<1> QED BY <1>3, <1>4

\* What every step but the three commands does to last.
LEMMA OtherSteps ==
  ASSUME Exit \/ OtherStarts \/ Reboot \/ HookBinds \/ ChangeDisk \/ ChangeShell \/ Reinstall
  PROVE  last'.did = "nothing"
<1> QED BY DEF Exit, OtherStarts, Reboot, HookBinds, ChangeDisk, ChangeShell, Reinstall,
              Change, Nothing

\* What runGuarded says it did.
LEMMA RunSays ==
  ASSUME NEW requested, NEW file, NEW cwd, runGuarded(requested, file, cwd)
  PROVE  \/ last'.did = "failed"
         \/ /\ last'.did = "started" /\ last'.file = file
            /\ disk[file] \in {"program", "self"}
<1> QED BY DEF runGuarded

\* A run shown as running is running: its process number, given to another
\* process, does not deceive csg, except on Linux after a restart.
THEOREM RunningIsOursTheorem == Spec => []RunningIsOurs
<1>1. Init => RunningIsOurs
  BY DEF Init, Nothing, RunningIsOurs
<1>2. IInv /\ RunningIsOurs /\ [Next]_vars => RunningIsOurs'
  <2> SUFFICES ASSUME IInv, RunningIsOurs, [Next]_vars PROVE RunningIsOurs'
    OBVIOUS
  <2>1. CASE UNCHANGED vars
    BY <2>1 DEF RunningIsOurs, OurProcessLives, vars, clock, run
  <2>2. CASE List
    <3>1. PICK answer \in processLiveness(record.pid, record.start) :
            last' = [did  |-> CASE answer = "alive" -> "running"
                                [] answer = "dead"  -> "crashed"
                                [] OTHER            -> "unknown",
                     file |-> NoFile]
      BY <2>2 DEF List
    <3>2. last'.did = "running" => answer = "alive"  BY <3>1
    <3>3. UNCHANGED <<platform, boot, process, record>> /\ record # NoRecord
      BY <2>2 DEF List, clock, run
    <3> QED BY <3>2, <3>3, AliveIsOurs DEF RunningIsOurs, OurProcessLives
  <2>3. ASSUME NEW request \in Request, Run(request) PROVE last'.did # "running"
    BY <2>3, RunSays DEF Run, Refuse
  <2>4. CASE Resume
    BY <2>4, RunSays DEF Resume, Refuse, RunningIsOurs
  <2> QED BY <2>1, <2>2, <2>3, <2>4, OtherSteps DEF Next, RunningIsOurs
<1> QED BY <1>1, <1>2, Invariance, PTL DEF Spec

\* What a request resolves to is not csg.
LEMMA ResolvedIsNotGuard ==
  ASSUME NEW request, NEW cwd, NEW file, file = resolveLaunchTarget(env, request, cwd),
         file # NoFile
  PROVE  ~isGuardInstallEntry(file, installDir) /\ disk[file] # "self"
<1>1. env.disk = disk /\ env.installDir = installDir  BY DEF env
<1> QED BY <1>1 DEF resolveLaunchTarget

\* What a record leads to is not csg, is of this operating system, and is the
\* recorded program while that is there.
LEMMA RecordedIsNotGuard ==
  ASSUME NEW file, file = targetForRecord(env, record)[1], file # NoFile
  PROVE  /\ ~isGuardInstallEntry(file, installDir) /\ disk[file] # "self"
         /\ platform = record.platform
         /\ (disk[record.resolved] = "program" /\ ~isGuardInstallEntry(record.resolved, installDir))
              => file = record.resolved
<1>1. env.disk = disk /\ env.installDir = installDir /\ env.platform = platform  BY DEF env
<1> DEFINE anew == resolveLaunchTarget(env, record.requested, record.cwd)
           gone == disk[record.resolved] \in {"absent", "dir"}
                     \/ isGuardInstallEntry(record.resolved, installDir)
<1>2. record.platform = platform
  BY <1>1 DEF targetForRecord
<1>3. CASE gone
  <2>1. file = anew  BY <1>1, <1>2, <1>3 DEF targetForRecord
  <2> HIDE DEF anew
  <2>2. ~isGuardInstallEntry(file, installDir) /\ disk[file] # "self"
    BY <2>1, ResolvedIsNotGuard DEF anew
  <2> QED BY <1>2, <1>3, <2>2
<1>4. CASE ~gone
  <2>1. disk[record.resolved] # "self" /\ file = record.resolved
    BY <1>1, <1>2, <1>4 DEF targetForRecord
  <2> QED BY <1>2, <1>4, <2>1
<1> QED BY <1>3, <1>4

\* A resumed session gets the program it ran with as long as it is there,
\* and never one of another operating system.
THEOREM SameProgramTheorem == Spec => SameProgram
<1> DEFINE Same == (record # NoRecord /\ last'.did = "started")
       => /\ platform = record.platform
          /\ (disk[record.resolved] = "program" /\ ~isGuardInstallEntry(record.resolved, installDir))
               => last'.file = record.resolved
<1>1. [Next]_vars => [Same]_vars
  <2> SUFFICES ASSUME Next, record # NoRecord, last'.did = "started" PROVE Same
    OBVIOUS
  <2>1. CASE Resume
    <3> DEFINE file == targetForRecord(env, record)
    <3>1. IF file[1] = NoFile THEN Refuse
          ELSE \E cwd \in {record.cwd, here} : runGuarded(file[2], file[1], cwd)
      BY <2>1 DEF Resume
    <3> HIDE DEF file
    <3>2. file[1] # NoFile /\ last'.file = file[1]
      BY <3>1, RunSays DEF Refuse
    <3> QED BY <3>2, RecordedIsNotGuard DEF file
  <2>2. CASE List
    BY <2>2 DEF List
  <2>3. ASSUME NEW request \in Request, Run(request) PROVE FALSE
    BY <2>3 DEF Run
  <2> QED BY <2>1, <2>2, <2>3, OtherSteps DEF Next
<1> QED BY <1>1, PTL DEF Spec, SameProgram

\* csg starts a program and never itself.
THEOREM NeverItselfTheorem == Spec => []NeverItself
<1>1. Init => NeverItself
  BY DEF Init, Nothing, NeverItself
<1>2. NeverItself /\ [Next]_vars => NeverItself'
  <2> SUFFICES ASSUME NeverItself, [Next]_vars PROVE NeverItself'
    OBVIOUS
  <2>1. CASE UNCHANGED vars
    BY <2>1 DEF NeverItself, isGuardInstallEntry, vars, files
  <2>2. ASSUME NEW requested, NEW file, NEW cwd, runGuarded(requested, file, cwd),
               ~isGuardInstallEntry(file, installDir), disk[file] # "self",
               UNCHANGED files
        PROVE  NeverItself'
    <3>1. UNCHANGED <<disk, installDir>>  BY <2>2 DEF files
    <3>2. \/ last'.did = "failed"
          \/ last'.file = file /\ disk[file] = "program"
      BY <2>2, RunSays
    <3> QED BY <2>2, <3>1, <3>2 DEF NeverItself, isGuardInstallEntry
  <2>3. CASE Refuse
    BY <2>3 DEF Refuse, NeverItself
  <2>4. ASSUME NEW request \in Request, Run(request) PROVE NeverItself'
    <3> DEFINE file == resolveLaunchTarget(env, request, here)
    <3>1. (IF file = NoFile THEN Refuse ELSE runGuarded(request, file, here)) /\ UNCHANGED files
      BY <2>4 DEF Run
    <3>2. file # NoFile => ~isGuardInstallEntry(file, installDir) /\ disk[file] # "self"
      BY ResolvedIsNotGuard
    <3> HIDE DEF file
    <3> QED BY <2>2, <2>3, <3>1, <3>2
  <2>5. CASE Resume
    <3> DEFINE file == targetForRecord(env, record)
    <3>1. /\ UNCHANGED files
          /\ IF file[1] = NoFile THEN Refuse
             ELSE \E cwd \in {record.cwd, here} : runGuarded(file[2], file[1], cwd)
      BY <2>5 DEF Resume
    <3>2. file[1] # NoFile => ~isGuardInstallEntry(file[1], installDir) /\ disk[file[1]] # "self"
      BY RecordedIsNotGuard
    <3> HIDE DEF file
    <3> QED BY <2>2, <2>3, <3>1, <3>2
  <2>6. CASE List
    BY <2>6 DEF List, NeverItself
  <2> QED BY <2>1, <2>4, <2>5, <2>6, OtherSteps DEF Next, NeverItself
<1> QED BY <1>1, <1>2, PTL DEF Spec

-----------------------------------------------------------------------------
(* Types.                                                                  *)

\* The search stops at a file that can be launched.
LEMMA FoundFile ==
  ASSUME NEW candidates, DOMAIN candidates \subseteq Nat, NEW launchable
  PROVE  firstFile(candidates, launchable) \in launchable \cup {NoFile}
<1> DEFINE good == {i \in DOMAIN candidates : candidates[i] \in launchable}
           first == CHOOSE i \in good : \A j \in good : i <= j
<1>1. firstFile(candidates, launchable) = IF good = {} THEN NoFile ELSE candidates[first]
  BY DEF firstFile
<1>2. \A i \in good : candidates[i] \in launchable
  OBVIOUS
<1>3. good \in SUBSET Nat
  OBVIOUS
<1> HIDE DEF good
<1>4. good # {} => \E i \in good : \A j \in good : i <= j
  BY <1>3, LeastNatural
<1>5. good # {} => first \in good
  BY <1>4, Zenon
<1> HIDE DEF first
<1> QED BY <1>1, <1>2, <1>5

\* What a request resolves to is a file or none.
LEMMA ResolvedIsFile ==
  ASSUME TypeOK, NEW request \in Request, NEW cwd
  PROVE  resolveLaunchTarget(env, request, cwd) \in File \cup {NoFile}
<1>1. /\ request.form \in {"bare", "relative", "absolute"} /\ request.name \in Name
      /\ path \in Seq(Place) /\ env.path = path
  BY PathAssumption DEF Request, TypeOK, env
<1>2. windowsLaunchCandidates(env.platform, request.name) \in Seq(Name)
  BY <1>1, BatchAssumption DEF windowsLaunchCandidates
<1>3. launchFiles(env) \subseteq File
  BY DEF launchFiles
<1>4. \A place : resolveExplicitLaunchPath(env, place, request.name) \in File \cup {NoFile}
  <2> TAKE place
  <2> DEFINE names == windowsLaunchCandidates(env.platform, request.name)
             candidates == [i \in DOMAIN names |-> <<place, names[i]>>]
  <2>1. DOMAIN candidates \subseteq Nat
    BY <1>2
  <2> HIDE DEF candidates
  <2>2. firstFile(candidates, launchFiles(env)) \in File \cup {NoFile}
    BY <1>3, <2>1, FoundFile
  <2> QED BY <2>2 DEF resolveExplicitLaunchPath, candidates
<1>5. lookPathExcluding(env, request.name) \in File \cup {NoFile}
  <2> DEFINE names == windowsLaunchCandidates(env.platform, request.name)
             n     == Len(names)
             candidates == [i \in 1..(n * Len(env.path)) |->
                              <<env.path[((i - 1) \div n) + 1], names[((i - 1) % n) + 1]>>]
             launchable == {file \in launchFiles(env) : ~isGuardInstallEntry(file, env.installDir)}
  <2>1. n \in Nat /\ Len(env.path) \in Nat
    BY <1>1, <1>2
  <2>2. lookPathExcluding(env, request.name) = firstFile(candidates, launchable)
    BY DEF lookPathExcluding
  <2>3. launchable \subseteq File
    BY <1>3
  <2>4. DOMAIN candidates = 1..(n * Len(env.path))
    OBVIOUS
  <2> HIDE DEF n, candidates, launchable
  <2>5. n * Len(env.path) \in Nat
    BY <2>1
  <2>6. DOMAIN candidates \subseteq Nat
    BY <2>4, <2>5
  <2> QED BY <2>2, <2>3, <2>6, FoundFile
<1> QED BY <1>1, <1>4, <1>5 DEF resolveLaunchTarget

\* So is what a record leads to.
LEMMA RecordedIsFile ==
  ASSUME TypeOK, record # NoRecord
  PROVE  /\ targetForRecord(env, record)[1] \in File \cup {NoFile}
         /\ targetForRecord(env, record)[2] = record.requested /\ record.requested \in Request
         /\ record.cwd \in Place
<1>1. record.requested \in Request /\ record.resolved \in File /\ record.cwd \in Place
  BY DEF TypeOK, Record
<1>2. resolveLaunchTarget(env, record.requested, record.cwd) \in File \cup {NoFile}
  BY <1>1, ResolvedIsFile
<1> QED BY <1>1, <1>2 DEF targetForRecord

Commanded == /\ process \in [Pid -> {NoProcess} \cup [ours : BOOLEAN, start : Nat]]
             /\ record \in {NoRecord} \cup Record /\ asked \in {NoRecord} \cup Request
             /\ last \in [did : {"nothing", "started", "failed", "refused", "running", "unknown", "crashed"},
                          file : File \cup {NoFile}]
Around == /\ platform \in Platform
          /\ disk \in [File -> Kind] /\ path \in Path /\ installDir \in Place /\ here \in Place
          /\ boot \in 0..MaxBoot /\ tick \in 0..MaxTick /\ changes \in 0..MaxChanges

LEMMA Typed == TypeOK <=> Commanded /\ Around
BY DEF TypeOK, Commanded, Around

LEMMA StartNatural == ASSUME TypeOK PROVE startTime \in Nat
BY DEF startTime, TypeOK

\* A target is started, or is not.
LEMMA RunTypes ==
  ASSUME TypeOK, NEW requested \in Request, NEW file \in File, NEW cwd \in Place,
         runGuarded(requested, file, cwd) \/ Refuse
  PROVE  /\ process' \in [Pid -> {NoProcess} \cup [ours : BOOLEAN, start : Nat]]
         /\ record' \in {NoRecord} \cup Record
         /\ last' \in [did : {"nothing", "started", "failed", "refused", "running", "unknown", "crashed"},
                       file : File \cup {NoFile}]
<1>1. Commanded /\ Around /\ startTime \in Nat
  BY Typed, StartNatural
<1>2. CASE /\ last' \in {[did |-> "failed", file |-> NoFile], [did |-> "refused", file |-> NoFile]}
           /\ UNCHANGED <<process, record>>
  BY <1>1, <1>2 DEF Commanded
<1>3. ASSUME NEW pid \in Pid, NEW known \in {startTime, 0},
             process' = [process EXCEPT ![pid] = [ours |-> TRUE, start |-> startTime]],
             record' = [requested |-> requested, resolved |-> file, platform |-> platform,
                        cwd |-> cwd, pid |-> pid, start |-> known, boot |-> boot],
             last' = [did |-> "started", file |-> file]
      PROVE  /\ process' \in [Pid -> {NoProcess} \cup [ours : BOOLEAN, start : Nat]]
             /\ record' \in {NoRecord} \cup Record
             /\ last' \in [did : {"nothing", "started", "failed", "refused", "running", "unknown", "crashed"},
                           file : File \cup {NoFile}]
  <2>1. process' \in [Pid -> {NoProcess} \cup [ours : BOOLEAN, start : Nat]]
    BY <1>1, <1>3 DEF Commanded
  <2>2. record' \in Record
    BY <1>1, <1>3 DEF Around, Record
  <2> QED BY <1>3, <2>1, <2>2
<1> QED BY <1>2, <1>3 DEF runGuarded, Refuse

LEMMA TypesStart == Init => TypeOK
<1> SUFFICES ASSUME Init PROVE TypeOK
  OBVIOUS
<1>1. disk \in [File -> Kind]
  BY DEF Init, Kind
<1> QED BY <1>1 DEF Init, TypeOK, Nothing

\* The commands.
LEMMA TypesOfRun == ASSUME TypeOK, NEW request \in Request, Run(request) PROVE TypeOK'
<1> DEFINE file == resolveLaunchTarget(env, request, here)
<1>1. Commanded /\ Around
  BY Typed
<1>2. file \in File \cup {NoFile}
  BY <1>1, ResolvedIsFile DEF Around
<1>3. /\ IF file = NoFile THEN Refuse ELSE runGuarded(request, file, here)
      /\ asked' = IF record' = NoRecord THEN NoRecord ELSE request
      /\ UNCHANGED <<files, clock, changes>>
  BY DEF Run
<1> HIDE DEF file
<1>4. CASE file = NoFile
  <2>1. Refuse
    BY <1>3, <1>4
  <2> QED BY <1>1, <1>3, <2>1, Typed DEF Commanded, Around, Refuse, files, clock, TypeOK
<1>5. CASE file # NoFile
  <2>1. file \in File /\ here \in Place /\ (runGuarded(request, file, here) \/ Refuse)
    BY <1>1, <1>2, <1>3, <1>5 DEF Around
  <2>2. /\ process' \in [Pid -> {NoProcess} \cup [ours : BOOLEAN, start : Nat]]
        /\ record' \in {NoRecord} \cup Record
        /\ last' \in [did : {"nothing", "started", "failed", "refused", "running", "unknown", "crashed"},
                      file : File \cup {NoFile}]
    BY <2>1, RunTypes
  <2> QED BY <1>1, <1>3, <2>2 DEF Commanded, Around, files, clock, TypeOK
<1> QED BY <1>4, <1>5

LEMMA TypesOfResume == ASSUME TypeOK, Resume PROVE TypeOK'
<1> DEFINE file == targetForRecord(env, record)
<1>1. Commanded /\ Around
  BY Typed
<1>2. /\ record # NoRecord
      /\ IF file[1] = NoFile THEN Refuse
         ELSE \E cwd \in {record.cwd, here} : runGuarded(file[2], file[1], cwd)
      /\ UNCHANGED <<files, clock, asked, changes>>
  BY DEF Resume
<1>3. file[1] \in File \cup {NoFile} /\ file[2] \in Request /\ record.cwd \in Place /\ here \in Place
  BY <1>1, <1>2, RecordedIsFile DEF Around
<1> HIDE DEF file
<1>4. CASE file[1] = NoFile
  BY <1>1, <1>2, <1>4 DEF Commanded, Around, Refuse, files, clock, TypeOK
<1>5. CASE file[1] # NoFile
  <2>1. PICK cwd \in {record.cwd, here} : runGuarded(file[2], file[1], cwd)
    BY <1>2, <1>5
  <2>2. /\ process' \in [Pid -> {NoProcess} \cup [ours : BOOLEAN, start : Nat]]
        /\ record' \in {NoRecord} \cup Record
        /\ last' \in [did : {"nothing", "started", "failed", "refused", "running", "unknown", "crashed"},
                      file : File \cup {NoFile}]
    BY <1>3, <1>5, <2>1, RunTypes
  <2> QED BY <1>1, <1>2, <2>2 DEF Commanded, Around, files, clock, TypeOK
<1> QED BY <1>4, <1>5

LEMMA TypesOfList == ASSUME TypeOK, List PROVE TypeOK'
BY DEF List, TypeOK, files, clock, run

\* What goes on around csg.
LEMMA TypesAround ==
  ASSUME TypeOK,
         Exit \/ OtherStarts \/ Reboot \/ HookBinds \/ ChangeDisk \/ ChangeShell \/ Reinstall
  PROVE  TypeOK'
<1>1. Commanded /\ Around /\ startTime \in Nat
  BY Typed, StartNatural
<1>2. Nothing \in [did : {"nothing", "started", "failed", "refused", "running", "unknown", "crashed"},
                   file : File \cup {NoFile}]
  BY DEF Nothing
<1>3. ASSUME Change PROVE changes' \in 0..MaxChanges /\ last' = Nothing
  BY <1>1, <1>3 DEF Change, Around
<1>4. CASE Exit
  <2>1. process' \in [Pid -> {NoProcess} \cup [ours : BOOLEAN, start : Nat]]
    BY <1>1, <1>4 DEF Exit, Commanded
  <2>2. tick' \in 0..MaxTick
    BY <1>1, <1>4 DEF Exit, Around
  <2>3. record' \in {NoRecord} \cup Record /\ asked' \in {NoRecord} \cup Request /\ last' = Nothing
    BY <1>1, <1>4 DEF Exit, Commanded
  <2> QED BY <1>1, <1>2, <1>4, <2>1, <2>2, <2>3 DEF Exit, Around, files, TypeOK
<1>5. CASE OtherStarts
  <2>1. process' \in [Pid -> {NoProcess} \cup [ours : BOOLEAN, start : Nat]]
    BY <1>1, <1>5 DEF OtherStarts, Commanded
  <2> QED BY <1>1, <1>2, <1>3, <1>5, <2>1 DEF OtherStarts, Commanded, Around, files, clock, TypeOK
<1>6. CASE Reboot
  BY <1>1, <1>2, <1>6 DEF Reboot, Commanded, Around, files, TypeOK
<1>7. CASE HookBinds
  <2>1. record' \in Record
    BY <1>1, <1>7 DEF HookBinds, Commanded, Record
  <2> QED BY <1>1, <1>2, <1>3, <1>7, <2>1 DEF HookBinds, Commanded, Around, files, clock, TypeOK
<1>8. CASE ChangeDisk
  <2>1. disk' \in [File -> Kind]
    BY <1>1, <1>8 DEF ChangeDisk, Around
  <2> QED BY <1>1, <1>2, <1>3, <1>8, <2>1 DEF ChangeDisk, Commanded, Around, clock, run, TypeOK
<1>9. CASE ChangeShell
  BY <1>1, <1>2, <1>3, <1>9 DEF ChangeShell, Commanded, Around, clock, run, TypeOK
<1>10. CASE Reinstall
  <2>1. disk' \in [File -> Kind]
    BY <1>1, <1>10 DEF Reinstall, Around, Kind
  <2> QED BY <1>1, <1>2, <1>3, <1>10, <2>1 DEF Reinstall, Commanded, Around, clock, run, TypeOK
<1> QED BY <1>4, <1>5, <1>6, <1>7, <1>8, <1>9, <1>10

\* Every variable keeps its type: whatever csg run or csg resume starts is a
\* file the search found, and a record that is rewritten is a record.
THEOREM TypeOKTheorem == Spec => []TypeOK
<1>1. Init => TypeOK
  BY TypesStart
<1>2. TypeOK /\ [Next]_vars => TypeOK'
  <2> SUFFICES ASSUME TypeOK, [Next]_vars PROVE TypeOK'
    OBVIOUS
  <2>1. CASE \E request \in Request : Run(request)
    BY <2>1, TypesOfRun
  <2>2. CASE List \/ Resume
    BY <2>2, TypesOfList, TypesOfResume
  <2>3. CASE Exit \/ OtherStarts \/ Reboot \/ HookBinds \/ ChangeDisk \/ ChangeShell \/ Reinstall
    BY <2>3, TypesAround
  <2>4. CASE UNCHANGED vars
    BY <2>4 DEF vars, files, clock, run, TypeOK
  <2> QED BY <2>1, <2>2, <2>3, <2>4 DEF Next
<1> QED BY <1>1, <1>2, PTL DEF Spec

-----------------------------------------------------------------------------
(* Argument lines.                                                         *)

\* What explicitResumeSessionID makes of the argument at index.
Step(args, from, index) ==
  IF index > Len(args) THEN NoSession
  ELSE IF args[index] = "resume"
  THEN IF index + 1 = Len(args) /\ args[index + 1] \in SessionID
       THEN args[index + 1] ELSE NoSession
  ELSE LET consumed == consumeKnownGlobalOption(args, index)
       IN IF consumed = 0 THEN NoSession ELSE from[index + consumed]

\* from is what it makes of every argument.
Walks(args, from) == from = [index \in 1..(Len(args) + 1) |-> Step(args, from, index)]

Sessions == SessionID \cup {NoSession}

\* An option is taken with its value only where there is one.
LEMMA Consumed ==
  ASSUME NEW args \in Seq(Argument), NEW index \in 1..Len(args)
  PROVE  LET consumed == consumeKnownGlobalOption(args, index)
         IN /\ consumed \in {0, 1, 2} /\ index + consumed <= Len(args) + 1
            /\ consumed = 1 <=> args[index] \in {"flag", "option=value"}
            /\ consumed = 2 <=> args[index] = "option" /\ index + 1 <= Len(args)
BY DEF consumeKnownGlobalOption

LEMMA StepLooksAhead ==
  ASSUME NEW args \in Seq(Argument), NEW index \in 1..(Len(args) + 1), NEW f, NEW g,
         \A i \in (index + 1)..(Len(args) + 1) : f[i] = g[i] /\ f[i] \in Sessions
  PROVE  Step(args, f, index) = Step(args, g, index) /\ Step(args, f, index) \in Sessions
<1>1. CASE index > Len(args)
  BY <1>1 DEF Step, Sessions
<1>2. CASE index <= Len(args)
  <2> DEFINE consumed == consumeKnownGlobalOption(args, index)
  <2>1. consumed \in {0, 1, 2} /\ index + consumed <= Len(args) + 1 /\ index \in 1..Len(args)
    BY <1>2, Consumed
  <2> HIDE DEF consumed
  <2>2. consumed # 0 => index + consumed \in (index + 1)..(Len(args) + 1)
    BY <2>1
  <2>3. \A h : Step(args, h, index) =
          IF args[index] = "resume"
          THEN IF index + 1 = Len(args) /\ args[index + 1] \in SessionID
               THEN args[index + 1] ELSE NoSession
          ELSE IF consumed = 0 THEN NoSession ELSE h[index + consumed]
    BY <1>2 DEF Step, consumed
  <2> QED BY <2>2, <2>3 DEF Sessions
<1> QED BY <1>1, <1>2

\* The walk over the arguments is a function: it can be built from the end.
LEMMA WalkExists ==
  ASSUME NEW args \in Seq(Argument)
  PROVE  \E from \in [1..(Len(args) + 1) -> Sessions] : Walks(args, from)
<1> DEFINE N == Len(args) + 1
           Correct(f, n) == \A i \in 1..N : i > N - n => f[i] = Step(args, f, i)
           T == {n \in 0..N : \E f \in [1..N -> Sessions] : Correct(f, n)}
<1>0. N \in Nat /\ N > 0
  OBVIOUS
<1>1. 0 \in T
  <2> DEFINE f == [i \in 1..N |-> NoSession]
  <2>1. f \in [1..N -> Sessions]
    BY DEF Sessions
  <2>2. Correct(f, 0)
    BY <1>0
  <2> QED BY <1>0, <2>1, <2>2
<1>2. ASSUME NEW n \in 0..N, n \in T, n < N PROVE n + 1 \in T
  <2>1. PICK f \in [1..N -> Sessions] : Correct(f, n)
    BY <1>2
  <2> DEFINE index == N - n
             g     == [f EXCEPT ![index] = Step(args, f, index)]
  <2>2. index \in 1..N /\ n + 1 \in 0..N /\ \A i \in 1..N : i > N - (n + 1) <=> i = index \/ i > index
    BY <1>0, <1>2
  <2>3. \A i \in (index + 1)..N : f[i] \in Sessions /\ f[i] = g[i] /\ i \in 1..N /\ i > N - n
    BY <2>1, <2>2
  <2>4. Step(args, f, index) = Step(args, g, index) /\ Step(args, f, index) \in Sessions
    <3> HIDE DEF g, index
    <3> QED BY <2>2, <2>3, StepLooksAhead
  <2>5. g \in [1..N -> Sessions] /\ g[index] = Step(args, g, index)
    BY <2>1, <2>2, <2>4
  <2>6. ASSUME NEW i \in 1..N, i > index PROVE g[i] = Step(args, g, i)
    <3>1. f[i] = g[i] /\ f[i] = Step(args, f, i)
      BY <2>1, <2>3, <2>6
    <3>2. \A j \in (i + 1)..N : f[j] = g[j] /\ f[j] \in Sessions
      BY <2>1, <2>2, <2>3, <2>6
    <3>3. Step(args, f, i) = Step(args, g, i)
      <4> HIDE DEF g, index
      <4> QED BY <3>2, StepLooksAhead
    <3> QED BY <3>1, <3>3
  <2>7. Correct(g, n + 1)
    <3> HIDE DEF g, index
    <3> QED BY <2>2, <2>5, <2>6
  <2> HIDE DEF g, index, Correct
  <2> QED BY <2>2, <2>5, <2>7
<1>3. N \in T
  <2> HIDE DEF T, N
  <2>1. \A n \in 0..N : n \in T
    BY <1>0, <1>1, <1>2, Upwards
  <2> QED BY <1>0, <2>1
<1>4. PICK f \in [1..N -> Sessions] : Correct(f, N)
  BY <1>3
<1>5. \A i \in 1..N : f[i] = Step(args, f, i)
  BY <1>0, <1>4
<1>6. f = [i \in 1..N |-> f[i]]
  OBVIOUS
<1>7. [i \in 1..N |-> f[i]] = [i \in 1..N |-> Step(args, f, i)]
  BY <1>5, Zenon
<1> QED BY <1>6, <1>7 DEF Walks

LEMMA Walked ==
  ASSUME NEW args \in Seq(Argument)
  PROVE  \E from : /\ \A i \in 1..(Len(args) + 1) : from[i] = Step(args, from, i)
                   /\ explicitResumeSessionID(args) = from[1]
<1> DEFINE from == CHOOSE f : Walks(args, f)
<1>1. explicitResumeSessionID(args) = from[1]
  BY DEF explicitResumeSessionID, Walks, Step
<1>2. Walks(args, from)
  BY WalkExists, Zenon
<1> HIDE DEF from
<1>3. \A i \in 1..(Len(args) + 1) : from[i] = Step(args, from, i)
  BY <1>2, Zenon DEF Walks
<1> QED BY <1>1, <1>3

\* The places in cuts divide what stands before the last two arguments into
\* flags and options with their values.
Divide(args, cuts) ==
  \A i, j \in cuts :
    (i < j /\ \A k \in cuts : ~(i < k /\ k < j))
      => \/ j = i + 1 /\ args[i] \in {"flag", "option=value"}
         \/ j = i + 2 /\ args[i] = "option"

Ends(args, session) ==
  /\ Len(args) >= 2
  /\ args[Len(args)] = session /\ args[Len(args) - 1] = "resume"

LEMMA Named ==
  ASSUME NEW args \in Seq(Argument), NEW session
  PROVE  namesSession(args, session) <=>
           /\ Ends(args, session)
           /\ \E cuts \in SUBSET (1..(Len(args) - 1)) :
                {1, Len(args) - 1} \subseteq cuts /\ Divide(args, cuts)
<1> DEFINE N == Len(args)
<1>1. N \in Nat
  OBVIOUS
<1>2. namesSession(args, session) <=>
        \E cuts \in SUBSET (1..(N - 1)) :
          {1, N - 1} \subseteq cuts /\ (args[N] = session /\ args[N - 1] = "resume") /\ Divide(args, cuts)
  BY DEF namesSession, Divide
<1> HIDE DEF N
<1>3. \A cuts \in SUBSET (1..(N - 1)) : {1, N - 1} \subseteq cuts => N >= 2
  BY <1>1
<1> QED BY <1>2, <1>3 DEF Ends, N

\* Where the walk finds a session, the line can be cut from there on.
LEMMA WalkIsCut ==
  ASSUME NEW args \in Seq(Argument), NEW from, NEW session, session # NoSession,
         \A i \in 1..(Len(args) + 1) : from[i] = Step(args, from, i),
         from[1] = session
  PROVE  namesSession(args, session)
<1> DEFINE N == Len(args)
           Cut(i) == /\ Ends(args, session)
                     /\ \E cuts \in SUBSET (i..(N - 1)) : {i, N - 1} \subseteq cuts /\ Divide(args, cuts)
           Good(i) == from[i] = session => Cut(i)
           T == {n \in 0..N : \A i \in 1..(N + 1) : i >= N + 1 - n => Good(i)}
<1>0. N \in Nat /\ session # NoSession
  OBVIOUS
<1>1. 0 \in T
  <2>1. N + 1 \in 1..(N + 1) /\ N + 1 > N
    BY <1>0
  <2>2. Step(args, from, N + 1) = NoSession
    BY <2>1 DEF Step
  <2>3. from[N + 1] = NoSession
    BY <2>1, <2>2
  <2>4. Good(N + 1)
    BY <1>0, <2>3
  <2>5. \A i \in 1..(N + 1) : i >= N + 1 - 0 => i = N + 1
    BY <1>0
  <2> HIDE DEF Good
  <2> QED BY <1>0, <2>4, <2>5
<1>2. ASSUME NEW n \in 0..N, n \in T, n < N PROVE n + 1 \in T
  <2> DEFINE index == N - n
  <2>1. index \in 1..N /\ index \in 1..(N + 1) /\ n + 1 \in 0..N
        /\ \A i \in 1..(N + 1) : (i >= N + 1 - (n + 1) => i = index \/ i > index)
                                /\ (i > index => i >= N + 1 - n)
    BY <1>0, <1>2
  <2>2. \A i \in 1..(N + 1) : i > index => Good(i)
    <3> HIDE DEF Good, index
    <3> QED BY <1>2, <2>1
  <2> HIDE DEF index
  <2>3. Good(index)
    <3> SUFFICES ASSUME from[index] = session PROVE Cut(index)
      OBVIOUS
    <3>1. Step(args, from, index) = session /\ ~(index > N)
      BY <1>0, <2>1
    <3>2. CASE args[index] = "resume"
      <4>1. index + 1 = N /\ args[index + 1] = session
        BY <1>0, <3>1, <3>2 DEF Step
      <4>2. Ends(args, session)
        BY <1>0, <2>1, <3>2, <4>1 DEF Ends
      <4>3. {index} \in SUBSET (index..(N - 1)) /\ {index, N - 1} \subseteq {index} /\ Divide(args, {index})
        BY <1>0, <2>1, <4>1 DEF Divide
      <4> QED BY <4>2, <4>3
    <3>3. CASE args[index] # "resume"
      <4> DEFINE consumed == consumeKnownGlobalOption(args, index)
                 next     == index + consumed
      <4>1. /\ consumed \in {0, 1, 2} /\ next <= N + 1
            /\ consumed = 1 <=> args[index] \in {"flag", "option=value"}
            /\ consumed = 2 <=> args[index] = "option" /\ index + 1 <= N
        BY <2>1, Consumed
      <4>2. Step(args, from, index) = IF consumed = 0 THEN NoSession ELSE from[next]
        BY <3>1, <3>3 DEF Step
      <4> HIDE DEF consumed
      <4>3. consumed \in {1, 2} /\ from[next] = session
        BY <1>0, <3>1, <4>1, <4>2
      <4>4. next \in 1..(N + 1) /\ next > index
        BY <1>0, <2>1, <4>1, <4>3
      <4>5. Cut(next)
        <5> HIDE DEF next, Cut
        <5> QED BY <2>2, <4>3, <4>4
      <4>6. PICK cuts \in SUBSET (next..(N - 1)) : {next, N - 1} \subseteq cuts /\ Divide(args, cuts)
        BY <4>5
      <4> DEFINE more == cuts \cup {index}
      <4>7. more \in SUBSET (index..(N - 1)) /\ {index, N - 1} \subseteq more
        BY <1>0, <2>1, <4>4, <4>6
      <4>8. ASSUME NEW i \in more, NEW j \in more, i < j, \A k \in more : ~(i < k /\ k < j)
            PROVE  \/ j = i + 1 /\ args[i] \in {"flag", "option=value"}
                   \/ j = i + 2 /\ args[i] = "option"
        <5>1. CASE i \in cuts /\ j \in cuts
          BY <4>6, <4>8, <5>1 DEF Divide
        <5>2. CASE i = index /\ j \in cuts
          <6>1. next \in more /\ ~(index < next /\ next < j) /\ j \in next..(N - 1) /\ next \in Int /\ j \in Int
            BY <1>0, <4>4, <4>6, <4>8, <5>2
          <6>2. j = next
            BY <4>4, <6>1
          <6> QED BY <2>1, <4>1, <4>3, <5>2, <6>2
        <5>3. CASE j = index
          BY <1>0, <2>1, <4>4, <4>7, <4>8, <5>3
        <5> QED BY <5>1, <5>2, <5>3
      <4>9. Divide(args, more)
        <5> HIDE DEF more
        <5> QED BY <4>8 DEF Divide
      <4> HIDE DEF more
      <4> QED BY <4>5, <4>7, <4>9
    <3> QED BY <3>2, <3>3
  <2>4. \A i \in 1..(N + 1) : i >= N + 1 - (n + 1) => Good(i)
    <3> HIDE DEF Good
    <3> QED BY <2>1, <2>2, <2>3
  <2> HIDE DEF Good
  <2> QED BY <2>1, <2>4
<1>3. Good(1)
  <2>1. \A n \in 0..N : n \in T
    <3> HIDE DEF T, N
    <3> QED BY <1>0, <1>1, <1>2, Upwards
  <2>2. N \in T /\ 1 \in 1..(N + 1) /\ 1 >= N + 1 - N
    BY <1>0, <2>1
  <2> HIDE DEF Good
  <2> QED BY <2>2
<1> QED BY <1>3, Named

\* Where the line can be cut, the walk goes from cut to cut to the session.
LEMMA CutIsWalked ==
  ASSUME NEW args \in Seq(Argument), NEW from, NEW session \in SessionID,
         \A i \in 1..(Len(args) + 1) : from[i] = Step(args, from, i),
         namesSession(args, session)
  PROVE  from[1] = session
<1> DEFINE N == Len(args)
<1>0. N \in Nat
  OBVIOUS
<1>1. PICK cuts \in SUBSET (1..(N - 1)) : {1, N - 1} \subseteq cuts /\ Divide(args, cuts)
  BY Named
<1>2. N >= 2 /\ args[N] = session /\ args[N - 1] = "resume"
  BY Named DEF Ends
<1> DEFINE final == N - 1
           T == {n \in 0..final : \A i \in cuts : i >= final - n => from[i] = session}
<1>3. final \in Nat /\ final \in cuts /\ 1 \in cuts
  BY <1>0, <1>1, <1>2
<1>4. 0 \in T
  <2>1. final \in 1..(N + 1) /\ ~(final > N) /\ final + 1 = N
    BY <1>0, <1>2
  <2>2. Step(args, from, final) = session
    BY <1>2, <2>1 DEF Step
  <2>3. from[final] = session
    BY <2>1, <2>2
  <2>4. \A i \in cuts : i >= final - 0 => i = final
    BY <1>0, <1>1
  <2> QED BY <1>3, <2>3, <2>4
<1>5. ASSUME NEW n \in 0..final, n \in T, n < final PROVE n + 1 \in T
  <2>1. ASSUME NEW i \in cuts, i = final - (n + 1) PROVE from[i] = session
    <3> DEFINE later == {j \in cuts : j > i}
    <3>1. i \in 1..(N - 1) /\ i < final /\ final \in later /\ later \in SUBSET Nat
      <4>1. i \in 1..(N - 1) /\ n \in Nat
        BY <1>1, <1>5, <2>1
      <4>2. i < final
        BY <1>3, <2>1, <4>1
      <4>3. later \in SUBSET Nat
        <5>1. \A k \in 1..(N - 1) : k \in Nat
          BY <1>0
        <5> HIDE DEF N
        <5> QED BY <1>1, <5>1
      <4> QED BY <1>3, <4>1, <4>2, <4>3
    <3>2. PICK j \in later : \A k \in later : j <= k
      <4> HIDE DEF later
      <4> QED BY <3>1, LeastNatural
    <3>3. i \in cuts /\ j \in cuts /\ i < j /\ j \in 1..(N - 1) /\ \A k \in cuts : ~(i < k /\ k < j)
      <4>1. \A k \in cuts : k \in Int /\ (i < k => j <= k)
        BY <1>0, <1>1, <3>2
      <4>2. j \in Int /\ i \in Int
        BY <3>1, <4>1
      <4> QED BY <1>1, <3>2, <4>1, <4>2
    <3>4. \/ j = i + 1 /\ args[i] \in {"flag", "option=value"}
          \/ j = i + 2 /\ args[i] = "option"
      BY <1>1, <3>3 DEF Divide
    <3>5. j >= final - n
      BY <1>0, <1>5, <2>1, <3>1, <3>3
    <3>6. from[j] = session
      BY <1>5, <3>3, <3>5
    <3> DEFINE consumed == consumeKnownGlobalOption(args, i)
    <3>7. i \in 1..N /\ i \in 1..(N + 1) /\ ~(i > N) /\ args[i] # "resume" /\ i + 1 <= N
      BY <1>0, <3>1, <3>4
    <3>8. consumed = j - i
      BY <3>3, <3>4, <3>7, Consumed
    <3>9. Step(args, from, i) = from[i + consumed] /\ i + consumed = j
      <4>1. consumed # 0 /\ i + consumed = j
        BY <3>1, <3>3, <3>8
      <4>2. Step(args, from, i) = IF consumed = 0 THEN NoSession ELSE from[i + consumed]
        BY <3>7 DEF Step
      <4> QED BY <4>1, <4>2
    <3> QED BY <3>6, <3>7, <3>9
  <2>2. n + 1 \in 0..final
    BY <1>3, <1>5
  <2>3. \A i \in cuts : i >= final - (n + 1) => (i = final - (n + 1) \/ i >= final - n)
    BY <1>0, <1>1, <1>3
  <2> QED BY <1>5, <2>1, <2>2, <2>3
<1>6. \A n \in 0..final : n \in T
  <2> HIDE DEF T, final
  <2> QED BY <1>3, <1>4, <1>5, Upwards
<1>7. final \in 0..final /\ final - final = 0
  BY <1>3
<1>8. final \in T
  BY <1>6, <1>7
<1>9. \A i \in cuts : i >= 0 => from[i] = session
  <2>1. \A i \in cuts : i >= final - final => from[i] = session
    BY <1>8
  <2> QED BY <1>7, <2>1
<1> QED BY <1>3, <1>9

\* For every line of arguments, of any length: explicitResumeSessionID finds
\* the session the line names, and none where it names none.
LEMMA BindsAsNamed ==
  ASSUME NEW args \in Seq(Argument)
  PROVE  LET session == explicitResumeSessionID(args)
         IN /\ session # NoSession => namesSession(args, session)
            /\ \A other \in SessionID : namesSession(args, other) => session = other
<1>1. PICK from : /\ \A i \in 1..(Len(args) + 1) : from[i] = Step(args, from, i)
                  /\ explicitResumeSessionID(args) = from[1]
  BY Walked
<1>2. \A other \in SessionID : namesSession(args, other) => from[1] = other
  BY <1>1, CutIsWalked
<1>3. from[1] # NoSession => namesSession(args, from[1])
  BY <1>1, WalkIsCut
<1> QED BY <1>1, <1>2, <1>3

\* A run that starts is bound to the session its arguments name, whatever and
\* however many they are; and to none before its hook speaks if they name none.
THEOREM PreboundTheorem == Spec => []PreboundAsWritten
<1>1. BindsWhatIsNamed
  BY BindsAsNamed, LineAssumption DEF BindsWhatIsNamed
<1>2. PreboundAsWritten
  BY <1>1 DEF PreboundAsWritten
<1> QED BY <1>2, PTL
=============================================================================
