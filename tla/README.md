# Codex Session Guard in TLA+

A verification project for `csg`, the program under `src/cmd/csg`. It supervises
Codex sessions so that an abrupt stop (a crash, a closed terminal, a reboot)
leaves a record from which the session can be resumed. The modules model the
records, the processes that share them, the lock file that protects them, the
supervisor that decides which records stay, what a record still means when it is
resumed much later, and the installer that puts the guard's hook into Codex. TLC
checks them on small instances, and TLAPS proves their safety properties for every
value of the constants.

## The system

`csg run <command>` writes a JSON record (`RunRecord`), starts the command with
the run ID in its environment, supervises its process tree and removes the record
after a clean exit. Codex calls the hook at the start and at the end of a session;
the hook binds the session ID to the record. `csg list`, `csg resume` and
`csg delete` are independent processes that read all records, decide which of
them have crashed, and claim, resume or remove them. No daemon runs: **all
coordination is through the files**, one JSON file and one lock file per run, and
through the question whether a PID with a given start time is still alive.

`codex-session-guard install` copies the commands into a directory, adds one group
of handlers per event to Codex's `hooks.json`, trusts each at its index in
`config.toml`, and saves what it did in `settings.json`; `uninstall` undoes it.

| Component | Source | State | Operations | Hard part |
| --- | --- | --- | --- | --- |
| Run records | `state.go` | record file, lock file | `saveNewRun`, `mutateRun`, `claimRun`, `claimRunForDelete`, `releaseRunClaim`, `removeRun`, `removeClaimedRun`, `acquireFileLock` | stale locks are broken by age; a claim outlives its process; a record removed or rewritten under somebody |
| Recovery | `recover.go` | none of its own; what a scan read | `readAllRuns`, `trackedSessions`, `recoverMain`, `deleteRecoveryMain` | the scan is not atomic and is stale when acted on; delete fails half way |
| Wrapper | `wrapper.go` | the run of one process | `runGuarded`, `waitForSessionBinding` | dies at any point; a failed write is ignored |
| Hook | `hook.go` | none | `bindSession`, `removeOlderDeadRecords`, SessionEnd | several per run; a session may change within a run |
| Supervision | `supervisor*.go` | interrupt flag, deadline, verdict | `superviseProcess`, `waitForUnixProcessGroup`, `waitForWindowsJob` | launcher and Codex end in any order; signals; deadlines |
| Process identity | `process*.go` | none | `processLiveness`, `nearestCodexAncestor` | a query that fails; PID reuse, reboot |
| Command line | `main.go` | none | `csgMain` | |
| Launcher resolution | `launcher.go`, `resolve_*.go` | none; reads PATH, files, settings | `resolveLaunchTarget`, `targetForRecord`, `explicitResumeSessionID` | the file system of the record's day is not that of today; which arguments name a session |
| Installer | `install.go` | commands, `hooks.json`, `config.toml`, settings, backups | `installMain`, `restoreFiles`, `uninstallMain`, `installHook`, `installTrustBlock` | several files, any of which fails; a kill half way; hooks of others and their indices; ownership by hash |
| Doctor | `install.go` | none | `doctorMain`: `checkHookInstallation`, `recoveryCandidates` | like `csg list`, it removes dead unbound records |
| Test helper | `fake_codex.go` | none | a stand-in for Codex in tests | |

What makes each correct:

- *records*: a read-modify-write is atomic; a claim has one holder; what was
  removed stays removed; every operation gets an answer.
- *recovery*: nothing that runs is offered as crashed or has its record removed;
  only the newest record of a session counts; a bound record is not cleaned away.
- *wrapper and hook*: the record is there before the tree and until the tree is
  gone; every process comes to its end.
- *supervision*: waits for the whole tree, stops what must be stopped and nothing
  else, and tells exit, interrupt and crash apart.
- *identity*: alive, dead or unknown, never dead for a living process, and never
  alive for a stranger with the same number.
- *launcher*: a session is resumed with the program it ran with, never with `csg`
  itself, and bound only to a session its arguments name beyond doubt.
- *installer*: all or nothing after a failure; hooks, indices and programs of others
  survive; the guard runs once per event; what uninstall leaves is not the guard's.

## Modules

| Module | What it is |
| --- | --- |
| `RunRegistry` | abstract: what the records promise their users |
| `SessionGuard` | the records and every process that reads and writes them |
| `MCSessionGuard` | the symmetry set for its runs |
| `AtomicRecord` | abstract: an operation on one record is one step |
| `FileLock` | `acquireFileLock` and the read-modify-write it guards, one file-system call per step |
| `Supervisor` | `superviseProcess` and the verdict of `runGuarded`, for one run |
| `Launcher` | operators: which file a request or a record leads to, which session arguments name |
| `Resume` | `csg run`, `list` and `resume` while files, PATH, PIDs and boots change |
| `MCResume` | directories, names, all argument lines up to four words, symmetry |
| `HookFile` | operators: what install and uninstall make of the groups of `hooks.json` |
| `Installation` | install, rollback and uninstall, one file per step |
| `MCInstallation` | the symmetry set for its run |
| `FileLockProofs`, `SessionGuardProofs`, `SupervisorProofs`, `ResumeProofs`, `InstallationProofs` | theorems and proofs of the module they are named after |
| `SessionGuardRecords` | those that need the ones of `SessionGuardProofs`: `RunRegistry`, offers and removals |
| `InstallationGroups` | those about the groups of `hooks.json` |
| `Recursion` | two lemmas: induction on numbers over a set |

They fit together like this. `SessionGuard` takes a read-modify-write of one
record as one step; `AtomicRecord` states that promise and `FileLock` implements
it (or not, see below). `SessionGuard` takes the verdict of the supervisor as a
choice; `Supervisor` says when it is right. A tree that the supervisor has sent a kill
counts as dead in `SessionGuard`. `SessionGuard` implements `RunRegistry`.
It also takes two answers as given that `Resume` looks behind: that a PID is the
process the record means, and what `targetForRecord` returns. `Installation` provides
what both start from, the hook and the directory of the guard's own commands.

**RunRegistry.** A record belongs to the client that supervises its run
(`supervises`): only that client removes it (`Settle`), and when the client leaves it
or ends (`Leave`, `Lapse`) it counts as crashed. Only a crashed record that nobody
holds can be claimed (`Claim`), and a delete removes only what its client holds
(`Delete`). A listing or a hook may clear a crashed record away without holding it
(`Clean`), because the code does: which ones, `RecordKept` says. In `SessionGuard` a
process supervises its run from `saveNewRun` until it has removed the record or
returns to its claims, and the holder is the live process that the claim names.

**SessionGuard.** `files` and `rec` are the directory and its records, `tree` the
process tree of each run (`stray`: on Windows, started suspended and not in the Job
yet, so that it survives its supervisor; `suspended`: in the Job; `root`: the
launcher runs; `group`: only what it left behind), `pc` and `mem` the control and
locals of every process. A run number stands for the random run ID and for
`StartedAt`: runs are numbered in the order they begin. Each action is one handler
or one file operation of it and bears the name of the Go function, where there is
one: `readDir` and `readFile` split `readAllRuns`, so that others act between two
files; `beginClassify`, `classifyRecord`, `endClassify` are `trackedSessions` and
the look-up in `recoverMain`; `checkMatches`, `claimRunForDelete`,
`removeClaimedRun` are the three loops of `deleteRecoveryMain`; `Return` and
`releaseRunClaim` what `recoverMain` does after `runGuarded`. After a crash
`waitForSessionBinding` ends in one of three ways: a record with a session stays, one
without is discarded, and one that cannot be read (`unread`) is discarded as well,
whether or not it names a session. `nearestCodexAncestor` finds a `codex.exe` above a
Windows hook or none. `view` holds what a
scan read and never changes after it: every decision on stale data is in the
model. A process is live from its command to its end; `ProcAlive` is the answer to
`processLiveness` of a PID in a record. `UNKNOWN`, which nobody treats differently
from `RUNNING`, counts as `RUNNING`. `Kill` takes one process between two steps
(with its tree under a Job, or when the terminal closes), `LoneKill` allows it to
go without its tree, `Reboot` takes everything.

**FileLock.** One record, one operation per process. `lock` is the file made with
`O_EXCL`, `old` whether it is more than two seconds old, and `Ageing` which locks
may become so: none, those of dead owners, or any. The lock file may also fail to open
(`openFails`), which refuses the operation. `unlock` removes the file
whoever made it, and `writeRecord` is the rename of `writeJSONAtomic`, which
creates the record when it is gone.

**Supervisor.** The launcher (`root`), at most one Codex at a time, the
SessionEnd hook, Ctrl-C, and the two functions that wait for a group or a Job;
platform and kind of launcher are fixed at the start. Ctrl-C goes to the tree, which
has the terminal, or to the supervisor (`Interrupt`); the goroutine that notes it
(`noteInterrupt`, from `pending`) runs beside everything else and may come too late,
or on Windows never. A program takes an interrupt as it likes: it goes on, ends by the
signal, or exits with a status of its own. A supervisor that does not listen yet, or no
longer, dies of it (`InterruptKills`). At the deadline what is left is *sent* a kill
(`killed`); it ends when it ends, and nobody waits for that. `fate` is how the last
Codex ended as its user would tell: the properties compare it with `result`, what
`runGuarded` made of it. A launcher in the foreground passes the exit status of
Codex on, a detaching one may leave with any.

**Launcher and Resume.** A file is a directory and a name and is of one of five
kinds; `self` is the `csg` that runs, also through a link. `env` is what one
resolution sees of the computer. The operators bear the names of the Go functions;
`lookPathExcluding` and `resolveExplicitLaunchPath` cover both platforms, which
differ in the names they try and in what counts as executable. `Resume` has one run
record and one process per number. `tick` is the time since the restart `boot`, and
`startTime` is what a platform makes of it: absolute on Windows and macOS, counted
from the restart on Linux. Queries may answer *unknown*, and the recorded start time
is 0 when the system could not tell at the start. The environment installs and removes
programs and links, changes PATH and directory, installs `csg` elsewhere, reboots
(perhaps into another system with the same home directory), and gives numbers to
other processes. A number is not given out twice within one tick.

Arguments are words of five kinds and session IDs. `explicitResumeSessionID` walks
them as the code does; `namesSession` says the same of the line as a whole, by the
existence of a way to cut it, and `PreboundAsWritten` compares the two on every line of
the constant `Line`.

**HookFile and Installation.** A group keeps its handlers and whether its other fields
are the guard's; handlers are those of others, the guard's, that of an older version, or
an edited one. `config.toml` is reduced to the managed block, `settings.json` to what
later runs decide on. Every step of `installErr` is an action, reads what is on disk and
renames one complete file; `restoreFile` writes one captured file back, in reverse
order, and goes on when one cannot be written. `uninstall` is no transaction: it stops
at the first error. `beginInstall` may be refused although everything is in order (the
manager that is there does not run, a file cannot be captured); `StepFails` is an error
of any step, `Kill` the end of the installer between any two. Users edit only while no
installer runs. `torn` is history: an install was killed, or could not write back,
between the first copied command and the saved settings.

## What the runs check

| Run | Instance | Properties | Shows |
| --- | --- | --- | --- |
| `claims` | Windows Job, 3 processes resume and delete 1 session | `TypeOK`, `ClaimExclusive`, `ClaimOnDisk`, `ImplementsRegistry` | claims exclude each other; records keep the promise of `RunRegistry` |
| `faults` | Unix, 2 processes, all commands, 1 hook, I/O and queries fail | `CrashedIsDead`, `ActiveTracked`, `ClaimExclusive`, `ImplementsRegistry`, `RecordKept` | no failure makes a live tree look crashed, loses its record or lets the wrong one remove it |
| `hooks` | Windows Job, 2 processes, 2 hooks, 2 sessions | `ActiveTracked`, `NewestOnly`, `RecordKept` | who may take a record away, and which are offered |
| `settle` | Unix, supervisors also killed alone | `AllSettle` | every process ends or waits for a living tree |
| `lock` | 2 processes, orphaned locks age | `TypeOK`, `MutualExclusion`, `OneClaimant`, `RemovedForGood`, `ImplementsAtomicRecord`, `AllAnswered` | the lock is one, also when an owner dies |
| `verdict` | both platforms, both kinds of launcher, 2 sessions, Ctrl-C | `TypeOK`, `WaitsForTree`, `FirstSessionSpared`, `StopsInTime`, `ForegroundCrashKept`, `ForegroundExitRemoved` | waits, stops in time, and tells exit and crash apart under a launcher that waits |
| `install` | 1 directory, 2 versions, 1 event, 2 edits, 1 failing step, kills | `TypeOK`, `RestoredAsBefore`, `ForeignKept`, `OthersKept`, `GuardRunsOnce`, `FailsForAReason`, `NothingLeft`, `Reinstallable` | rollback restores, nothing of others is lost, the guard runs once, uninstall leaves nothing |
| `launch` | Linux and Windows, 2 directories, 2 PIDs, 2 boots, 2 changes | `TypeOK`, `NeverItself`, `AskedIsKept`, `SameProgram`, `DeadOnly`, `RunningIsOurs`, `PreboundAsWritten` | the recorded program, never `csg` itself, and only when the process is dead |
| `stalescan` | list against a run and its hook | `CleanersKeepBound` | **refuted**: a bound record is removed |
| `staleresume` | 3 resumes | `OneResumePerSession` | **refuted**: one session resumed twice |
| `lock_twobreakers` | 3 processes | `OneClaimant` | **refuted**: two waiters break one lock |
| `secondsession` | detaching launcher, 2 sessions | `StopsOnlyEnded` | **refuted**: a running session is killed |

The four refuted properties are sentences of the project's own `README.md` or of
its source; `PROJECT.json` quotes them under `findings` with the path that leads
to each. The passing properties are then stated with the condition the code does
meet: `CrashedIsDead` asks that no supervisor is killed without its tree; `RecordKept`
names the one listing that may take a bound record (it read it before it was bound),
what a hook must have read, and the supervisor whose read failed; `FirstSessionSpared` limits
`StopsOnlyEnded` to the first session of a run; the `Foreground...` properties ask
for a launcher that waits, and for no Ctrl-C where a crash is concerned;
`RunningIsOurs` excepts a start time that was never known and a Linux that counts
from a later boot; `Reinstallable` excepts torn installations.

Without these conditions TLC refutes them too, by paths that are no run of their own.
`CrashedIsDead` falls on Unix to a supervisor killed alone after its launcher has
exited: Codex runs on under a record that list reports as CRASHED, because
`recordProcessLiveness` knows only the supervisor and the launcher. `RecordKept` without
`unread` falls, with faults, to one failed read: `wrapper.go:90` takes the error for an
unbound record and removes one that names a session, although README.md:98 of the
repository says that an abrupt stop leaves it. `ForegroundCrashKept` without
`~detaching` falls to a Codex that crashes between the exit of its launcher and the
first look at the group, which counts as a clean exit. `Reinstallable` without `~torn`
falls to an installer killed between a copied command and the saved settings:
`validateInstallTargets` then compares the new command with the old hash, or finds no
settings at all, and refuses the directory until somebody deletes the commands by hand.
`SameProgram` does not say that a missing launcher is found again: a session run by a
relative path is looked for in the directory the hook stored, which may be another.
`FileLock` with `Ageing = "any"` (an owner suspended for two seconds goes on writing)
violates `OneClaimant` and `RemovedForGood`; `ForegroundCrashKept` without `~sigint`
falls to a crash after a Ctrl-C that Codex survived, because the flag is never cleared;
`ForegroundExitRemoved` without `~detaching` falls to a SessionEnd and exit between the
sample of `SessionEndedAt` and the look at the group; and `CleanersKeepBound` without
its first conjunct, with two hooks and two sessions, to a hook that removes a record
rebound to another session.

*Interrupts.* README.md:69 and 98 of the repository say that a user interrupt removes
the record. No property says so, because even under a launcher that waits TLC refutes
it on both platforms. On Unix a Codex that has the terminal may take Ctrl-C itself and
exit with a status such as 130: the supervisor sees neither the signal nor a death by
it (`supervisor_unix.go:54`). On Windows `cmd.Wait` may return, and the flag be read,
before the goroutine has noted the interrupt (`supervisor_windows.go:73-94`), and where
the launcher detaches a later Ctrl-C finds no handler. In each case a non-zero exit is
kept as a crash: nothing is lost, but a session the user ended is listed.

Every property of a passing run has a mutant of the code that violates it: a
query whose failure counts as dead, a claim that is not looked at, a lock without
`O_EXCL`, a deadline that moves, and so on.

### Bounds

- *Processes*: claims involve a holder, a rival and a third that makes the second
  one's view stale (`claims`, `staleresume`: 3). The other questions are between
  one run and one reader of its record, with the hooks of the run (2 processes).
  `lock` uses two; with three, orphaned locks are no longer safe
  (`lock_twobreakers`).
- *Runs*: `MaxRuns` 3, one of them (`Leftover`) crashed before the machine
  booted: an old record, the one that replaces it and a third beside them. Each
  process begins at most one run. A `saveNewRun` beyond the bound cannot happen in
  `faults`, `hooks` and `settle`; in `claims` the third resume stops there.
- *Sessions*: one, and two where rebinding matters (`hooks`). *Hooks*: one process
  each; a run has one hook at a time.
- *Attempts at the lock*: 3 in place of 250, enough to look, break and take it.
- *Codex sessions under one launcher*: 2; the second tells whether what the first
  left in the record is taken for its own.
- A start time never repeats in `SessionGuard`; that is the subject of `Resume`.
- *`launch`*: two directories, in both orders in PATH, one name that Windows also
  tries with an extension, one name of the guard. Two PIDs, one for the run and one
  for a stranger that later gets its number; two ticks and two boots, so that a
  number returns within a boot and with the same ticks in the next. `MaxChanges` 2
  changes of the environment besides exits, reboots and commands: the launcher
  disappears and another appears, or `csg` moves and a link to it is made. Argument
  lines of four words hold an option, its value, `resume` and a session.
- *`install`*: one directory, because an installation reads and writes only the
  directory it is given, apart from settings it replaces; two versions (upgrade,
  downgrade, an old one with a legacy command). One event: the events of the code are
  handled alike and in one write. Two edits (a group of others and a broken or copied
  guard, or two groups) and one failing step, with any number of kills. The theorems
  on this module hold for any number of all these.

`CHECK_DEADLOCK FALSE` is in every configuration because the system stops:
processes end, runs are bounded, and nobody has to give another command.

Symmetry among processes, hooks and sessions, and among directories, PIDs and
versions, is used where only safety is checked.

### Fairness

`SessionGuard` asks weak fairness of the steps of every live process and nothing
of users, of Codex, of faults or of `Kill` and `Reboot`: the operating system runs
every process that can run. `AllSettle` therefore lets a supervisor wait for ever
for a tree that lives. `FileLock` asks the same of `Step`. In `Supervisor` the
supervisor runs and the clock advances (`Tick`); the tree need do nothing, so
`StopsInTime` holds against a tree that never ends.

## What is proved

All proofs are checked from the definitions the runs use.

| Theorem | Statement | Assumes |
| --- | --- | --- |
| `FileLockProofs!Typing` | `Spec => []TypeOK` | |
| `FileLockProofs!Exclusion` | `Spec => []MutualExclusion` | `LockHolds` |
| `FileLockProofs!SingleClaimant` | `Spec => []OneClaimant` | `LockHolds` |
| `FileLockProofs!NoResurrection` | `Spec => RemovedForGood` | `LockHolds` |
| `FileLockProofs!Implementation` | `Spec => ImplementsAtomicRecord` | `LockHolds` |
| `SessionGuardProofs!Typing` | `Spec => []TypeOK` | |
| `SessionGuardProofs!Exclusion` | `Spec => []ClaimExclusive` | |
| `SessionGuardProofs!ClaimsOnDisk` | `Spec => []ClaimOnDisk` | |
| `SessionGuardProofs!Tracking` | `Spec => []ActiveTracked` | `KillOnClose \/ ~LoneKill` |
| `SessionGuardProofs!CrashedAreDead` | `Spec => []CrashedIsDead` | `KillOnClose \/ ~LoneKill` |
| `SessionGuardRecords!RegistryKept` | `Spec => ImplementsRegistry` | |
| `SessionGuardRecords!NewestOffered` | `Spec => []NewestOnly` | |
| `SessionGuardRecords!RecordsKept` | `Spec => RecordKept` | `KillOnClose \/ ~LoneKill` |
| `SupervisorProofs!TypeCorrectness` | `Spec => []TypeOK` | |
| `SupervisorProofs!WaitsForTreeTheorem` | `Spec => []WaitsForTree` | |
| `SupervisorProofs!ForegroundCrashKeptTheorem` | `Spec => []ForegroundCrashKept` | |
| `SupervisorProofs!ForegroundExitRemovedTheorem` | `Spec => []ForegroundExitRemoved` | |
| `SupervisorProofs!FirstSessionSparedTheorem` | `Spec => FirstSessionSpared` | |
| `ResumeProofs!TypeOKTheorem` | `Spec => []TypeOK` | |
| `ResumeProofs!AskedIsKeptTheorem` | `Spec => []AskedIsKept` | |
| `ResumeProofs!RunningIsOursTheorem` | `Spec => []RunningIsOurs` | |
| `ResumeProofs!NeverItselfTheorem` | `Spec => []NeverItself` | |
| `ResumeProofs!DeadOnlyTheorem` | `Spec => DeadOnly` | |
| `ResumeProofs!SameProgramTheorem` | `Spec => SameProgram` | |
| `ResumeProofs!PreboundTheorem` | `Spec => []PreboundAsWritten` | |
| `InstallationProofs!ReinstallableTheorem` | `Spec => []Reinstallable` | |
| `InstallationProofs!RestoredTheorem` | `Spec => RestoredAsBefore` | |
| `InstallationProofs!ForeignKeptTheorem` | `Spec => ForeignKept` | |
| `InstallationGroups!TypeOKTheorem` | `Spec => []TypeOK` | |
| `InstallationGroups!OthersKeptTheorem` | `Spec => OthersKept` | |
| `InstallationGroups!GuardRunsOnceTheorem` | `Spec => []GuardRunsOnce` | |
| `InstallationGroups!FailsForAReasonTheorem` | `Spec => []FailsForAReason` | |
| `InstallationGroups!NothingLeftTheorem` | `Spec => []NothingLeft` | |

Every safety property of a passing run is stated by one of them. They hold for any
number of processes, hooks, sessions, runs, directories, events, groups and
arguments, and with every fault. The two assumptions are needed. `LockHolds` says
that no lock file grows old, or that only those of dead owners do and there are at
most two processes: `lock` is an instance of it, and `lock_twobreakers`, with a third
process, refutes the claim beyond it. `KillOnClose \/ ~LoneKill` excludes the path of
the supervisor killed alone, above. Apart from them the proofs use the named ASSUMEs
of the modules: the sets of processes are disjoint, parameters are of the right kind,
and the values that stand for "no file", "not JSON", "no session" are none of the
contents they are told from (`ContentAssumption`).

*The lock.* A process inside owns the lock file, and whoever is about to break a lock
is alone: its owner is dead, and so is everybody else (`OthersDead`, true without
breakers when no lock grows old). A process about to write has read the record as it
still is, which makes the write an atomic step at the rename and the refusal one at
the read, and maps every other step to a stutter.

*Claims* (`ClaimInv`). `ClaimExclusive` alone is not inductive: a claim is
refused because of what is *on disk*, so the holder must be named there
(`ClaimOnDisk`); a record that is created must not be one somebody holds, so runs
are `Numbered`: no file, claim or view is beyond `born`; and claims must be held
by processes that live (`Held`), or the death of a holder would leave two.

*Tracking* (`IInv`). Four actions remove a record, each on a decision
made earlier, most of them on a view that may be stale. What makes them safe is that
the *supervisor* of a run that lives is alive (`Owned`), that a view of the record
names that supervisor (`Viewed`), that runs and supervisors are one to one
(`Owns`, `Apart`), and that a run that has died stays dead (`DeadHeld`): a reader
that finds supervisor and Codex dead has found a tree that will not come back,
however old its view. `Candidates` and `Phased` carry that from the decision to
the removal. The assumption makes a tree end with its supervisor.

*The registry* (`NameInv`). A step of `SessionGuard` is a step of `RunRegistry` or a
stutter. It is first put into one of a few kinds by what it changes (`Move`: a process
ends, leaves its run or drops a claim; a record is created, taken, released, cleaned
away, deleted, settled), and each kind is then shown to be the step of that name
(`CreatedTracks`, `TakenClaims`, `SettledSettles` ...). What has to be known beforehand
is who is named on disk: a record names the one process that supervises its run, and
a claim one that resumes or deletes it (`Named`), which in turn needs what a process
owns at which point of its command (`Ordered`). So a record that a listing or a hook
found dead has no supervisor any more (`Orphan`), a process settles its own run only,
and a supervisor that ends takes nothing else along.

*Offers and removals* (`NewestInv`, `HookInv`). There are no candidates before every
record has been read (`Unlisted`), so the newest of those that name a session stays the
newest. A hook that sweeps has bound the record of its own run, lives in the tree of
that run (`Hooked`), and a run has one hook at a time (`OneHook`); with `ActiveTracked`
the record it bound is therefore still there when it removes an older one. A record
that its supervisor discards is not bound, because no hook runs in a target that was
never resumed (`Supervised`); one that it could not read may be, and `RecordKept`
lists that.

*Supervision* (`IInv` of `SupervisorProofs`). What the verdict is worth depends on who
has seen an interrupt (`Noticed`: nobody sees one that the tree has not received), on
why the root of a launcher that waits has exited (`Foreground`), on what may be left
when the supervisor returns (`Waited`: only what was sent a kill), and on a deadline
having a reason (`Deadlines`).

*Resume.* An answer "dead" about the process of the run is impossible while it runs,
because the record holds its number and its start time or none (`Identity`). The
other direction needs the clock: once the run has ended, whoever has its number
started later than the recorded time (`Times`). Within one boot the time has moved
on since the run ended; after a restart every absolute start time lies beyond all of
the boot before (`EarlierRestart`).

*Installation.* While an installer runs, everything it will write is the guard's or
absent (`OursOnly`), and what it has not reached is as captured or, on the way back,
as captured again (`Untouched`, `WrittenBack`). Between installers the recorded hash
fits the files in the recorded directory (`SettingsFit`), which also has to say what
the captured files fit, and that uninstall removes `csg` before the manager: the order
on which `validateInstallTargets` relies.

*Hook groups* (`Written`, `Unedited`, `Cleared` of `InstallationGroups`).
`handlersWithoutGuard` is a recursion over the handlers of a group; what it keeps,
drops and leaves alone is proved by induction (`WithoutGuard`), and from it what
`installGuardHookGroup` and `removeGuardHookGroup` make of any groups
(`InstalledGroups`, `RemovedGroups`). `Written` carries the result from the step that
writes `hooks.json` to the verification: the guard's one handler is in place, and the
block trusts its index. `Unedited` says what an uninstallation finds when nobody has
edited, `Cleared` what each of its steps has already taken away.

*Arguments.* `explicitResumeSessionID` is a recursion as well, from the first
argument on, and is shown to be a function by building it from the last
(`WalkExists`). A line that it finds a session in can then be cut where it stepped
(`WalkIsCut`), and where a line can be cut it steps from cut to cut (`CutIsWalked`).

*Induction.* The induction theorems of the library take an operator, which the provers
cannot instantiate. `Recursion` states induction for a set instead, from the least
element that every set of natural numbers has: a set that holds 0 and with `n` also
`n + 1` holds all numbers up to a bound. What a proof inducts on is written as such a
set.

Only model-checked: the liveness properties (`AllSettle`, `AllAnswered`,
`StopsInTime`), which are out of the prover's reach, and the refuted ones. In
`faults`, which is an instance for Unix, a hook never names an ancestor in a record
whose `onStart` failed; the theorems cover that case.

## What is not modelled

Text, layout and the data nothing decides on (transcripts, exit codes, the environment
of the child); forwarded SIGTERM and SIGHUP; a query of the Job that fails, which ends
the wait as if the Job were empty; the terminal, which is a choice of who receives
Ctrl-C; temporary files left behind by a crash inside `writeJSONAtomic` or
`writeBytesAtomic`; a hook that escapes the group or the Job; a second try to remove a
record (there is none).

Of the launcher: records older than 0.3, which name no launcher and use
`RealCodexPath`; the syntax of a UUID; PATHEXT. Copies of `csg` in a directory other
than the recorded one are ordinary programs to the code and to the model. A process
stands for supervisor and Codex together in `Resume`; `SessionGuard` has them apart.

Of the installer: TOML outside the managed block, JSON fields of others, file modes,
a change of `CODEX_HOME` between installations, two installers at once, and programs
that write `config.toml` while one runs, which share no lock with it: a rollback then
overwrites what they wrote. `install.sh`, `uninstall.sh` and their PowerShell
counterparts call the two commands and remove the files `uninstall` leaves on
Windows, by the same hash; only that is in the model. A settings file without a
hash, from before the hash was recorded, is not.

`doctorMain` prints what `checkHookInstallation` (in `Installation`) and
`recoveryCandidates` (in `SessionGuard`, with the removals of `csg list`) return.

## Plan

Done: all modules of the table above and the theorems listed. What could follow:

1. A hook process that outlives its tree, in `SessionGuard`, and the two seconds the
   crash path waits for it.
2. A query of the Job that fails, and SIGTERM and SIGHUP, in `Supervisor`.
3. The indices of single handlers inside a group that others share with the guard, in
   `HookFile`: only those of groups are followed.
