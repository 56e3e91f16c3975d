---------------------------- MODULE Installation ----------------------------
(***************************************************************************)
(* install and uninstall of codex-session-guard: the command files in the  *)
(* target directory, hooks.json, config.toml, settings.json and the two    *)
(* backups.  Installing is a transaction by hand: the files are captured,  *)
(* written one after the other, verified, and written back if a step       *)
(* fails.  Any step may fail, and the process may be killed between two.   *)
(* A write is one step: it renames a complete temporary file.              *)
(***************************************************************************)
EXTENDS HookFile, FiniteSets
LOCAL INSTANCE SequencesExt

CONSTANTS Dir,       \* directories to install into
          Version,   \* contents of the guard's binary, compared by hash
          Foreign,   \* any other program in a command file
          Absent,    \* no such file
          Broken,    \* a hooks.json that is no JSON
          MaxEdits,  \* bound on what users change
          MaxFaults  \* bound on steps that fail

ASSUME MarkAssumption  == /\ Foreign \notin Version /\ Absent \notin Version
                          /\ Foreign # Absent /\ Broken # Absent
ASSUME BoundAssumption == MaxEdits \in Nat /\ MaxFaults \in Nat

\* "codex-recover" stands for both legacy commands: codex was another.
Installed == {"csg", "codex-session-guard"}
Command   == Installed \cup {"codex-recover"}

VARIABLES
  bin,       \* the command files of each directory
  hooks,     \* hooks.json: own says that it has only fields the guard wrote
  config,    \* config.toml, of which only the managed block matters
  settings,  \* settings.json
  backup,    \* hooks.json.before-session-guard and config.toml.before-...
  pc,        \* where the running installer is, "idle" if none runs
  op,        \* the settings it works with, and whether legacy commands are owned
  snap,      \* the fileSnapshots it captured
  at,        \* how many files it has written back
  lost,      \* whether writing one back has failed
  outcome,   \* how the last one ended; "none" once a user has edited
  torn,      \* some install was killed, or could not write back, half way
  edits, faults

files == <<bin, hooks, config, settings, backup>>
vars  == <<bin, hooks, config, settings, backup, pc, op, snap, at, lost, outcome,
           torn, edits, faults>>

Keys     == [Event -> Nat]
Settings == [dir : Dir, hash : Version, created : BOOLEAN, key : Keys]
Hooks    == [own : BOOLEAN, groups : [Event -> Seq(Group)]]
\* The managed block: missing, without its end marker, or the trusted keys.
NoBlock   == [kind |-> "none"]
OpenBlock == [kind |-> "open"]
Trust(key) == [kind |-> "trust", key |-> key]
Config   == {NoBlock, OpenBlock} \cup [kind : {"trust"}, key : Keys]

Operation == [settings : Settings, owned : BOOLEAN]
Snapshot  == [bin : [Command -> Version \cup {Foreign, Absent}], hooks : Hooks \cup {Absent, Broken},
              config : Config \cup {Absent}, settings : Settings \cup {Absent}]

\* A file that is not there is none of some content, and one that is no JSON
\* has no content that is.
ASSUME ContentAssumption ==
  /\ Absent \notin Hooks \cup Config \cup Settings \cup Operation \cup Snapshot
  /\ Broken \notin Hooks

\* A backup: not taken, of a file without the guard, or of one with it.
Backups == {"none", "before", "guarded"}

Installing   == {"legacy", "codex-session-guard", "csg", "backuphooks", "hooks",
                 "backupconfig", "config", "settings", "verify"}
Uninstalling == {"unhook", "untrust", "remove csg", "remove manager", "remove legacy"}

TypeOK ==
  /\ bin \in [Dir -> [Command -> Version \cup {Foreign, Absent}]]
  /\ hooks \in Hooks \cup {Absent, Broken}
  /\ config \in Config \cup {Absent}
  /\ settings \in Settings \cup {Absent}
  /\ backup \in [hooks : Backups, config : Backups]
  /\ pc \in Installing \cup Uninstalling \cup {"rollback", "idle"}
  /\ op \in Operation \cup {Absent}
  /\ snap \in Snapshot \cup {Absent}
  /\ pc # "idle" => op # Absent
  /\ pc \in Installing \cup {"rollback"} => snap # Absent
  /\ outcome \in {"none", "installed", "restored", "unrestored", "refused", "uninstalled",
                  "failed", "killed"}
  /\ torn \in BOOLEAN /\ lost \in BOOLEAN
  /\ at \in 0..5 /\ edits \in 0..MaxEdits /\ faults \in 0..MaxFaults

NoGroups == [e \in Event |-> <<>>]

\* Nothing is installed, or an older version with a legacy command, no csg
\* and the older hook command.
Init ==
  /\ \/ /\ bin = [d \in Dir |-> [c \in Command |-> Absent]]
        /\ hooks \in {Absent, [own |-> FALSE, groups |-> NoGroups]}
        /\ config \in {Absent, NoBlock}
        /\ settings = Absent
     \/ \E d \in Dir, v \in Version :
          LET key == [e \in Event |-> 1]
          IN /\ bin = [x \in Dir |-> [c \in Command |->
                                        IF x = d /\ c # "csg" THEN v ELSE Absent]]
             /\ hooks = [own |-> TRUE, groups |-> [e \in Event |->
                                        <<[own |-> FALSE, hooks |-> <<"legacy">>]>>]]
             /\ config = Trust(key)
             /\ settings = [dir |-> d, hash |-> v, created |-> TRUE, key |-> key]
  /\ backup = [hooks |-> "none", config |-> "none"]
  /\ pc = "idle" /\ op = Absent /\ snap = Absent /\ at = 0 /\ lost = FALSE
  /\ outcome = "none" /\ torn = FALSE /\ edits = 0 /\ faults = 0

-----------------------------------------------------------------------------
(* Checks.                                                                 *)

previousMatches(d) == settings # Absent /\ settings.dir = d

\* Mutant: only the manager's file is looked at.
validateManager(d) ==
  \/ bin[d]["codex-session-guard"] = Absent
  \/ previousMatches(d) /\ bin[d]["codex-session-guard"] = settings.hash

\* Command files that are there must be those the settings record.
validateInstallTargets(d) ==
  \/ \A c \in Installed : bin[d][c] = Absent
  \/ /\ previousMatches(d)
     /\ bin[d]["codex-session-guard"] = settings.hash
     /\ \A c \in Installed : bin[d][c] \in {Absent, settings.hash}

ownedLegacyCommands(d) == previousMatches(d) /\ bin[d]["codex-recover"] = settings.hash

checkHookInstallation(s) ==
  /\ hooks \notin {Absent, Broken} /\ config \notin {Absent, NoBlock, OpenBlock}
  /\ \A e \in Event : LET found == foundIndex(hooks.groups[e])
                      IN found > 0 /\ s.key[e] = found /\ config.key[e] = found

verifyCommittedInstall(s) ==
  /\ \A c \in Installed : bin[s.dir][c] = s.hash
  /\ checkHookInstallation(s)

-----------------------------------------------------------------------------
(* install.                                                                *)

Finish(result) == /\ outcome' = result
                  /\ pc' = "idle" /\ op' = Absent /\ snap' = Absent
                  /\ at' = 0 /\ lost' = FALSE

\* Everything before the first change.  It is refused for what it finds, or
\* because something of it fails: the manager that is there does not run, or
\* captureFiles cannot read a file.
beginInstall(d, v) ==
  /\ pc = "idle"
  /\ \/ /\ validateInstallTargets(d)
        /\ op' = [settings |-> [dir |-> d, hash |-> v,
                                created |-> IF previousMatches(d) THEN settings.created
                                            ELSE hooks = Absent,
                                key |-> [e \in Event |-> 0]],
                  owned |-> ownedLegacyCommands(d)]
        /\ snap' = [bin |-> bin[d], hooks |-> hooks, config |-> config, settings |-> settings]
        /\ pc' = "legacy" /\ outcome' = "none"
        /\ UNCHANGED <<at, lost>>
     \/ Finish("refused")
  /\ UNCHANGED <<files, torn, edits, faults>>

Advance(step, next) == /\ pc = step /\ pc' = next
                       /\ UNCHANGED <<snap, at, lost, outcome, torn, edits, faults>>

removeLegacy ==
  /\ Advance("legacy", "codex-session-guard")
  /\ bin' = IF op.owned THEN [bin EXCEPT ![op.settings.dir]["codex-recover"] = Absent] ELSE bin
  /\ UNCHANGED <<hooks, config, settings, backup, op>>

copyExecutable(c, next) ==
  /\ Advance(c, next)
  /\ bin' = [bin EXCEPT ![op.settings.dir][c] = op.settings.hash]
  /\ UNCHANGED <<hooks, config, settings, backup, op>>

backupHooksOnce ==
  /\ hooks # Broken
  /\ Advance("backuphooks", "hooks")
  /\ backup' = IF hooks = Absent \/ backup.hooks # "none" THEN backup
               ELSE [backup EXCEPT !.hooks =
                      IF \A e \in Event : GuardPlaces(hooks.groups[e]) = {}
                      THEN "before" ELSE "guarded"]
  /\ UNCHANGED <<bin, hooks, config, settings, op>>

\* Mutant: the key counts groups from zero.
installHookFromZero ==
  LET old == IF hooks = Absent THEN [own |-> TRUE, groups |-> NoGroups] ELSE hooks
  IN /\ Advance("hooks", "backupconfig")
     /\ hooks' = [old EXCEPT !.groups = [e \in Event |-> installGuardHookGroup(@[e])]]
     /\ op' = [op EXCEPT !.settings.key = [e \in Event |-> guardIndex(old.groups[e]) - 1]]
     /\ UNCHANGED <<bin, config, settings, backup>>

\* The guard's group for every event, and the keys to trust.
installHook ==
  LET old == IF hooks = Absent THEN [own |-> TRUE, groups |-> NoGroups] ELSE hooks
  IN /\ Advance("hooks", "backupconfig")
     /\ hooks' = [old EXCEPT !.groups = [e \in Event |-> installGuardHookGroup(@[e])]]
     /\ op' = [op EXCEPT !.settings.key = [e \in Event |-> guardIndex(old.groups[e])]]
     /\ UNCHANGED <<bin, config, settings, backup>>

backupConfigOnce ==
  /\ Advance("backupconfig", "config")
  /\ backup' = IF config = Absent \/ backup.config # "none" THEN backup
               ELSE [backup EXCEPT !.config = IF config = NoBlock THEN "before" ELSE "guarded"]
  /\ UNCHANGED <<bin, hooks, config, settings, op>>

installTrustBlock ==
  /\ config # OpenBlock
  /\ Advance("config", "settings")
  /\ config' = Trust(op.settings.key)
  /\ UNCHANGED <<bin, hooks, settings, backup, op>>

\* Mutant: without the keys.
saveWithoutKeys ==
  /\ Advance("settings", "verify")
  /\ settings' = [dir |-> op.settings.dir, hash |-> op.settings.hash,
                  created |-> op.settings.created]
  /\ UNCHANGED <<bin, hooks, config, backup, op>>

saveSettings ==
  /\ Advance("settings", "verify")
  /\ settings' = op.settings
  /\ UNCHANGED <<bin, hooks, config, backup, op>>

commitInstall ==
  /\ pc = "verify" /\ verifyCommittedInstall(op.settings)
  /\ Finish("installed")
  /\ UNCHANGED <<files, torn, edits, faults>>

\* An error that is no fault of the file system.
rejectInstall ==
  /\ \/ pc = "backuphooks" /\ hooks = Broken
     \/ pc = "config" /\ config = OpenBlock
     \/ pc = "verify" /\ ~verifyCommittedInstall(op.settings)
  /\ pc' = "rollback"
  /\ UNCHANGED <<files, op, snap, at, lost, outcome, torn, edits, faults>>

\* restoreFiles writes the captured files back in reverse order; "fails" says
\* that this one cannot be written, which does not stop it.
Captured == <<"codex-recover", "codex-session-guard", "csg", "settings", "config", "hooks">>

\* Mutant: a file that was not there before is left.
restoreExisting(fails) ==
  LET file == Captured[at + 1]
      d    == op.settings.dir
      Old(name, new, old) == IF file = name /\ ~fails /\ old # Absent THEN old ELSE new
  IN /\ pc = "rollback"
     /\ bin' = IF file \in Installed \/ (file = "codex-recover" /\ op.owned)
               THEN [bin EXCEPT ![d][file] = Old(file, @, snap.bin[file])] ELSE bin
     /\ settings' = Old("settings", settings, snap.settings)
     /\ config' = Old("config", config, snap.config)
     /\ hooks' = Old("hooks", hooks, snap.hooks)
     /\ torn' = (torn \/ fails)
     /\ IF at < 5
        THEN at' = at + 1 /\ lost' = (lost \/ fails) /\ UNCHANGED <<pc, op, snap, outcome>>
        ELSE Finish(IF lost \/ fails THEN "unrestored" ELSE "restored")
     /\ UNCHANGED <<backup, edits>>

restoreFile(fails) ==
  LET file == Captured[at + 1]
      d    == op.settings.dir
      Old(name, new, old) == IF file = name /\ ~fails THEN old ELSE new
  IN /\ pc = "rollback"
     /\ bin' = IF file \in Installed \/ (file = "codex-recover" /\ op.owned)
               THEN [bin EXCEPT ![d][file] = Old(file, @, snap.bin[file])] ELSE bin
     /\ settings' = Old("settings", settings, snap.settings)
     /\ config' = Old("config", config, snap.config)
     /\ hooks' = Old("hooks", hooks, snap.hooks)
     /\ torn' = (torn \/ fails)
     /\ IF at < 5
        THEN at' = at + 1 /\ lost' = (lost \/ fails) /\ UNCHANGED <<pc, op, snap, outcome>>
        ELSE Finish(IF lost \/ fails THEN "unrestored" ELSE "restored")
     /\ UNCHANGED <<backup, edits>>

restoreFiles == restoreFile(FALSE) /\ UNCHANGED faults

Install == \/ removeLegacy
           \/ copyExecutable("codex-session-guard", "csg")
           \/ copyExecutable("csg", "backuphooks")
           \/ backupHooksOnce \/ installHook \/ backupConfigOnce \/ installTrustBlock
           \/ saveSettings \/ commitInstall \/ rejectInstall \/ restoreFiles

-----------------------------------------------------------------------------
(* uninstall, which is no transaction.                                     *)

beginUninstall ==
  /\ pc = "idle"
  /\ IF settings # Absent
     THEN /\ op' = [settings |-> settings, owned |-> ownedLegacyCommands(settings.dir)]
          /\ pc' = "unhook" /\ outcome' = "none"
          /\ UNCHANGED <<snap, at, lost>>
     ELSE Finish("refused")
  /\ UNCHANGED <<files, torn, edits, faults>>

hooksFileIsDisposable(root) == root.own /\ root.groups = NoGroups

uninstallHook ==
  LET clean == [hooks EXCEPT !.groups = [e \in Event |-> removeGuardHookGroup(@[e])]]
  IN /\ hooks # Broken
     /\ Advance("unhook", "untrust")
     /\ hooks' = IF hooks = Absent \/ (op.settings.created /\ hooksFileIsDisposable(clean))
                 THEN Absent ELSE clean
     /\ UNCHANGED <<bin, config, settings, backup, op>>

stripTrustBlock ==
  /\ config # OpenBlock
  /\ Advance("untrust", "remove csg")
  /\ config' = IF config = Absent THEN Absent ELSE NoBlock
  /\ UNCHANGED <<bin, hooks, settings, backup, op>>

\* A command file with another hash is skipped.  On Windows uninstall.ps1
\* removes the command files in this way.
removeCommand(c) ==
  LET d == op.settings.dir
  IN /\ bin' = IF bin[d][c] = op.settings.hash THEN [bin EXCEPT ![d][c] = Absent] ELSE bin
     /\ UNCHANGED <<hooks, config, settings, backup>>

\* Mutant: the manager, by which the directory is recognised, goes first.
removeManagerFirst == /\ Advance("remove csg", "remove manager")
                      /\ removeCommand("codex-session-guard") /\ UNCHANGED op

removeCsg     == /\ Advance("remove csg", "remove manager")
                 /\ removeCommand("csg") /\ UNCHANGED op
removeManager == /\ Advance("remove manager", "remove legacy")
                 /\ removeCommand("codex-session-guard") /\ UNCHANGED op
endUninstall  == /\ pc = "remove legacy"
                 /\ removeCommand("codex-recover")
                 /\ Finish("uninstalled")
                 /\ UNCHANGED <<torn, edits, faults>>

rejectUninstall ==
  /\ \/ pc = "unhook" /\ hooks = Broken
     \/ pc = "untrust" /\ config = OpenBlock
  /\ Finish("failed")
  /\ UNCHANGED <<files, torn, edits, faults>>

Uninstall == \/ uninstallHook \/ stripTrustBlock \/ removeCsg \/ removeManager
             \/ endUninstall \/ rejectUninstall

-----------------------------------------------------------------------------
(* Faults and users.                                                       *)

\* The step returns an error and has changed nothing.
StepFails ==
  /\ faults < MaxFaults /\ faults' = faults + 1
  /\ \/ /\ pc \in Installing
        /\ pc' = "rollback"
        /\ UNCHANGED <<files, op, snap, at, lost, outcome, torn, edits>>
     \/ /\ pc \in Uninstalling
        /\ Finish("failed")
        /\ UNCHANGED <<files, torn, edits>>
     \/ restoreFile(TRUE)

\* From the first copied command to the saved settings, what is on disk is
\* neither the old installation nor the new one.
HalfWay == {"csg", "backuphooks", "hooks", "backupconfig", "config", "settings", "rollback"}

Kill == /\ pc # "idle"
        /\ torn' = (torn \/ pc \in HalfWay)
        /\ Finish("killed")
        /\ UNCHANGED <<files, edits, faults>>

Idle == pc = "idle" /\ outcome' = "none" /\ edits < MaxEdits /\ edits' = edits + 1
        /\ UNCHANGED <<pc, op, snap, at, lost, torn, faults>>

\* What a user makes of the groups of one event: a group of the user's first
\* or last, a handler before or behind the guard's in its group, a changed
\* guard, a second copy of the guard's group, or one group less.
EditedGroups(groups) ==
  LET unused == {u \in UserHandler : \A i \in DOMAIN groups : ~Contains(groups[i].hooks, u)}
      mine(u) == [own |-> FALSE, hooks |-> <<u>>]
      With(i, handlers) == [groups EXCEPT ![i].hooks = handlers]
      guarded == {i \in DOMAIN groups : groupHasGuardCommand(groups[i])}
      ofOwn   == {InsertAt(groups, 1, mine(u)) : u \in unused} \cup
                 {Append(groups, mine(u)) : u \in unused}
      beside  == {With(i, <<u>> \o groups[i].hooks) : i \in guarded, u \in unused} \cup
                 {With(i, Append(groups[i].hooks, u)) : i \in guarded, u \in unused}
      changed == {With(i, <<"edited">>) : i \in guarded}
      copied  == {Append(groups, groups[i]) : i \in guarded}
      dropped == {RemoveAt(groups, i) : i \in DOMAIN groups}
  IN ofOwn \cup beside \cup changed \cup copied \cup dropped

UserEdits ==
  /\ Idle
  /\ \/ /\ hooks \notin {Absent, Broken}
        /\ \E e \in Event : \E groups \in EditedGroups(hooks.groups[e]) :
                hooks' = [hooks EXCEPT !.groups[e] = groups]
        /\ UNCHANGED <<config>>
     \/ /\ hooks' = Broken
        /\ UNCHANGED <<config>>
     \/ /\ config # Absent
        /\ config' \in {NoBlock, IF config = NoBlock THEN NoBlock ELSE OpenBlock}
        /\ UNCHANGED <<hooks>>
  /\ UNCHANGED <<bin, settings, backup>>

\* Another program is installed under the name of a command that is free.
ForeignCommand ==
  /\ Idle
  /\ \E d \in Dir, c \in Command :
        bin[d][c] = Absent /\ bin' = [bin EXCEPT ![d][c] = Foreign]
  /\ UNCHANGED <<hooks, config, settings, backup>>

-----------------------------------------------------------------------------
Next == \/ \E d \in Dir, v \in Version : beginInstall(d, v)
        \/ beginUninstall \/ Install \/ Uninstall
        \/ StepFails \/ Kill \/ UserEdits \/ ForeignCommand

Spec == Init /\ [][Next]_vars

-----------------------------------------------------------------------------
(* Properties.                                                             *)

\* "Installation failed and the previous state was restored", install.go:165:
\* once that is said, every file but the backups is as it was captured,
\* wherever the failure was.
RestoredAsBefore ==
  [][outcome' = "restored" =>
       /\ \A c \in Command : bin'[op.settings.dir][c] = snap.bin[c]
       /\ hooks' = snap.hooks /\ config' = snap.config /\ settings' = snap.settings]_vars

\* README: "ownership-checked": whatever was killed, failed or edited before,
\* no program of somebody else is overwritten or removed.
ForeignKept ==
  [][\A d \in Dir, c \in Command : bin[d][c] = Foreign => bin'[d][c] = Foreign]_vars

\* README: "Existing user hooks [...] are preserved": the installer keeps each
\* group of others at its index, with its handlers in their order.
OthersKept ==
  [][pc # "idle" /\ hooks \notin {Absent, Broken} =>
       \A e \in Event : OthersOf(hooks.groups[e]) =
                        (IF hooks' = Absent THEN {} ELSE OthersOf(hooks'.groups[e]))]_vars

\* After an installation Codex runs the guard exactly once for each event:
\* its only handler is the first of a complete group, where it is trusted.
GuardRunsOnce ==
  outcome = "installed" =>
    /\ \A c \in Installed : bin[settings.dir][c] = settings.hash
    /\ \A e \in Event : /\ GuardPlaces(hooks.groups[e]) = {<<config.key[e], 1>>}
                        /\ groupIsExpectedGuard(hooks.groups[e][config.key[e]])

\* An accepted installation fails only for a fault, a hooks.json that is no
\* JSON or a damaged block: its own verification agrees with what it wrote,
\* whatever groups it found.
FailsForAReason ==
  pc = "rollback" /\ faults = 0 => snap.hooks = Broken \/ snap.config = OpenBlock

\* After an uninstallation nothing of the guard is left in the hooks, the
\* trust records and the recorded directory; a hooks.json it has created is
\* gone if nobody edited it.
NothingLeft ==
  outcome = "uninstalled" =>
    /\ config \in {Absent, NoBlock}
    /\ \A c \in Command : bin[settings.dir][c] # settings.hash
    /\ hooks # Absent => \A e \in Event : GuardPlaces(hooks.groups[e]) = {}
    /\ settings.created /\ edits = 0 => hooks = Absent

\* Whatever was installed, failed, was killed or was uninstalled: as long as
\* no install was torn, the recorded directory can be installed into again,
\* unless it holds a program of somebody else.
Blocked(d) == \E c \in Installed : bin[d][c] = Foreign
Reinstallable == pc = "idle" /\ settings # Absent /\ ~torn =>
                   Blocked(settings.dir) \/ validateInstallTargets(settings.dir)
=============================================================================
