------------------------ MODULE InstallationProofs ------------------------
(***************************************************************************)
(* What install and uninstall do to command files and settings, for all    *)
(* directories, versions and numbers of edits and faults.                  *)
(***************************************************************************)
EXTENDS Installation, TLAPS

Program == Version \cup {Foreign, Absent}

target == op.settings.dir
Changing == Installing \cup {"rollback"}

\* The parts of the types the proofs need.
SettingsForm(s) == /\ s = [dir |-> s.dir, hash |-> s.hash, created |-> s.created, key |-> s.key]
                   /\ s.dir \in Dir /\ s.hash \in Version

Formed ==
  /\ bin \in [Dir -> [Command -> Program]]
  /\ settings # Absent => SettingsForm(settings)
  /\ pc # "idle" => /\ op = [settings |-> op.settings, owned |-> op.owned]
                    /\ SettingsForm(op.settings) /\ op.owned \in BOOLEAN
  /\ pc \in Changing => /\ snap.bin \in [Command -> Program]
                        /\ snap.settings # Absent => SettingsForm(snap.settings)
  /\ pc \in Installing \cup Uninstalling \cup {"rollback", "idle"}
  /\ torn \in BOOLEAN /\ lost \in BOOLEAN /\ at \in 0..5
  /\ pc # "rollback" => at = 0 /\ lost = FALSE

\* Nothing in reach of a running installer is somebody else's.
OursOnly ==
  pc \in Changing =>
    /\ \A c \in Installed : bin[target][c] # Foreign /\ snap.bin[c] # Foreign
    /\ op.owned => bin[target]["codex-recover"] # Foreign /\ snap.bin["codex-recover"] # Foreign

\* The captured files up to at are on disk again.
WrittenBack ==
  /\ at >= 1 => bin[target]["codex-recover"] = snap.bin["codex-recover"]
  /\ at >= 2 => bin[target]["codex-session-guard"] = snap.bin["codex-session-guard"]
  /\ at >= 3 => bin[target]["csg"] = snap.bin["csg"]
  /\ at >= 4 => settings = snap.settings
  /\ at >= 5 => config = snap.config

\* What the running installer has not touched yet, or has written back.
Untouched ==
  /\ pc \in Changing =>
       /\ ~op.owned => bin[target]["codex-recover"] = snap.bin["codex-recover"]
       /\ pc \notin {"verify", "rollback"} => settings = snap.settings
       /\ pc \in {"legacy", "codex-session-guard"} =>
            \A c \in Installed : bin[target][c] = snap.bin[c]
  /\ pc \in {"csg", "backuphooks", "hooks", "backupconfig", "config", "settings", "verify"} =>
       bin[target]["codex-session-guard"] = op.settings.hash
  /\ pc \in {"backuphooks", "hooks", "backupconfig", "config", "settings", "verify"} =>
       bin[target]["csg"] = op.settings.hash
  /\ pc = "verify" => settings = op.settings
  /\ pc \in Uninstalling => settings # Absent /\ op.settings = settings
  /\ pc = "rollback" /\ ~lost => WrittenBack

\* Files of a directory that an installation with this hash accepts, or that
\* are not all ours.
Fits(commands, hash) ==
  \/ \E c \in Installed : commands[c] = Foreign
  \/ \A c \in Installed : commands[c] = Absent
  \/ commands["codex-session-guard"] = hash /\ commands["csg"] \in {Absent, hash}

SettingsFit ==
  ~torn =>
    /\ (pc \notin Changing /\ settings # Absent) => Fits(bin[settings.dir], settings.hash)
    /\ (pc \in Changing /\ snap.settings # Absent) =>
         IF snap.settings.dir = target THEN Fits(snap.bin, snap.settings.hash)
         ELSE Fits(bin[snap.settings.dir], snap.settings.hash)
    /\ pc = "rollback" => ~lost
    /\ pc = "remove manager" => bin[target]["csg"] # op.settings.hash

IInv == Formed /\ OursOnly /\ Untouched /\ SettingsFit

USE MarkAssumption DEF Installing, Uninstalling, Changing, Installed, Command, Program

-----------------------------------------------------------------------------
(* Steps that leave the command files and the settings alone.              *)

\* A step of the installer from one place to the next that only changes the
\* hooks, the config, the backups or the keys to trust.
LEMMA QuietStep ==
  ASSUME IInv,
         bin' = bin, settings' = settings, snap' = snap, at' = at, lost' = lost, torn' = torn,
         op'.settings.dir = op.settings.dir, op'.settings.hash = op.settings.hash,
         op' = [settings |-> op'.settings, owned |-> op.owned],
         SettingsForm(op'.settings),
         pc \in {"backuphooks", "hooks", "backupconfig", "config"},
         pc' \in {"hooks", "backupconfig", "config", "settings"}
  PROVE  IInv'
<1>1. /\ pc \in Installing /\ pc \notin {"legacy", "codex-session-guard", "csg", "verify"}
      /\ pc' \in Installing /\ pc' \notin {"legacy", "codex-session-guard", "csg", "verify"}
      /\ pc \notin Uninstalling \cup {"rollback", "idle"}
      /\ pc' \notin Uninstalling \cup {"rollback", "idle"}
      /\ op'.owned = op.owned /\ target' = target
  <2>1. op'.owned = op.owned /\ target' = target  BY DEF target
  <2>2. /\ pc \in Installing /\ pc \notin {"legacy", "codex-session-guard", "csg", "verify"}
        /\ pc \notin Uninstalling \cup {"rollback", "idle"}
    OBVIOUS
  <2>3. /\ pc' \in Installing /\ pc' \notin {"legacy", "codex-session-guard", "csg", "verify"}
        /\ pc' \notin Uninstalling \cup {"rollback", "idle"}
    OBVIOUS
  <2> QED BY <2>1, <2>2, <2>3
<1>2. Formed'
  <2>1. /\ bin \in [Dir -> [Command -> Program]]
        /\ settings # Absent => SettingsForm(settings)
        /\ op.owned \in BOOLEAN
        /\ snap.bin \in [Command -> Program]
        /\ snap.settings # Absent => SettingsForm(snap.settings)
        /\ torn \in BOOLEAN /\ lost \in BOOLEAN /\ at \in 0..5 /\ at = 0 /\ lost = FALSE
    BY <1>1 DEF IInv, Formed
  <2> QED BY <1>1, <2>1 DEF Formed, SettingsForm
<1>3. OursOnly' BY <1>1 DEF IInv, OursOnly
<1>4. Untouched'
  <2>1. /\ ~op.owned => bin[target]["codex-recover"] = snap.bin["codex-recover"]
        /\ settings = snap.settings
        /\ bin[target]["codex-session-guard"] = op.settings.hash
        /\ pc # "csg" => bin[target]["csg"] = op.settings.hash
    BY <1>1 DEF IInv, Untouched
  <2> QED BY <1>1, <2>1 DEF Untouched
<1>5. SettingsFit' BY <1>1 DEF IInv, SettingsFit, Fits
<1> QED BY <1>2, <1>3, <1>4, <1>5 DEF IInv

\* The command is over, and what it leaves is what a later install accepts.
LEMMA LastStep ==
  ASSUME IInv, NEW result, Finish(result),
         bin' \in [Dir -> [Command -> Program]], torn' \in BOOLEAN,
         settings' # Absent => SettingsForm(settings'),
         (~torn' /\ settings' # Absent) => Fits(bin'[settings'.dir], settings'.hash)
  PROVE  IInv'
<1>1. Formed'
  <2>1. (settings # Absent => SettingsForm(settings))'  OBVIOUS
  <2>2. (pc = "idle" /\ lost = FALSE /\ at = 0)'  BY DEF Finish
  <2>3. (torn \in BOOLEAN /\ lost \in BOOLEAN)'  BY <2>2
  <2> QED BY <2>1, <2>2, <2>3 DEF Formed
<1>2. OursOnly' /\ Untouched' BY DEF OursOnly, Untouched, Finish
<1>3. SettingsFit' BY DEF SettingsFit, Finish
<1> QED BY <1>1, <1>2, <1>3 DEF IInv

\* A step that fails or is rejected, and starts the rollback.
LEMMA ToRollback ==
  ASSUME IInv, pc \in Installing, pc' = "rollback",
         UNCHANGED <<bin, settings, op, snap, at, lost, torn>>
  PROVE  IInv'
<1>1. Formed'   BY DEF IInv, Formed, SettingsForm
<1>2. OursOnly' BY DEF IInv, OursOnly, target
<1>3. Untouched'
  <2>1. at' = 0  BY DEF IInv, Formed
  <2>2. ~op.owned => bin[target]["codex-recover"] = snap.bin["codex-recover"]
    BY DEF IInv, Untouched
  <2>3. WrittenBack'  BY <2>1 DEF WrittenBack
  <2> QED BY <2>2, <2>3 DEF Untouched, target
<1>4. SettingsFit' BY DEF IInv, SettingsFit, target, Formed, Fits
<1> QED BY <1>1, <1>2, <1>3, <1>4 DEF IInv

\* A step of the uninstaller before it looks at the command files.
LEMMA QuietUninstallStep ==
  ASSUME IInv, UNCHANGED <<bin, settings, op, snap, at, lost, torn>>,
         \/ pc = "unhook" /\ pc' = "untrust"
         \/ pc = "untrust" /\ pc' = "remove csg"
  PROVE  IInv'
<1>1. Formed'   BY DEF IInv, Formed, SettingsForm
<1>2. OursOnly' BY DEF IInv, OursOnly
<1>3. Untouched' BY DEF IInv, Untouched
<1>4. SettingsFit' BY DEF IInv, SettingsFit, Fits
<1> QED BY <1>1, <1>2, <1>3, <1>4 DEF IInv

\* The installer is idle before and after, and the settings stay.
LEMMA IdleStep ==
  ASSUME IInv, pc = "idle",
         UNCHANGED <<settings, pc, op, snap, at, lost, torn>>,
         bin' \in [Dir -> [Command -> Program]],
         \A d \in Dir : \A c \in Installed : bin'[d][c] # bin[d][c] => bin'[d][c] = Foreign
  PROVE  IInv'
<1>1. Formed'   BY DEF IInv, Formed, SettingsForm
<1>2. OursOnly' /\ Untouched'  BY DEF OursOnly, Untouched
<1>3. SettingsFit'
  <2>1. SUFFICES ASSUME ~torn, settings # Absent
                 PROVE  Fits(bin'[settings.dir], settings.hash)
    BY DEF SettingsFit
  <2>2. settings.dir \in Dir  BY <2>1 DEF IInv, Formed, SettingsForm
  <2>3. Fits(bin[settings.dir], settings.hash)  BY <2>1 DEF IInv, SettingsFit
  <2> QED BY <2>2, <2>3 DEF Fits
<1> QED BY <1>1, <1>2, <1>3 DEF IInv

-----------------------------------------------------------------------------
(* The steps of install.                                                   *)

\* What is accepted for installation is nobody else's.
LEMMA ValidTargets ==
  ASSUME IInv, NEW d \in Dir, validateInstallTargets(d)
  PROVE  /\ \A c \in Installed : bin[d][c] # Foreign
         /\ ownedLegacyCommands(d) => bin[d]["codex-recover"] # Foreign
BY DEF validateInstallTargets, previousMatches, ownedLegacyCommands, IInv, Formed, SettingsForm

LEMMA BeginInstall ==
  ASSUME IInv, NEW d \in Dir, NEW v \in Version, beginInstall(d, v)
  PROVE  IInv'
<1>1. CASE pc' = "legacy"
  <2>1. /\ pc = "idle" /\ pc' = "legacy" /\ UNCHANGED <<bin, settings, at, lost, torn>>
        /\ snap'.bin = bin[d] /\ snap'.settings = settings /\ op'.settings.dir = d
        /\ op'.owned = ownedLegacyCommands(d)
        /\ op' = [settings |-> op'.settings, owned |-> op'.owned] /\ SettingsForm(op'.settings)
    BY <1>1 DEF beginInstall, Finish, files, SettingsForm
  <2>0. validateInstallTargets(d)  BY <1>1 DEF beginInstall, Finish
  <2>2. ownedLegacyCommands(d) \in BOOLEAN  BY DEF ownedLegacyCommands, previousMatches
  <2>3. Formed'   BY <2>1, <2>2 DEF IInv, Formed, SettingsForm
  <2>4. OursOnly' BY <2>0, <2>1, ValidTargets DEF OursOnly, target
  <2>5. Untouched' BY <2>1 DEF Untouched, target
  <2>6. SettingsFit' BY <2>1 DEF IInv, SettingsFit, target, Fits
  <2> QED BY <2>3, <2>4, <2>5, <2>6 DEF IInv
<1>2. CASE pc' # "legacy"
  <2>1. Finish("refused") /\ UNCHANGED <<bin, settings, torn>> /\ pc = "idle"
    BY <1>2 DEF beginInstall, files
  <2> QED BY <2>1, LastStep DEF IInv, Formed, SettingsFit, SettingsForm
<1> QED BY <1>1, <1>2

LEMMA RemoveLegacy == ASSUME IInv, removeLegacy PROVE IInv'
<1>1. /\ pc = "legacy" /\ pc' = "codex-session-guard"
      /\ UNCHANGED <<settings, snap, at, lost, torn, op>>
  BY DEF removeLegacy, Advance
<1>2. target \in Dir /\ op.owned \in BOOLEAN  BY <1>1 DEF target, IInv, Formed, SettingsForm
<1>3. bin' = IF op.owned THEN [bin EXCEPT ![target]["codex-recover"] = Absent] ELSE bin
  BY DEF removeLegacy, target
<1>4. bin' \in [Dir -> [Command -> Program]]  BY <1>2, <1>3 DEF IInv, Formed
<1>5. /\ \A d \in Dir, c \in Installed : bin'[d][c] = bin[d][c]
      /\ bin'[target]["codex-recover"] =
           IF op.owned THEN Absent ELSE bin[target]["codex-recover"]
  BY <1>2, <1>3 DEF IInv, Formed
<1>6. Formed'   BY <1>1, <1>4 DEF IInv, Formed, SettingsForm
<1>7. OursOnly' BY <1>1, <1>2, <1>5 DEF IInv, OursOnly, target
<1>8. Untouched' BY <1>1, <1>2, <1>5 DEF IInv, Untouched, target
<1>9. SettingsFit'
  <2>1. snap.settings # Absent => snap.settings.dir \in Dir
    BY <1>1 DEF IInv, Formed, SettingsForm
  <2> QED BY <1>1, <1>5, <2>1 DEF IInv, SettingsFit, target, Fits
<1> QED BY <1>6, <1>7, <1>8, <1>9 DEF IInv

LEMMA CopyExecutable ==
  ASSUME IInv, NEW c \in Installed, NEW next, copyExecutable(c, next),
         \/ c = "codex-session-guard" /\ next = "csg"
         \/ c = "csg" /\ next = "backuphooks"
  PROVE  IInv'
<1>1. /\ pc = c /\ pc' = next /\ UNCHANGED <<settings, snap, at, lost, torn, op>>
      /\ bin' = [bin EXCEPT ![target][c] = op.settings.hash]
  BY DEF copyExecutable, Advance, target
<1>2. /\ target \in Dir /\ op.owned \in BOOLEAN /\ op.settings.hash \in Version
      /\ op.settings.hash # Foreign
  BY <1>1 DEF target, IInv, Formed, SettingsForm
<1>4. bin' \in [Dir -> [Command -> Program]]  BY <1>1, <1>2 DEF IInv, Formed
<1>5. /\ \A x \in Command : bin'[target][x] = IF x = c THEN op.settings.hash ELSE bin[target][x]
      /\ \A d \in Dir \ {target} : bin'[d] = bin[d]
  BY <1>1, <1>2 DEF IInv, Formed
<1>6. Formed'   BY <1>1, <1>4 DEF IInv, Formed, SettingsForm
<1>7. OursOnly' BY <1>1, <1>2, <1>5 DEF IInv, OursOnly, target
<1>8. Untouched'
  <2>1. CASE c = "codex-session-guard"
    BY <1>1, <1>2, <1>5, <2>1 DEF IInv, Untouched, target
  <2>2. CASE c = "csg"
    BY <1>1, <1>2, <1>5, <2>2 DEF IInv, Untouched, target
  <2> QED BY <2>1, <2>2
<1>9. SettingsFit'
  <2>1. snap.settings # Absent => snap.settings.dir \in Dir
    BY <1>1 DEF IInv, Formed, SettingsForm
  <2>2. (snap.settings # Absent /\ snap.settings.dir # target)
           => bin'[snap.settings.dir] = bin[snap.settings.dir]
    BY <1>5, <2>1
  <2>3. pc \in Changing /\ pc' \in Changing /\ pc' \notin {"rollback", "remove manager"}
    BY <1>1
  <2> QED BY <1>1, <2>2, <2>3 DEF IInv, SettingsFit, target, Fits
<1> QED BY <1>6, <1>7, <1>8, <1>9 DEF IInv

LEMMA SaveSettings == ASSUME IInv, saveSettings PROVE IInv'
<1>1. /\ pc = "settings" /\ pc' = "verify" /\ settings' = op.settings
      /\ UNCHANGED <<bin, snap, at, lost, torn, op>>
  BY DEF saveSettings, Advance
<1>2. SettingsForm(op.settings)  BY <1>1 DEF IInv, Formed
<1>3. Formed'   BY <1>1, <1>2 DEF IInv, Formed, SettingsForm
<1>4. OursOnly' BY <1>1 DEF IInv, OursOnly, target
<1>5. Untouched' BY <1>1 DEF IInv, Untouched, target
<1>6. SettingsFit' BY <1>1 DEF IInv, SettingsFit, target, Fits
<1> QED BY <1>3, <1>4, <1>5, <1>6 DEF IInv

\* What the last three steps rely on: both commands are copied.
LEMMA CommitInstall == ASSUME IInv, commitInstall PROVE IInv'
<1>1. pc = "verify" /\ Finish("installed") /\ UNCHANGED <<bin, settings, torn>>
  BY DEF commitInstall, files
<1>2. /\ settings = op.settings /\ SettingsForm(settings)
      /\ \A c \in Installed : bin[target][c] = op.settings.hash
  BY <1>1 DEF IInv, Formed, Untouched
<1>3. Fits(bin[settings.dir], settings.hash)  BY <1>2 DEF Fits, target
<1>4. bin' \in [Dir -> [Command -> Program]] /\ torn' \in BOOLEAN  BY <1>1 DEF IInv, Formed
<1>5. settings' # Absent => SettingsForm(settings')  BY <1>1, <1>2
<1>6. Fits(bin'[settings'.dir], settings'.hash)  BY <1>1, <1>3
<1> QED BY <1>1, <1>4, <1>5, <1>6, LastStep

\* A file that is written back, or is not: what restoreFile does to the
\* command files of the target.
LEMMA RestoredFiles ==
  ASSUME IInv, NEW fails \in BOOLEAN, restoreFile(fails)
  PROVE  /\ pc = "rollback" /\ target \in Dir /\ at \in 0..5
         /\ bin' \in [Dir -> [Command -> Program]]
         /\ \A d \in Dir \ {target} : bin'[d] = bin[d]
         /\ \A c \in Command : bin'[target][c] \in {bin[target][c], snap.bin[c]}
         /\ ~op.owned => bin'[target]["codex-recover"] = bin[target]["codex-recover"]
         /\ settings' \in {settings, snap.settings}
         /\ ~fails =>
              /\ at = 0 /\ op.owned => bin'[target]["codex-recover"] = snap.bin["codex-recover"]
              /\ at = 1 => bin'[target]["codex-session-guard"] = snap.bin["codex-session-guard"]
              /\ at = 2 => bin'[target]["csg"] = snap.bin["csg"]
              /\ at = 3 => settings' = snap.settings
              /\ at = 4 => config' = snap.config
              /\ at = 5 => hooks' = snap.hooks
         /\ at # 0 => bin'[target]["codex-recover"] = bin[target]["codex-recover"]
         /\ at # 1 => bin'[target]["codex-session-guard"] = bin[target]["codex-session-guard"]
         /\ at # 2 => bin'[target]["csg"] = bin[target]["csg"]
         /\ at # 3 => settings' = settings
         /\ at # 4 => config' = config
<1>1. /\ pc = "rollback" /\ target \in Dir /\ at \in 0..5 /\ op.owned \in BOOLEAN
      /\ bin \in [Dir -> [Command -> Program]] /\ snap.bin \in [Command -> Program]
  BY DEF restoreFile, IInv, Formed, SettingsForm, target
<1> DEFINE file == Captured[at + 1]
<1>2. /\ at = 0 => file = "codex-recover"
      /\ at = 1 => file = "codex-session-guard"
      /\ at = 2 => file = "csg"
      /\ at = 3 => file = "settings"
      /\ at = 4 => file = "config"
      /\ at = 5 => file = "hooks"
  BY DEF Captured
<1>3. at = 0 \/ at = 1 \/ at = 2 \/ at = 3 \/ at = 4 \/ at = 5  BY <1>1
<1>4. /\ settings' = IF file = "settings" /\ ~fails THEN snap.settings ELSE settings
      /\ config' = IF file = "config" /\ ~fails THEN snap.config ELSE config
      /\ hooks' = IF file = "hooks" /\ ~fails THEN snap.hooks ELSE hooks
      /\ bin' = IF file \in Installed \/ (file = "codex-recover" /\ op.owned)
                THEN [bin EXCEPT ![target][file] =
                        IF ~fails THEN snap.bin[file] ELSE @] ELSE bin
  BY DEF restoreFile, target
<1>5. file \in Command \/ file \notin Installed \cup {"codex-recover"}  BY <1>2, <1>3
<1> HIDE DEF file
<1>6. bin' \in [Dir -> [Command -> Program]] /\ \A d \in Dir \ {target} : bin'[d] = bin[d]
  BY <1>1, <1>4, <1>5
<1>7. \A c \in Command :
        bin'[target][c] = IF c = file /\ ~fails /\ (file \in Installed \/ op.owned)
                          THEN snap.bin[c] ELSE bin[target][c]
  BY <1>1, <1>4, <1>5
<1>8. /\ settings' \in {settings, snap.settings}
      /\ \A c \in Command : bin'[target][c] \in {bin[target][c], snap.bin[c]}
      /\ ~op.owned => bin'[target]["codex-recover"] = bin[target]["codex-recover"]
  BY <1>4, <1>7
<1>9. /\ ~fails =>
           /\ at = 0 /\ op.owned => bin'[target]["codex-recover"] = snap.bin["codex-recover"]
           /\ at = 1 => bin'[target]["codex-session-guard"] = snap.bin["codex-session-guard"]
           /\ at = 2 => bin'[target]["csg"] = snap.bin["csg"]
           /\ at = 3 => settings' = snap.settings
           /\ at = 4 => config' = snap.config
           /\ at = 5 => hooks' = snap.hooks
  BY <1>2, <1>4, <1>7
<1>10. /\ at # 0 => bin'[target]["codex-recover"] = bin[target]["codex-recover"]
       /\ at # 1 => bin'[target]["codex-session-guard"] = bin[target]["codex-session-guard"]
       /\ at # 2 => bin'[target]["csg"] = bin[target]["csg"]
       /\ at # 3 => settings' = settings
       /\ at # 4 => config' = config
  BY <1>2, <1>3, <1>4, <1>7
<1> QED BY <1>1, <1>6, <1>8, <1>9, <1>10

\* When the last file is written back, and all were, everything is as it was.
LEMMA AllRestored ==
  ASSUME IInv, NEW fails \in BOOLEAN, restoreFile(fails), at = 5, ~(lost \/ fails)
  PROVE  /\ \A c \in Command : bin'[target][c] = snap.bin[c]
         /\ settings' = snap.settings /\ config' = snap.config /\ hooks' = snap.hooks
<1>1. pc = "rollback" /\ lost = FALSE /\ fails = FALSE
  BY RestoredFiles DEF IInv, Formed
<1>2. /\ bin[target]["codex-recover"] = snap.bin["codex-recover"]
      /\ bin[target]["codex-session-guard"] = snap.bin["codex-session-guard"]
      /\ bin[target]["csg"] = snap.bin["csg"]
      /\ settings = snap.settings /\ config = snap.config
  BY <1>1 DEF IInv, Untouched, WrittenBack
<1> QED BY <1>1, <1>2, RestoredFiles

LEMMA RestoreFile == ASSUME IInv, NEW fails \in BOOLEAN, restoreFile(fails) PROVE IInv'
<1>0. /\ target \in Dir /\ at \in 0..5 /\ pc = "rollback"  BY RestoredFiles
<1>1. /\ target \in Dir /\ at \in 0..5 /\ pc = "rollback" /\ lost \in BOOLEAN /\ torn \in BOOLEAN
      /\ snap.settings # Absent => SettingsForm(snap.settings)
      /\ torn' = (torn \/ fails) /\ torn' \in BOOLEAN
  BY <1>0 DEF IInv, Formed, restoreFile
<1>2. settings' # Absent => SettingsForm(settings')
  BY <1>1, RestoredFiles DEF IInv, Formed
<1>3. CASE at < 5
  <2>1. at' = at + 1 /\ lost' = (lost \/ fails) /\ UNCHANGED <<pc, op, snap>>
    BY <1>3 DEF restoreFile
  <2>2. Formed'
    <3>1. lost' \in BOOLEAN /\ at' \in 0..5  BY <1>1, <1>3, <2>1
    <3>2. bin' \in [Dir -> [Command -> Program]]  BY RestoredFiles
    <3> QED BY <1>1, <1>2, <2>1, <3>1, <3>2 DEF IInv, Formed, SettingsForm
  <2>3. OursOnly'  BY <1>1, <2>1, RestoredFiles DEF IInv, OursOnly, target
  <2>4. Untouched'
    <3>1. ~op.owned => bin'[target]["codex-recover"] = snap.bin["codex-recover"]
      BY <1>1, RestoredFiles DEF IInv, Untouched
    <3>2. target' = target /\ pc' = "rollback" /\ lost' \in BOOLEAN
      BY <1>1, <2>1 DEF target
    <3>3. lost' = FALSE => WrittenBack'
      <4>1. SUFFICES ASSUME lost' = FALSE PROVE WrittenBack'
        OBVIOUS
      <4>2. ~lost /\ ~fails  BY <2>1, <4>1
      <4>3. WrittenBack  BY <1>1, <4>2 DEF IInv, Untouched
      <4> QED BY <1>1, <2>1, <3>1, <3>2, <4>2, <4>3, RestoredFiles DEF WrittenBack
    <3>4. (pc \in Changing =>
             /\ ~op.owned => bin[target]["codex-recover"] = snap.bin["codex-recover"]
             /\ pc \notin {"verify", "rollback"} => settings = snap.settings
             /\ pc \in {"legacy", "codex-session-guard"} =>
                  \A c \in Installed : bin[target][c] = snap.bin[c])'
      BY <2>1, <3>1, <3>2
    <3> QED BY <3>2, <3>3, <3>4 DEF Untouched
  <2>5. SettingsFit'
    <3>1. (snap.settings # Absent /\ snap.settings.dir # target)
             => bin'[snap.settings.dir] = bin[snap.settings.dir]
      BY <1>1, RestoredFiles DEF SettingsForm
    <3>2. ~torn' => ~torn /\ ~fails /\ ~lost /\ ~lost'
      BY <1>1, <2>1 DEF IInv, SettingsFit
    <3>3. (~torn' /\ snap.settings # Absent) =>
            IF snap.settings.dir = target THEN Fits(snap.bin, snap.settings.hash)
            ELSE Fits(bin'[snap.settings.dir], snap.settings.hash)
      BY <1>1, <3>1, <3>2 DEF IInv, SettingsFit
    <3> QED BY <1>1, <2>1, <3>2, <3>3 DEF SettingsFit, target, Fits
  <2> QED BY <2>2, <2>3, <2>4, <2>5 DEF IInv
<1>4. CASE at = 5
  <2>1. Finish(IF lost \/ fails THEN "unrestored" ELSE "restored")
    BY <1>4 DEF restoreFile
  <2>2. ASSUME ~torn', settings' # Absent PROVE Fits(bin'[settings'.dir], settings'.hash)
    <3>1. ~torn /\ ~fails /\ ~lost  BY <1>1, <2>2 DEF IInv, SettingsFit
    <3>2. settings' = snap.settings /\ \A c \in Command : bin'[target][c] = snap.bin[c]
      BY <1>4, <3>1, AllRestored
    <3>3. settings'.dir # target => bin'[settings'.dir] = bin[settings'.dir]
      BY <1>1, <1>2, <2>2, RestoredFiles DEF SettingsForm
    <3> QED BY <1>1, <2>2, <3>1, <3>2, <3>3 DEF IInv, SettingsFit, Fits
  <2>3. bin' \in [Dir -> [Command -> Program]] /\ torn' \in BOOLEAN  BY <1>1, RestoredFiles
  <2> QED BY <1>2, <2>1, <2>2, <2>3, LastStep
<1> QED BY <1>1, <1>3, <1>4

-----------------------------------------------------------------------------
(* The steps of uninstall.                                                 *)

LEMMA BeginUninstall == ASSUME IInv, beginUninstall PROVE IInv'
<1>1. CASE settings # Absent
  <2>1. /\ pc = "idle" /\ pc' = "unhook" /\ UNCHANGED <<bin, settings, snap, at, lost, torn>>
        /\ op' = [settings |-> settings, owned |-> ownedLegacyCommands(settings.dir)]
    BY <1>1 DEF beginUninstall, files
  <2>2. ownedLegacyCommands(settings.dir) \in BOOLEAN
    BY DEF ownedLegacyCommands, previousMatches
  <2>3. Formed'   BY <1>1, <2>1, <2>2 DEF IInv, Formed, SettingsForm
  <2>4. OursOnly' BY <2>1 DEF OursOnly
  <2>5. Untouched' BY <1>1, <2>1 DEF Untouched
  <2>6. SettingsFit' BY <2>1 DEF IInv, SettingsFit, Fits
  <2> QED BY <2>3, <2>4, <2>5, <2>6 DEF IInv
<1>2. CASE settings = Absent
  <2>1. Finish("refused") /\ UNCHANGED <<bin, settings, torn>>
    BY <1>2 DEF beginUninstall, files
  <2> QED BY <1>2, <2>1, LastStep DEF IInv, Formed
<1> QED BY <1>1, <1>2

\* What an uninstaller at work knows of the settings.
LEMMA Uninstaller ==
  ASSUME IInv, pc \in Uninstalling
  PROVE  /\ settings # Absent /\ op.settings = settings /\ SettingsForm(settings)
         /\ target \in Dir /\ settings.dir = target
         /\ op.settings.hash \notin {Foreign, Absent}
         /\ ~torn => Fits(bin[target], op.settings.hash)
<1>1. settings # Absent /\ op.settings = settings  BY DEF IInv, Untouched
<1>2. SettingsForm(settings)  BY <1>1 DEF IInv, Formed
<1> QED BY <1>1, <1>2 DEF IInv, SettingsFit, SettingsForm, target

LEMMA RemovedCommand ==
  ASSUME IInv, pc \in Uninstalling, NEW c \in Command, removeCommand(c)
  PROVE  /\ bin' \in [Dir -> [Command -> Program]] /\ settings' = settings
         /\ \A d \in Dir, x \in Command :
              bin'[d][x] = IF d = target /\ x = c /\ bin[d][x] = op.settings.hash
                           THEN Absent ELSE bin[d][x]
<1>1. /\ settings' = settings
      /\ bin' = IF bin[target][c] = op.settings.hash
                THEN [bin EXCEPT ![target][c] = Absent] ELSE bin
  BY DEF removeCommand, target
<1>2. bin \in [Dir -> [Command -> Program]] /\ target \in Dir  BY Uninstaller DEF IInv, Formed
<1>3. CASE bin[target][c] = op.settings.hash
  BY <1>1, <1>2, <1>3
<1>4. CASE bin[target][c] # op.settings.hash
  BY <1>1, <1>2, <1>4
<1> QED BY <1>3, <1>4

LEMMA RemoveCsg == ASSUME IInv, removeCsg PROVE IInv'
<1>1. /\ pc = "remove csg" /\ pc' = "remove manager"
      /\ UNCHANGED <<settings, op, snap, at, lost, torn>>
      /\ removeCommand("csg")
  BY DEF removeCsg, Advance, removeCommand
<1>2. /\ bin' \in [Dir -> [Command -> Program]]
      /\ \A x \in Command :
           bin'[target][x] = IF x = "csg" /\ bin[target][x] = op.settings.hash
                             THEN Absent ELSE bin[target][x]
  <2>1. target \in Dir  BY <1>1, Uninstaller
  <2>2. /\ bin' \in [Dir -> [Command -> Program]]
        /\ \A d \in Dir, x \in Command :
             bin'[d][x] = IF d = target /\ x = "csg" /\ bin[d][x] = op.settings.hash
                          THEN Absent ELSE bin[d][x]
    <3>1. pc \in Uninstalling /\ "csg" \in Command /\ removeCommand("csg")  BY <1>1
    <3> QED BY <3>1, RemovedCommand
  <2> QED BY <2>1, <2>2
<1>3. Formed'   BY <1>1, <1>2 DEF IInv, Formed, SettingsForm
<1>4. OursOnly' BY <1>1 DEF OursOnly
<1>5. Untouched' BY <1>1 DEF IInv, Untouched
<1>6. SettingsFit'
  <2>1. bin'[target]["csg"] # op.settings.hash  BY <1>1, <1>2, Uninstaller
  <2>2. ~torn => Fits(bin'[target], op.settings.hash)
    BY <1>1, <1>2, Uninstaller DEF Fits
  <2>3. settings.dir = target /\ op.settings = settings  BY <1>1, Uninstaller
  <2>4. target' = target  BY <1>1 DEF target
  <2>5. (~torn => Fits(bin[settings.dir], settings.hash))'  BY <1>1, <2>2, <2>3
  <2> QED BY <1>1, <2>1, <2>4, <2>5 DEF SettingsFit
<1> QED BY <1>3, <1>4, <1>5, <1>6 DEF IInv

\* csg is gone already, so the directory is empty afterwards, or it holds a
\* program of somebody else.
LEMMA RemoveManager == ASSUME IInv, removeManager PROVE IInv'
<1>1. /\ pc = "remove manager" /\ pc' = "remove legacy"
      /\ UNCHANGED <<settings, op, snap, at, lost, torn>>
      /\ removeCommand("codex-session-guard")
  BY DEF removeManager, Advance, removeCommand
<1>2. /\ bin' \in [Dir -> [Command -> Program]]
      /\ \A x \in Command :
           bin'[target][x] = IF x = "codex-session-guard" /\ bin[target][x] = op.settings.hash
                             THEN Absent ELSE bin[target][x]
  <2>1. target \in Dir  BY <1>1, Uninstaller
  <2>2. /\ bin' \in [Dir -> [Command -> Program]]
        /\ \A d \in Dir, x \in Command :
             bin'[d][x] = IF d = target /\ x = "codex-session-guard" /\ bin[d][x] = op.settings.hash
                          THEN Absent ELSE bin[d][x]
    <3>1. pc \in Uninstalling /\ "codex-session-guard" \in Command /\ removeCommand("codex-session-guard")  BY <1>1
    <3> QED BY <3>1, RemovedCommand
  <2> QED BY <2>1, <2>2
<1>3. Formed'   BY <1>1, <1>2 DEF IInv, Formed, SettingsForm
<1>4. OursOnly' BY <1>1 DEF OursOnly
<1>5. Untouched' BY <1>1 DEF IInv, Untouched
<1>6. SettingsFit'
  <2>1. ~torn => bin[target]["csg"] # op.settings.hash  BY <1>1 DEF IInv, SettingsFit
  <2>2. ~torn => Fits(bin'[target], op.settings.hash)
    BY <1>1, <1>2, <2>1, Uninstaller DEF Fits
  <2>3. settings.dir = target /\ op.settings = settings  BY <1>1, Uninstaller
  <2>5. (~torn => Fits(bin[settings.dir], settings.hash))'  BY <1>1, <2>2, <2>3
  <2> QED BY <1>1, <2>5 DEF SettingsFit
<1> QED BY <1>3, <1>4, <1>5, <1>6 DEF IInv

LEMMA EndUninstall == ASSUME IInv, endUninstall PROVE IInv'
<1>1. /\ pc = "remove legacy" /\ torn' = torn /\ Finish("uninstalled")
      /\ removeCommand("codex-recover")
  BY DEF endUninstall
<1>2. /\ bin' \in [Dir -> [Command -> Program]] /\ settings' = settings
      /\ \A x \in Installed : bin'[target][x] = bin[target][x]
  <2>1. target \in Dir  BY <1>1, Uninstaller
  <2>2. /\ bin' \in [Dir -> [Command -> Program]] /\ settings' = settings
        /\ \A d \in Dir, x \in Command :
             bin'[d][x] = IF d = target /\ x = "codex-recover" /\ bin[d][x] = op.settings.hash
                          THEN Absent ELSE bin[d][x]
    BY <1>1, RemovedCommand
  <2> QED BY <2>1, <2>2
<1>3. ~torn => Fits(bin'[target], op.settings.hash)
  BY <1>1, <1>2, Uninstaller DEF Fits
<1>4. torn' \in BOOLEAN  BY <1>1 DEF IInv, Formed
<1> QED BY <1>1, <1>2, <1>3, <1>4, Uninstaller, LastStep

-----------------------------------------------------------------------------
(* Faults and users.                                                       *)

\* Killed or given up where nothing is half way.
LEMMA Abandon ==
  ASSUME IInv, NEW result, pc # "idle", Finish(result), UNCHANGED <<bin, settings>>,
         torn' = (torn \/ pc \in HalfWay)
  PROVE  IInv'
<1>1. ASSUME ~torn', settings # Absent PROVE Fits(bin[settings.dir], settings.hash)
  <2>1. ~torn /\ pc \notin HalfWay  BY <1>1
  <2>2. CASE pc \in {"legacy", "codex-session-guard"}
    <3>1. /\ settings = snap.settings
          /\ \A c \in Installed : bin[target][c] = snap.bin[c]
      BY <2>2 DEF IInv, Untouched
    <3> QED BY <1>1, <2>1, <2>2, <3>1 DEF IInv, SettingsFit, Fits
  <2>3. CASE pc = "verify"
    BY <2>3 DEF IInv, Untouched, Fits, target
  <2>4. CASE pc \in Uninstalling
    BY <2>1, <2>4, Uninstaller
  <2> QED BY <2>1, <2>2, <2>3, <2>4 DEF HalfWay, IInv, Formed
<1>2. /\ bin' \in [Dir -> [Command -> Program]]
      /\ settings' # Absent => SettingsForm(settings')
      /\ torn' \in BOOLEAN
  BY DEF IInv, Formed
<1>3. (~torn' /\ settings' # Absent) => Fits(bin'[settings'.dir], settings'.hash)
  BY <1>1
<1> QED BY <1>2, <1>3, LastStep

\* An uninstaller that stops half way leaves settings that fit.
LEMMA GiveUpUninstall ==
  ASSUME IInv, NEW result, pc \in Uninstalling, Finish(result),
         bin' = bin, settings' = settings, torn' = torn
  PROVE  IInv'
<1>1. pc # "idle" /\ torn' = (torn \/ pc \in HalfWay)  BY DEF HalfWay, IInv, Formed
<1> QED BY <1>1, Abandon

LEMMA StepFailsKeeps == ASSUME IInv, StepFails PROVE IInv'
<1>1. CASE /\ pc \in Installing /\ pc' = "rollback"
           /\ UNCHANGED <<files, op, snap, at, lost, outcome, torn, edits>>
  BY <1>1, ToRollback DEF files
<1>2. CASE pc \in Uninstalling /\ Finish("failed") /\ UNCHANGED <<files, torn, edits>>
  <2>1. bin' = bin /\ settings' = settings /\ torn' = torn  BY <1>2 DEF files
  <2>2. pc \in Uninstalling /\ Finish("failed")  BY <1>2
  <2> HIDE DEF Uninstalling, Installing
  <2> QED BY <2>1, <2>2, GiveUpUninstall
<1>3. CASE restoreFile(TRUE)
  BY <1>3, RestoreFile
<1> QED BY <1>1, <1>2, <1>3 DEF StepFails

LEMMA ForeignCommandKeeps == ASSUME IInv, ForeignCommand PROVE IInv'
<1>1. /\ pc = "idle" /\ UNCHANGED <<settings, pc, op, snap, at, lost, torn>>
  BY DEF ForeignCommand, Idle
<1>2. PICK d \in Dir, c \in Command :
        bin[d][c] = Absent /\ bin' = [bin EXCEPT ![d][c] = Foreign]
  BY DEF ForeignCommand
<1>3. /\ bin' \in [Dir -> [Command -> Program]]
      /\ \A x \in Dir : \A y \in Installed : bin'[x][y] # bin[x][y] => bin'[x][y] = Foreign
  BY <1>2 DEF IInv, Formed
<1> QED BY <1>1, <1>3, IdleStep

-----------------------------------------------------------------------------
(* The theorems.                                                           *)

LEMMA Start == Init => IInv
<1> SUFFICES ASSUME Init PROVE IInv
  OBVIOUS
<1>0. /\ pc = "idle" /\ at = 0 /\ at \in 0..5
      /\ lost = FALSE /\ torn = FALSE /\ lost \in BOOLEAN /\ torn \in BOOLEAN
  <2>1. pc = "idle" /\ at = 0 /\ lost = FALSE /\ torn = FALSE  BY DEF Init
  <2>2. at \in 0..5  BY <2>1
  <2>3. lost \in BOOLEAN /\ torn \in BOOLEAN  BY <2>1
  <2> QED BY <2>1, <2>2, <2>3
<1>1. CASE /\ bin = [d \in Dir |-> [c \in Command |-> Absent]]
           /\ settings = Absent
  <2>1. bin \in [Dir -> [Command -> Program]]  BY <1>1
  <2>2. Formed  BY <1>0, <1>1, <2>1 DEF Formed, SettingsForm
  <2> QED BY <1>0, <1>1, <2>2 DEF IInv, OursOnly, Untouched, SettingsFit
<1>2. CASE \E d \in Dir, v \in Version :
             /\ bin = [x \in Dir |-> [c \in Command |-> IF x = d /\ c # "csg" THEN v ELSE Absent]]
             /\ settings = [dir |-> d, hash |-> v, created |-> TRUE,
                            key |-> [e \in Event |-> 1]]
  <2>1. PICK d \in Dir, v \in Version :
             /\ bin = [x \in Dir |-> [c \in Command |-> IF x = d /\ c # "csg" THEN v ELSE Absent]]
             /\ settings = [dir |-> d, hash |-> v, created |-> TRUE,
                            key |-> [e \in Event |-> 1]]
    BY <1>2
  <2>2. settings.dir = d /\ settings.hash = v /\ SettingsForm(settings)
    BY <2>1 DEF SettingsForm
  <2>3. Fits(bin[settings.dir], settings.hash)  BY <2>1, <2>2 DEF Fits
  <2>4. bin \in [Dir -> [Command -> Program]]  BY <2>1
  <2>5. Formed  BY <1>0, <2>2, <2>4 DEF Formed
  <2> QED BY <1>0, <2>3, <2>5 DEF IInv, OursOnly, Untouched, SettingsFit
<1> QED BY <1>1, <1>2 DEF Init

LEMMA Keep == IInv /\ [Next]_vars => IInv'
<1> SUFFICES ASSUME IInv, [Next]_vars PROVE IInv'
  OBVIOUS
<1>1. ASSUME NEW d \in Dir, NEW v \in Version, beginInstall(d, v) PROVE IInv'
  BY <1>1, BeginInstall
<1>2. CASE beginUninstall
  BY <1>2, BeginUninstall
<1>3. CASE Install
  <2>1. CASE copyExecutable("codex-session-guard", "csg")
    BY <2>1, CopyExecutable
  <2>2. CASE copyExecutable("csg", "backuphooks")
    BY <2>2, CopyExecutable
  <2>3. CASE backupHooksOnce \/ backupConfigOnce \/ installTrustBlock
    <3>1. /\ bin' = bin /\ settings' = settings /\ snap' = snap /\ at' = at /\ lost' = lost
          /\ torn' = torn /\ op' = op
          /\ pc \in {"backuphooks", "hooks", "backupconfig", "config"}
          /\ pc' \in {"hooks", "backupconfig", "config", "settings"}
      <4>1. CASE backupHooksOnce   BY <4>1 DEF backupHooksOnce, Advance
      <4>2. CASE backupConfigOnce
        <5>1. Advance("backupconfig", "config") /\ UNCHANGED <<bin, settings, op>>
          BY <4>2 DEF backupConfigOnce
        <5>2. /\ snap' = snap /\ at' = at /\ lost' = lost /\ torn' = torn
              /\ pc = "backupconfig" /\ pc' = "config"
          BY <5>1 DEF Advance
        <5> QED BY <5>1, <5>2
      <4>3. CASE installTrustBlock BY <4>3 DEF installTrustBlock, Advance
      <4> QED BY <2>3, <4>1, <4>2, <4>3
    <3>2. op = [settings |-> op.settings, owned |-> op.owned] /\ SettingsForm(op.settings)
      BY <3>1 DEF IInv, Formed
    <3>3. op' = [settings |-> op'.settings, owned |-> op.owned] /\ SettingsForm(op'.settings)
      BY <3>1, <3>2
    <3> QED BY <3>1, <3>3, QuietStep
  <2>4. CASE installHook
    <3>1. /\ bin' = bin /\ settings' = settings /\ snap' = snap /\ at' = at /\ lost' = lost
          /\ torn' = torn /\ pc \in {"backuphooks", "hooks", "backupconfig", "config"}
          /\ pc' \in {"hooks", "backupconfig", "config", "settings"}
      BY <2>4 DEF installHook, Advance
    <3>2. PICK key : op' = [op EXCEPT !.settings.key = key]
      BY <2>4 DEF installHook
    <3>3. op = [settings |-> op.settings, owned |-> op.owned] /\ SettingsForm(op.settings)
      BY <3>1 DEF IInv, Formed
    <3>4. op' = [settings |-> [op.settings EXCEPT !.key = key], owned |-> op.owned]
      BY <3>2, <3>3
    <3>5. /\ op'.settings.dir = op.settings.dir /\ op'.settings.hash = op.settings.hash
          /\ op' = [settings |-> op'.settings, owned |-> op.owned]
          /\ SettingsForm(op'.settings)
      BY <3>3, <3>4 DEF SettingsForm
    <3> QED BY <3>1, <3>5, QuietStep
  <2>5. CASE rejectInstall
    BY <2>5, ToRollback DEF rejectInstall, files
  <2>6. CASE restoreFiles
    BY <2>6, RestoreFile DEF restoreFiles
  <2> QED BY <1>3, <2>1, <2>2, <2>3, <2>4, <2>5, <2>6, RemoveLegacy, SaveSettings, CommitInstall
          DEF Install
<1>4. CASE Uninstall
  <2>1. CASE uninstallHook \/ stripTrustBlock
    BY <2>1, QuietUninstallStep DEF uninstallHook, stripTrustBlock, Advance
  <2>2. CASE rejectUninstall
    <3>1. /\ pc \in Uninstalling /\ Finish("failed")
          /\ bin' = bin /\ settings' = settings /\ torn' = torn
      BY <2>2 DEF rejectUninstall, files
    <3> HIDE DEF Uninstalling, Installing
    <3> QED BY <3>1, GiveUpUninstall
  <2> QED BY <1>4, <2>1, <2>2, RemoveCsg, RemoveManager, EndUninstall DEF Uninstall
<1>5. CASE Kill
  BY <1>5, Abandon DEF Kill, files
<1>6. CASE UserEdits
  <2>1. pc = "idle" /\ UNCHANGED <<bin, settings, pc, op, snap, at, lost, torn>>
    BY <1>6 DEF UserEdits, Idle
  <2>2. bin' \in [Dir -> [Command -> Program]]  BY <2>1 DEF IInv, Formed
  <2> QED BY <2>1, <2>2, IdleStep
<1>7. CASE UNCHANGED vars
  <2>1. UNCHANGED <<bin, settings, config, pc, op, snap, at, lost, torn>>  BY <1>7 DEF vars
  <2>2. Formed'     BY <2>1 DEF IInv, Formed, SettingsForm
  <2>3. OursOnly'   BY <2>1 DEF IInv, OursOnly, target
  <2>4. WrittenBack' = WrittenBack  BY <2>1 DEF WrittenBack, target
  <2>5. Untouched'  BY <2>1, <2>4 DEF IInv, Untouched, target
  <2>6. SettingsFit'  BY <2>1 DEF IInv, SettingsFit, Fits, target
  <2> QED BY <2>2, <2>3, <2>5, <2>6 DEF IInv
<1> QED BY <1>1, <1>2, <1>3, <1>4, <1>5, <1>6, <1>7, StepFailsKeeps, ForeignCommandKeeps DEF Next

\* The inductive invariant holds always.
THEOREM Invariance == Spec => []IInv
<1> QED BY Start, Keep, PTL DEF Spec

\* However many installs and uninstalls have run, failed or were killed
\* outside the torn stretch: the recorded directory accepts an install again
\* unless it holds a program of somebody else.
THEOREM ReinstallableTheorem == Spec => []Reinstallable
<1>1. IInv => Reinstallable
  BY DEF IInv, SettingsFit, Reinstallable, Blocked, Fits, validateInstallTargets, previousMatches
<1> QED BY <1>1, Invariance, PTL

\* A running command has said nothing yet.
Silent == pc # "idle" => outcome = "none"

LEMMA SilentInvariant == Spec => []Silent
<1>1. Init => Silent
  BY DEF Init, Silent
<1>2. Silent /\ [Next]_vars => Silent'
  <2> SUFFICES ASSUME Silent, [Next]_vars PROVE Silent'
    OBVIOUS
  <2> USE DEF Silent, Finish
  <2>1. ASSUME NEW d \in Dir, NEW v \in Version, beginInstall(d, v) PROVE Silent'
    BY <2>1 DEF beginInstall
  <2>2. CASE beginUninstall
    BY <2>2 DEF beginUninstall
  <2>3. ASSUME NEW fails \in BOOLEAN, restoreFile(fails) PROVE Silent'
    BY <2>3 DEF restoreFile
  <2>4. CASE Install
    BY <2>3, <2>4 DEF Install, Advance, removeLegacy, copyExecutable, backupHooksOnce, installHook,
       backupConfigOnce, installTrustBlock, saveSettings, commitInstall, rejectInstall, restoreFiles
  <2>5. CASE Uninstall
    BY <2>5 DEF Uninstall, Advance, uninstallHook, stripTrustBlock, removeCsg, removeManager,
       endUninstall, rejectUninstall
  <2>6. CASE StepFails
    BY <2>3, <2>6 DEF StepFails
  <2>7. CASE Kill \/ UserEdits \/ ForeignCommand \/ UNCHANGED vars
    BY <2>7 DEF Kill, UserEdits, ForeignCommand, Idle, vars
  <2> QED BY <2>1, <2>2, <2>4, <2>5, <2>6, <2>7 DEF Next
<1> QED BY <1>1, <1>2, PTL DEF Spec

\* An install that says it has restored the previous state has.
THEOREM RestoredTheorem == Spec => RestoredAsBefore
<1> DEFINE Back == outcome' = "restored" =>
             /\ \A c \in Command : bin'[op.settings.dir][c] = snap.bin[c]
             /\ hooks' = snap.hooks /\ config' = snap.config /\ settings' = snap.settings
<1>1. IInv /\ Silent /\ [Next]_vars => [Back]_vars
  <2> SUFFICES ASSUME IInv, Silent, Next, outcome' = "restored" PROVE Back
    OBVIOUS
  <2> USE DEF Finish
  <2>1. ASSUME NEW fails \in BOOLEAN, restoreFile(fails) PROVE Back
    <3>1. pc = "rollback" /\ at \in 0..5 /\ lost \in BOOLEAN
      BY <2>1, RestoredFiles DEF IInv, Formed
    <3>2. at = 5 /\ ~(lost \/ fails)
      BY <2>1, <3>1 DEF restoreFile, Silent
    <3> QED BY <2>1, <3>2, AllRestored DEF target
  <2>2. ASSUME NEW d \in Dir, NEW v \in Version, beginInstall(d, v) PROVE FALSE
    BY <2>2 DEF beginInstall
  <2>3. CASE Install
    <3>1. CASE restoreFiles
      BY <2>1, <3>1 DEF restoreFiles
    <3>2. CASE ~restoreFiles
      BY <2>3, <3>2 DEF Silent, Install, Advance, removeLegacy, copyExecutable, backupHooksOnce,
         installHook, backupConfigOnce, installTrustBlock, saveSettings, commitInstall, rejectInstall
    <3> QED BY <3>1, <3>2
  <2>4. CASE StepFails
    BY <2>1, <2>4 DEF StepFails, Silent
  <2>5. CASE beginUninstall \/ Uninstall \/ Kill \/ UserEdits \/ ForeignCommand
    BY <2>5 DEF Silent, beginUninstall, Uninstall, Advance, uninstallHook, stripTrustBlock, removeCsg,
       removeManager, endUninstall, rejectUninstall, Kill, UserEdits, ForeignCommand, Idle
  <2> QED BY <2>2, <2>3, <2>4, <2>5 DEF Next
<1> QED BY <1>1, Invariance, SilentInvariant, PTL DEF Spec, RestoredAsBefore

\* No step of an installer or uninstaller overwrites or removes a program
\* that is not its own, not even when it rolls back.
THEOREM ForeignKeptTheorem == Spec => ForeignKept
<1> DEFINE Kept == \A d \in Dir, c \in Command : bin[d][c] = Foreign => bin'[d][c] = Foreign
<1>1. IInv /\ [Next]_vars => [Kept]_vars
  <2> SUFFICES ASSUME IInv, Next PROVE Kept
    OBVIOUS
  <2>1. CASE bin' = bin
    BY <2>1
  <2>2. ASSUME NEW fails \in BOOLEAN, restoreFile(fails) PROVE Kept
    <3>1. /\ \A c \in Installed : bin[target][c] # Foreign
          /\ op.owned => bin[target]["codex-recover"] # Foreign
      BY <2>2, RestoredFiles DEF IInv, OursOnly
    <3> QED BY <2>2, <3>1, RestoredFiles
  <2>3. CASE removeLegacy
    <3>1. /\ pc = "legacy"
          /\ bin' = IF op.owned THEN [bin EXCEPT ![target]["codex-recover"] = Absent] ELSE bin
      BY <2>3 DEF removeLegacy, Advance, target
    <3>2. /\ target \in Dir /\ bin \in [Dir -> [Command -> Program]]
          /\ op.owned => bin[target]["codex-recover"] # Foreign
      BY <3>1 DEF IInv, Formed, OursOnly, target, SettingsForm
    <3> QED BY <3>1, <3>2
  <2>4. ASSUME NEW c \in Installed, NEW next, copyExecutable(c, next) PROVE Kept
    <3>1. pc = c /\ bin' = [bin EXCEPT ![target][c] = op.settings.hash]
      BY <2>4 DEF copyExecutable, Advance, target
    <3>2. /\ target \in Dir /\ bin \in [Dir -> [Command -> Program]]
          /\ bin[target][c] # Foreign
      BY <3>1 DEF IInv, Formed, OursOnly, target, SettingsForm
    <3> QED BY <3>1, <3>2
  <2>5. ASSUME NEW c \in Command, removeCommand(c), pc \in Uninstalling PROVE Kept
    <3>1. /\ \A d \in Dir, x \in Command :
               bin'[d][x] = IF d = target /\ x = c /\ bin[d][x] = op.settings.hash
                            THEN Absent ELSE bin[d][x]
          /\ op.settings.hash # Foreign
      BY <2>5, RemovedCommand, Uninstaller
    <3> QED BY <3>1
  <2>6. CASE ForeignCommand
    <3>1. PICK d \in Dir, c \in Command :
            bin[d][c] = Absent /\ bin' = [bin EXCEPT ![d][c] = Foreign]
      BY <2>6 DEF ForeignCommand
    <3> QED BY <3>1 DEF IInv, Formed
  <2>7. CASE Install
    <3>1. CASE restoreFiles  BY <2>2, <3>1 DEF restoreFiles
    <3>2. CASE \/ copyExecutable("codex-session-guard", "csg")
               \/ copyExecutable("csg", "backuphooks")
      BY <2>4, <3>2
    <3> QED BY <2>1, <2>3, <2>7, <3>1, <3>2 DEF Install, backupHooksOnce, installHook,
            backupConfigOnce, installTrustBlock, saveSettings, commitInstall, rejectInstall, files
  <2>8. CASE Uninstall
    <3>1. CASE removeCsg      BY <2>5, <3>1 DEF removeCsg, Advance
    <3>2. CASE removeManager  BY <2>5, <3>2 DEF removeManager, Advance
    <3>3. CASE endUninstall   BY <2>5, <3>3 DEF endUninstall
    <3> QED BY <2>1, <2>8, <3>1, <3>2, <3>3 DEF Uninstall, uninstallHook, stripTrustBlock,
            rejectUninstall, files
  <2>9. CASE StepFails
    BY <2>1, <2>2, <2>9 DEF StepFails, files
  <2> QED BY <2>1, <2>6, <2>7, <2>8, <2>9 DEF Next, beginInstall, beginUninstall, Kill, UserEdits, files
<1> QED BY <1>1, Invariance, PTL DEF Spec, ForeignKept
=============================================================================
