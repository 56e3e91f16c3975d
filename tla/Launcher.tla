------------------------------ MODULE Launcher ------------------------------
(***************************************************************************)
(* How csg finds the program to start: from what the user asked for in     *)
(* csg run, and from a run record in csg resume.  Also how it recognises   *)
(* the session in the arguments of csg run.  Pure operators on a snapshot  *)
(* of the file system.                                                     *)
(***************************************************************************)
EXTENDS Integers, Sequences

CONSTANTS Place,      \* directories
          Name,       \* file names
          Entry,      \* those of the guard: csg, codex-session-guard, codex-recover
          Batch,      \* the names Windows tries for a name: itself, then with extensions
          SessionID,  \* UUIDs of sessions
          NoFile, NoSession

ASSUME EntryAssumption == Entry \subseteq Name
ASSUME BatchAssumption == Batch \in [Name -> Seq(Name)]
ASSUME NoneAssumption  == NoFile \notin Place \X Name /\ NoSession \notin SessionID

File == Place \X Name

\* A directory, a file that is not executable, a program, or a link to the
\* csg that runs.
Kind == {"absent", "dir", "plain", "program", "self"}

\* What a user may ask for: a bare name, or a path, relative or absolute.
Request ==      [form : {"bare", "relative"}, name : Name]
           \cup [form : {"absolute"}, place : Place, name : Name]

isGuardInstallEntry(file, installDir) == file[1] = installDir /\ file[2] \in Entry

\* isUnixExecutable on Unix, any file on Windows.
isLaunchFile(platform, kind) ==
  kind \in {"program", "self"} \/ (platform = "windows" /\ kind = "plain")

windowsLaunchCandidates(platform, name) == IF platform = "windows" THEN Batch[name] ELSE <<name>>

\* The first of the candidates among the files that can be launched, NoFile
\* if there is none.
firstFile(candidates, launchable) ==
  LET good == {i \in DOMAIN candidates : candidates[i] \in launchable}
  IN IF good = {} THEN NoFile
     ELSE candidates[CHOOSE i \in good : \A j \in good : i <= j]

launchFiles(env) == {file \in File : isLaunchFile(env.platform, env.disk[file])}

resolveExplicitLaunchPath(env, place, name) ==
  LET names == windowsLaunchCandidates(env.platform, name)
  IN firstFile([i \in DOMAIN names |-> <<place, names[i]>>], launchFiles(env))

\* PATH is searched without the guard's own commands.
lookPathExcluding(env, name) ==
  LET names == windowsLaunchCandidates(env.platform, name)
      n     == Len(names)
  IN firstFile([i \in 1..(n * Len(env.path)) |->
                  <<env.path[((i - 1) \div n) + 1], names[((i - 1) % n) + 1]>>],
               {file \in launchFiles(env) : ~isGuardInstallEntry(file, env.installDir)})

\* NoFile where the code returns an error.
resolveLaunchTarget(env, request, cwd) ==
  LET file == CASE request.form = "bare"     -> lookPathExcluding(env, request.name)
                [] request.form = "relative" -> resolveExplicitLaunchPath(env, cwd, request.name)
                [] request.form = "absolute" -> resolveExplicitLaunchPath(env, request.place, request.name)
  IN IF file = NoFile \/ isGuardInstallEntry(file, env.installDir) \/ env.disk[file] = "self"
     THEN NoFile ELSE file

\* Mutants: a file that has become csg itself is used; PATH is searched
\* anew; the new record asks for the file.
targetWithoutCheck(env, record) ==
  LET gone == env.disk[record.resolved] \in {"absent", "dir"}
      file == IF record.platform # env.platform THEN NoFile
              ELSE IF gone THEN resolveLaunchTarget(env, record.requested, record.cwd)
              ELSE record.resolved
  IN <<file, record.requested>>
targetResolvedAnew(env, record) ==
  <<IF record.platform # env.platform THEN NoFile
    ELSE resolveLaunchTarget(env, record.requested, record.cwd), record.requested>>
targetByFile(env, record) ==
  LET gone == \/ env.disk[record.resolved] \in {"absent", "dir"}
              \/ isGuardInstallEntry(record.resolved, env.installDir)
      file == IF record.platform # env.platform THEN NoFile
              ELSE IF gone THEN resolveLaunchTarget(env, record.requested, record.cwd)
              ELSE IF env.disk[record.resolved] = "self" THEN NoFile
              ELSE record.resolved
  IN <<file, [form |-> "absolute", place |-> record.resolved[1], name |-> record.resolved[2]]>>

\* The recorded file as long as it is one and not the guard's; otherwise
\* what the recorded request means now, in the recorded directory.  With the
\* request the new record will name.
targetForRecord(env, record) ==
  LET gone == \/ env.disk[record.resolved] \in {"absent", "dir"}
              \/ isGuardInstallEntry(record.resolved, env.installDir)
      file == IF record.platform # env.platform THEN NoFile
              ELSE IF gone THEN resolveLaunchTarget(env, record.requested, record.cwd)
              ELSE IF env.disk[record.resolved] = "self" THEN NoFile
              ELSE record.resolved
  IN <<file, record.requested>>

-----------------------------------------------------------------------------
(* Arguments of csg run: flags and options Codex is known to accept before *)
(* its command, the command "resume", session IDs, and anything else.      *)

Argument == {"flag", "option", "option=value", "resume", "word"} \cup SessionID

\* Mutant: the value of an option is read as the next argument.
consumeOne(args, index) == IF args[index] \in {"flag", "option=value", "option"} THEN 1 ELSE 0

\* How many arguments the known option at index takes, 0 for an unknown one.
consumeKnownGlobalOption(args, index) ==
  CASE args[index] \in {"flag", "option=value"}        -> 1
    [] args[index] = "option" /\ index + 1 <= Len(args) -> 2
    [] OTHER                                            -> 0

explicitResumeSessionID(args) ==
  LET from[index \in 1..(Len(args) + 1)] ==
        IF index > Len(args) THEN NoSession
        ELSE IF args[index] = "resume"
        THEN IF index + 1 = Len(args) /\ args[index + 1] \in SessionID
             THEN args[index + 1] ELSE NoSession
        ELSE LET consumed == consumeKnownGlobalOption(args, index)
             IN IF consumed = 0 THEN NoSession ELSE from[index + consumed]
  IN from[1]

\* The same, said of the whole line at once: it ends in resume and a session
\* ID, and what comes before can be cut, at the places in cuts, into flags
\* and options with their values.
namesSession(args, session) ==
  \E cuts \in SUBSET (1..(Len(args) - 1)) :
    /\ {1, Len(args) - 1} \subseteq cuts
    /\ args[Len(args)] = session /\ args[Len(args) - 1] = "resume"
    /\ \A i, j \in cuts :
         (i < j /\ \A k \in cuts : ~(i < k /\ k < j))
           => \/ j = i + 1 /\ args[i] \in {"flag", "option=value"}
              \/ j = i + 2 /\ args[i] = "option"
=============================================================================
