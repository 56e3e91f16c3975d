---------------------------- MODULE SessionGuard ----------------------------
(***************************************************************************)
(* The shared state of Codex Session Guard: one JSON record per supervised *)
(* run under <guard home>/runs, read and written by independent operating- *)
(* system processes that have nothing else in common.                      *)
(*                                                                         *)
(*   Csg   processes of the csg binary: csg run <command>, list,           *)
(*         resume and delete.  A run or a resume supervises the process    *)
(*         tree of one run.                                                *)
(*   Hook  processes of codex-session-guard hook that Codex starts inside  *)
(*         that tree when a session starts.                                *)
(*                                                                         *)
(* Any process may be killed between two of its steps, the machine may go  *)
(* down, and a listing reads the directory file by file while the others   *)
(* write it.  A read-modify-write of one record is one step here: that the *)
(* per-record lock makes it so, and when it does not, is module FileLock.  *)
(* How a supervisor tells a clean exit from a crash is module Supervisor.  *)
(***************************************************************************)
EXTENDS Integers, FiniteSets

CONSTANTS
  Csg,          \* processes of the csg binary, each used for one command
  Hook,         \* SessionStart hook processes, each used once
  Session,      \* Codex session IDs
  NoSession,    \* the empty SessionID of a record that is not bound
  NoProc,       \* no process, or one of an earlier boot of the machine
  MaxRuns,      \* bound on the run records ever created
  Leftover,     \* runs 1..Leftover crashed before the machine last booted
  Commands,     \* the commands users give
  KillOnClose,  \* TRUE: the tree dies with its supervisor (Windows Job)
  LoneKill,     \* TRUE: a supervisor may be killed without its tree (Unix)
  Faults        \* TRUE: I/O, lock acquisition and process queries may fail

Proc    == Csg \cup Hook
Run     == 1..MaxRuns
NoRun   == 0
Attempt == IF Faults THEN BOOLEAN ELSE {TRUE}    \* may this call succeed?
Blind   == IF Faults THEN BOOLEAN ELSE {FALSE}   \* may this query fail?

ASSUME ProcAssumption    == Csg \cap Hook = {} /\ NoProc \notin Csg \cup Hook
ASSUME SessionAssumption == NoSession \notin Session
ASSUME RunAssumption     == MaxRuns \in Nat /\ Leftover \in 0..MaxRuns
ASSUME SwitchAssumption  ==
  /\ KillOnClose \in BOOLEAN /\ LoneKill \in BOOLEAN
  /\ Faults \in BOOLEAN
ASSUME CommandAssumption == Commands \subseteq {"run", "list", "resume", "delete"}

VARIABLES
  files,  \* the runs whose record file exists
  rec,    \* the content of those files
  born,   \* runs 1..born have been created; the number orders StartedAt
  tree,   \* the process tree of each run
  pc,     \* where each process is in its program
  mem     \* the local variables of each process

store == <<files, rec, born>>
vars  == <<files, rec, born, tree, pc, mem>>

(***************************************************************************)
(* A record names three processes by PID and start time: its supervisor,   *)
(* the Codex process and the process that claimed its recovery.  Codex is  *)
(* either the root of the tree or, when onStart did not write it, the      *)
(* ancestor a Windows hook found.  A start time never repeats here.        *)
(***************************************************************************)
RunRecord == [wrapper : Csg \cup {NoProc}, codex : {"none", "root", "ancestor"},
              session : Session \cup {NoSession}, claim : Csg \cup {NoProc}]
Blank == [wrapper |-> NoProc, codex |-> "none",
          session |-> NoSession, claim |-> NoProc]

\* On Windows a new target is suspended, and a stray until it is in the Job.
TreeState == {"none", "stray", "suspended", "root", "group", "dead"}
Running   == {"suspended", "root", "group"}

Label == {"idle", "gone",
          "save", "start", "assign", "onstart", "resume", "wait", "remove",
          "unstarted", "binding", "discard", "unread", "release",
          "readdir", "scan", "classify", "claim", "claimAll", "removeAll",
          "bind", "sweep"}

Locals == [cmd     : {"none", "run", "list", "resume", "delete", "hook"},
           own     : Run \cup {NoRun},               \* the run supervised or reported
           sid     : Session \cup {NoSession},       \* the session ID asked for
           todo    : SUBSET Run,                     \* records still to visit
           saw     : SUBSET Run,                     \* records read by readAllRuns
           view    : [Run -> RunRecord],             \* ... and what they said then
           crashed : SUBSET Run,                     \* recoveryCandidates
           claimed : SUBSET Run]                     \* claims this process holds
Fresh == [cmd |-> "none", own |-> NoRun, sid |-> NoSession, todo |-> {}, saw |-> {},
          view |-> [r \in Run |-> Blank], crashed |-> {}, claimed |-> {}]

TypeOK ==
  /\ files \subseteq Run
  /\ rec \in [Run -> RunRecord]
  /\ born \in 0..MaxRuns
  /\ tree \in [Run -> TreeState]
  /\ pc \in [Proc -> Label]
  /\ mem \in [Proc -> Locals]

Init ==
  /\ files = 1..Leftover
  /\ \E of \in [1..Leftover -> Session] :
       rec = [r \in Run |-> IF r \in 1..Leftover
                            THEN [Blank EXCEPT !.codex = "root", !.session = of[r]]
                            ELSE Blank]
  /\ born = Leftover
  /\ tree = [r \in Run |-> IF r \in 1..Leftover THEN "dead" ELSE "none"]
  /\ pc   = [p \in Proc |-> "idle"]
  /\ mem  = [p \in Proc |-> Fresh]

-----------------------------------------------------------------------------
(* What a process can find out about others.                               *)

\* A process named in a record once ran: it is alive until it is gone.
ProcAlive(p) == p # NoProc /\ pc[p] # "gone"
Live(p)      == pc[p] \notin {"idle", "gone"}

CodexAlive(r, record) ==
  \/ record.codex = "root" /\ tree[r] \in {"suspended", "root"}
  \/ record.codex = "ancestor" /\ tree[r] \in {"root", "group"}

\* Mutant: a query that fails counts as dead.
unknownIsDead(alive, blind) ==
  IF blind \/ ~alive THEN "dead" ELSE "alive"

\* blind: the query itself fails, for lack of permission or transiently.
processLiveness(alive, blind) ==
  IF blind THEN "unknown" ELSE IF alive THEN "alive" ELSE "dead"

\* Mutant: only the Codex process counts, not the supervisor.
codexLivenessOnly(r, record, blind) == processLiveness(CodexAlive(r, record), blind)

recordProcessLiveness(r, record, blind) ==
  LET states == {processLiveness(CodexAlive(r, record), blind),
                 processLiveness(ProcAlive(record.wrapper), blind)}
  IN IF "alive" \in states THEN "alive"
     ELSE IF "unknown" \in states THEN "unknown" ELSE "dead"

recordIsAlive(r, record, blind) == recordProcessLiveness(r, record, blind) # "dead"

\* Mutants: the claim is not looked at, or only when it can be verified.
claimIgnored(record, blind)  == FALSE
claimVerified(record, blind) == processLiveness(ProcAlive(record.claim), blind) = "alive"

recordHasActiveRecoveryClaim(record, blind) ==
  processLiveness(ProcAlive(record.claim), blind) # "dead"

\* UNKNOWN, which list shows and everybody treats like RUNNING, is RUNNING.
statusForRecord(r, record, blind) ==
  IF recordIsAlive(r, record, blind) \/ recordHasActiveRecoveryClaim(record, blind)
  THEN "RUNNING" ELSE "CRASHED"

-----------------------------------------------------------------------------
(* Steps of a process: go to a label, finish, and what removes a record.   *)

Go(p, label) == pc' = [pc EXCEPT ![p] = label]
Keep         == UNCHANGED mem
Finish(p)    == Go(p, "gone") /\ mem' = [mem EXCEPT ![p] = Fresh]

\* The rest of a run after runGuarded: a resume gives its claim back.
Return(c) == IF mem[c].cmd = "resume"
             THEN Go(c, "release") /\ mem' = [mem EXCEPT ![c].todo = mem[c].claimed]
             ELSE Finish(c)

removeRun(r, ok) ==
  /\ files' = IF ok THEN files \ {r} ELSE files
  /\ rec'   = IF ok THEN [rec EXCEPT ![r] = Blank] ELSE rec
  /\ UNCHANGED <<born, tree>>

\* Mutants: a record is written with its bindings only, or not at all.
mutateRunPartly(r, record) ==
  /\ rec' = [rec EXCEPT ![r] = [session |-> record.session, claim |-> record.claim]]
  /\ UNCHANGED <<files, born, tree>>
mutateRunNever(r, record) == rec' = rec /\ UNCHANGED <<files, born, tree>>

mutateRun(r, record) == rec' = [rec EXCEPT ![r] = record] /\ UNCHANGED <<files, born, tree>>

-----------------------------------------------------------------------------
(* runGuarded and superviseProcess.                                        *)

Invoke(c, cmd, sid) ==
  /\ pc[c] = "idle"
  /\ cmd \in Commands
  /\ cmd = "list" => sid = NoSession
  /\ cmd \in {"resume", "delete"} => sid # NoSession
  /\ Go(c, IF cmd = "run" THEN "save" ELSE "readdir")
  /\ mem' = [mem EXCEPT ![c].cmd = cmd, ![c].sid = sid]
  /\ UNCHANGED <<store, tree>>

\* The record is on disk before the target starts.  A session named in the
\* arguments (csg resume always names one) is bound at once.
saveNewRun(c) ==
  /\ pc[c] = "save"
  /\ \/ /\ born < MaxRuns
        /\ born'  = born + 1
        /\ files' = files \cup {born'}
        /\ rec'   = [rec EXCEPT ![born'] = [Blank EXCEPT !.wrapper = c,
                                                         !.session = mem[c].sid]]
        /\ Go(c, "start")
        /\ mem'   = [mem EXCEPT ![c].own = born']
        /\ UNCHANGED tree
     \/ /\ Faults
        /\ Return(c)
        /\ UNCHANGED <<store, tree>>

\* cmd.Start.
startTarget(c) ==
  /\ pc[c] = "start"
  /\ \E ok \in Attempt :
       /\ tree' = [tree EXCEPT ![mem[c].own] =
                     IF ~ok THEN "none" ELSE IF KillOnClose THEN "stray" ELSE "root"]
       /\ Go(c, IF ~ok THEN "unstarted" ELSE IF KillOnClose THEN "assign" ELSE "onstart")
  /\ UNCHANGED store /\ Keep

\* Windows only.  A target that cannot join the Job is killed.
assignProcessToJob(c) ==
  /\ pc[c] = "assign"
  /\ LET r == mem[c].own
     IN \/ /\ tree[r] = "stray"
           /\ tree' = [tree EXCEPT ![r] = "suspended"]
           /\ Go(c, "onstart")
        \/ /\ Faults \/ tree[r] # "stray"
           /\ tree' = [tree EXCEPT ![r] = "dead"]
           /\ Go(c, "unstarted")
  /\ UNCHANGED store /\ Keep

\* The callback writes CodexPID; an error of updateRun is dropped.
onStart(c) ==
  /\ pc[c] = "onstart"
  /\ \E ok \in Attempt :
       LET r == mem[c].own
       IN mutateRun(r, IF ok /\ r \in files THEN [rec[r] EXCEPT !.codex = "root"] ELSE rec[r])
  /\ Go(c, IF KillOnClose THEN "resume" ELSE "wait") /\ Keep

\* Windows only.  A target that cannot be resumed is terminated with its Job.
resumeSuspendedProcess(c) ==
  /\ pc[c] = "resume"
  /\ LET r == mem[c].own
     IN \/ /\ tree[r] = "suspended"
           /\ tree' = [tree EXCEPT ![r] = "root"]
           /\ Go(c, "wait")
        \/ /\ Faults \/ tree[r] # "suspended"
           /\ tree' = [tree EXCEPT ![r] = "dead"]
           /\ Go(c, "unstarted")
  /\ UNCHANGED store /\ Keep

\* superviseProcess returns when the tree is dead and says whether the exit
\* was clean.  The crash fields written otherwise are not modelled.
superviseProcess(c) ==
  /\ pc[c] = "wait"
  /\ tree[mem[c].own] = "dead"
  /\ \E clean \in BOOLEAN : Go(c, IF clean THEN "remove" ELSE "binding")
  /\ UNCHANGED <<store, tree>> /\ Keep

\* Mutant: without a deadline an unbound record is awaited for ever.
waitForSessionBindingForever(c) ==
  /\ pc[c] = "binding"
  /\ LET r == mem[c].own
     IN \/ /\ r \in files /\ rec[r].session # NoSession
           /\ Return(c)
        \/ /\ r \notin files \/ Faults
           /\ Go(c, "unread") /\ Keep
  /\ UNCHANGED <<store, tree>>

\* Mutant: the record is discarded whether or not it has been bound.
discardUnasked(c) ==
  /\ pc[c] = "binding"
  /\ Go(c, "discard") /\ Keep
  /\ UNCHANGED <<store, tree>>

\* The crash path reads the record for two seconds, until it names a
\* session, and discards it if it does not, or on the first error.
waitForSessionBinding(c) ==
  /\ pc[c] = "binding"
  /\ LET r == mem[c].own
     IN \/ /\ r \in files /\ rec[r].session # NoSession
           /\ Return(c)
        \/ /\ r \in files /\ rec[r].session = NoSession
           /\ Go(c, "discard") /\ Keep
        \/ /\ r \notin files \/ Faults
           /\ Go(c, "unread") /\ Keep
  /\ UNCHANGED <<store, tree>>

\* removeRun of the own record: after a clean exit, a failed launch, or a
\* crash before any session was bound, as far as could be read.
removeOwnRun(c) ==
  /\ pc[c] \in {"remove", "unstarted", "discard", "unread"}
  /\ \E ok \in Attempt : removeRun(mem[c].own, ok)
  /\ Return(c)

-----------------------------------------------------------------------------
(* readAllRuns, shared by list, resume, delete and the hook.               *)

readDir(p) ==
  /\ pc[p] = "readdir"
  /\ \/ /\ Go(p, "scan")
        /\ mem' = [mem EXCEPT ![p].todo = files]
     \/ Faults /\ Finish(p)
  /\ UNCHANGED <<store, tree>>

\* One file at a time, in the order of random names; one that has gone or
\* cannot be read is left out.
readFile(p) ==
  /\ pc[p] = "scan"
  /\ \E r \in mem[p].todo, ok \in Attempt :
       mem' = [mem EXCEPT ![p].todo = @ \ {r},
                          ![p].saw  = IF ok /\ r \in files THEN @ \cup {r} ELSE @,
                          ![p].view = IF ok /\ r \in files THEN [@ EXCEPT ![r] = rec[r]] ELSE @]
  /\ UNCHANGED <<store, pc, tree>>

Scanned(p) == pc[p] = "scan" /\ mem[p].todo = {}

\* Mutant: the session ID is not compared.
matchesAll(p) == mem[p].saw

Matches(p) == {r \in mem[p].saw : mem[p].view[r].session = mem[p].sid}

-----------------------------------------------------------------------------
(* trackedSessions: csg list, and the first half of csg resume.            *)

beginClassify(c) ==
  /\ Scanned(c) /\ mem[c].cmd \in {"list", "resume"}
  /\ Go(c, "classify")
  /\ mem' = [mem EXCEPT ![c].todo = mem[c].saw]
  /\ UNCHANGED <<store, tree>>

\* Mutant: the oldest first.
Oldest(S) == {r \in S : \A q \in S : r <= q}

\* records are sorted by StartedAt, the newest first
Newest(S) == {r \in S : \A q \in S : q <= r}

\* seen[record.SessionID]: a newer record of the session came before
Seen(c, r) == \E q \in mem[c].saw \ mem[c].todo :
                 mem[c].view[q].session = mem[c].view[r].session

classifyRecord(c) ==
  /\ pc[c] = "classify"
  /\ \E r \in Newest(mem[c].todo), blind \in Blind :
       LET record  == mem[c].view[r]
           crashed == statusForRecord(r, record, blind) = "CRASHED"
       IN IF crashed /\ record.session = NoSession
          THEN \E ok \in Attempt :
                 /\ removeRun(r, ok)
                 /\ IF ok THEN /\ mem' = [mem EXCEPT ![c].todo = @ \ {r}]
                               /\ UNCHANGED pc
                    ELSE Finish(c)
          ELSE /\ mem' = [mem EXCEPT
                    ![c].todo = @ \ {r},
                    ![c].crashed = IF crashed /\ ~Seen(c, r) THEN @ \cup {r} ELSE @]
               /\ UNCHANGED <<store, tree, pc>>

\* csg list prints and ends; csg resume looks for the session among the
\* crashed ones and for its launcher.
endClassify(c) ==
  /\ pc[c] = "classify" /\ mem[c].todo = {}
  /\ LET found == Matches(c) \cap mem[c].crashed
     IN \/ /\ mem[c].cmd = "list" \/ found = {} \/ Faults
           /\ Finish(c)
        \/ /\ mem[c].cmd = "resume" /\ found # {}
           /\ Go(c, "claim")
           /\ mem' = [mem EXCEPT ![c].todo = found]
  /\ UNCHANGED <<store, tree>>

-----------------------------------------------------------------------------
(* The second half of csg resume.  runGuarded comes between the two.       *)

claimRun(c) ==
  /\ pc[c] = "claim"
  /\ \E r \in mem[c].todo, ok \in Attempt, blind \in Blind :
       IF /\ ok /\ r \in files
          /\ rec[r].session # NoSession
          /\ ~recordHasActiveRecoveryClaim(rec[r], blind)
       THEN /\ mutateRun(r, [rec[r] EXCEPT !.claim = c])
            /\ Go(c, "save")
            /\ mem' = [mem EXCEPT ![c].claimed = {r}]
       ELSE /\ Finish(c)
            /\ UNCHANGED <<store, tree>>

\* releaseRunClaim, of one claim; what fails is ignored
releaseRunClaim(c) ==
  /\ pc[c] = "release"
  /\ \/ \E r \in mem[c].todo, ok \in Attempt :
          /\ mutateRun(r, IF ok /\ r \in files /\ rec[r].claim = c
                          THEN [rec[r] EXCEPT !.claim = NoProc] ELSE rec[r])
          /\ mem' = [mem EXCEPT ![c].todo = @ \ {r}, ![c].claimed = @ \ {r}]
          /\ UNCHANGED pc
     \/ /\ mem[c].todo = {}
        /\ Finish(c)
        /\ UNCHANGED <<store, tree>>

-----------------------------------------------------------------------------
(* deleteRecoveryMain: check all matching records, claim all, remove all.  *)

checkMatches(c) ==
  /\ Scanned(c) /\ mem[c].cmd = "delete"
  /\ \E blind \in Blind :
       IF \/ Matches(c) = {}
          \/ \E r \in Matches(c) : statusForRecord(r, mem[c].view[r], blind) # "CRASHED"
       THEN Finish(c)
       ELSE /\ Go(c, "claimAll")
            /\ mem' = [mem EXCEPT ![c].todo = Matches(c)]
  /\ UNCHANGED <<store, tree>>

ReleaseClaims(c) ==
  /\ Go(c, "release")
  /\ mem' = [mem EXCEPT ![c].todo = mem[c].claimed]
  /\ UNCHANGED <<store, tree>>

claimRunForDelete(c) ==
  /\ pc[c] = "claimAll"
  /\ \/ \E r \in mem[c].todo, ok \in Attempt, blind \in Blind :
          IF /\ ok /\ r \in files
             /\ rec[r].session = mem[c].sid
             /\ ~recordIsAlive(r, rec[r], blind)
             /\ ~recordHasActiveRecoveryClaim(rec[r], blind)
          THEN /\ mutateRun(r, [rec[r] EXCEPT !.claim = c])
               /\ mem' = [mem EXCEPT ![c].todo = @ \ {r}, ![c].claimed = @ \cup {r}]
               /\ UNCHANGED pc
          ELSE ReleaseClaims(c)
     \/ /\ mem[c].todo = {}
        /\ Go(c, "removeAll")
        /\ mem' = [mem EXCEPT ![c].todo = mem[c].claimed]
        /\ UNCHANGED <<store, tree>>

removeClaimedRun(c) ==
  /\ pc[c] = "removeAll"
  /\ \/ \E r \in mem[c].todo, ok \in Attempt :
          IF ok /\ r \in files /\ rec[r].session = mem[c].sid /\ rec[r].claim = c
          THEN /\ removeRun(r, TRUE)
               /\ mem' = [mem EXCEPT ![c].todo = @ \ {r}, ![c].claimed = @ \ {r}]
               /\ UNCHANGED pc
          ELSE ReleaseClaims(c)
     \/ /\ mem[c].todo = {}
        /\ Finish(c)
        /\ UNCHANGED <<store, tree>>

-----------------------------------------------------------------------------
(* hookMain for SessionStart.  Codex runs its hooks one after another, and *)
(* any session may start in the tree: a new one, one named in the          *)
(* arguments, or the one chosen after /clear or /resume.                   *)

hookMain(h, r, sid) ==
  /\ pc[h] = "idle"
  /\ tree[r] \in {"root", "group"}
  /\ \A g \in Hook : mem[g].own # r
  /\ Go(h, "bind")
  /\ mem' = [mem EXCEPT ![h].cmd = "hook", ![h].own = r, ![h].sid = sid]
  /\ UNCHANGED <<store, tree>>

\* On Windows the nearest codex.exe above the hook, if there is one.
nearestCodexAncestor == IF KillOnClose THEN {"none", "ancestor"} ELSE {"none"}

bindSession(h) ==
  /\ pc[h] = "bind"
  /\ LET r == mem[h].own
     IN \/ /\ r \in files
           /\ \E ancestor \in nearestCodexAncestor :
                mutateRun(r, [rec[r] EXCEPT !.session = mem[h].sid,
                                            !.codex = IF @ = "none" THEN ancestor ELSE @])
           /\ Go(h, "readdir") /\ Keep
        \/ /\ r \notin files \/ Faults
           /\ Finish(h)
           /\ UNCHANGED <<store, tree>>

\* removeOlderDeadRecords, once the directory has been read
beginSweep(h) ==
  /\ Scanned(h) /\ mem[h].cmd = "hook"
  /\ Go(h, "sweep")
  /\ mem' = [mem EXCEPT ![h].todo = Matches(h) \ {mem[h].own}]
  /\ UNCHANGED <<store, tree>>

removeOlderDeadRecords(h) ==
  /\ pc[h] = "sweep"
  /\ \/ \E r \in mem[h].todo, ok \in Attempt, blind \in Blind :
          /\ removeRun(r, ok /\ ~recordIsAlive(r, mem[h].view[r], blind))
          /\ mem' = [mem EXCEPT ![h].todo = @ \ {r}]
          /\ UNCHANGED pc
     \/ /\ mem[h].todo = {}
        /\ Finish(h)
        /\ UNCHANGED <<store, tree>>

-----------------------------------------------------------------------------
(* What the environment does: processes and trees die.                     *)

\* The processes P end and the trees of the runs R, which the hooks that
\* Codex started there belong to.
Die(P, R) ==
  LET D == P \cup {h \in Hook : mem[h].own \in R}
  IN /\ pc'   = [p \in Proc |-> IF p \in D THEN "gone" ELSE pc[p]]
     /\ mem'  = [p \in Proc |-> IF p \in D THEN Fresh ELSE mem[p]]
     /\ tree' = [r \in Run |-> IF r \in R /\ tree[r] # "none" THEN "dead" ELSE tree[r]]
     /\ UNCHANGED store

\* The launcher exits and leaves Codex behind it.
RootExits(r) ==
  /\ tree[r] = "root"
  /\ tree' = [tree EXCEPT ![r] = "group"]
  /\ UNCHANGED <<store, pc, mem>>

\* The last process of the tree ends: it exits, crashes, or its supervisor
\* stops what the launcher left behind.
TreeDies(r) == tree[r] \in Running \cup {"stray"} /\ Die({}, {r})

\* A supervisor takes its tree with it, but for a stray, or, on Unix, is
\* killed alone.
Kill(p) ==
  /\ Live(p)
  /\ \/ Die({p}, IF p \in Csg /\ pc[p] # "assign" THEN {mem[p].own} ELSE {})
     \/ p \in Csg /\ LoneKill /\ ~KillOnClose /\ Die({p}, {})

Reboot == (\E p \in Proc : Live(p)) /\ Die({p \in Proc : Live(p)}, Run)

-----------------------------------------------------------------------------
Supervise(c) == \/ saveNewRun(c) \/ startTarget(c) \/ assignProcessToJob(c) \/ onStart(c)
                \/ resumeSuspendedProcess(c) \/ superviseProcess(c)
                \/ waitForSessionBinding(c) \/ removeOwnRun(c)

CsgStep(c) == \/ Supervise(c)
              \/ readDir(c) \/ readFile(c)
              \/ beginClassify(c) \/ classifyRecord(c) \/ endClassify(c)
              \/ claimRun(c) \/ releaseRunClaim(c)
              \/ checkMatches(c) \/ claimRunForDelete(c) \/ removeClaimedRun(c)

HookStep(h) == \/ bindSession(h) \/ readDir(h) \/ readFile(h)
               \/ beginSweep(h) \/ removeOlderDeadRecords(h)

Next ==
  \/ \E c \in Csg : \/ CsgStep(c)
                    \/ \E cmd \in Commands, sid \in Session \cup {NoSession} :
                         Invoke(c, cmd, sid)
  \/ \E h \in Hook : \/ HookStep(h)
                     \/ \E r \in Run, sid \in Session : hookMain(h, r, sid)
  \/ \E r \in Run : RootExits(r) \/ TreeDies(r)
  \/ \E p \in Proc : Kill(p)
  \/ Reboot

\* The operating system runs every live process; nobody has to give a
\* command, start a session or end a tree.
Fairness == /\ \A c \in Csg : WF_vars(CsgStep(c))
            /\ \A h \in Hook : WF_vars(HookStep(h))

Spec == Init /\ [][Next]_vars /\ Fairness

-----------------------------------------------------------------------------
(* Properties.                                                             *)

\* Two processes never both hold the recovery of one record: claimRun and
\* claimRunForDelete refuse while the process named in the claim is alive.
ClaimExclusive == \A c, d \in Csg : c # d => mem[c].claimed \cap mem[d].claimed = {}

\* A claim a process believes in is the one on disk, so that releaseRunClaim
\* and removeClaimedRun find it, unless the record has been removed.
ClaimOnDisk == \A c \in Csg : \A r \in mem[c].claimed \cap files : rec[r].claim = c

\* README: "CRASHED: the monitored process tree stopped".  What list shows
\* and resume may take has no process left, however old the scan is.
CrashedIsDead == \A c \in Csg : \A r \in mem[c].crashed : tree[r] \notin Running

\* A process tree that still runs has its record on disk: no listing, hook
\* or delete takes the record of an active session away.
ActiveTracked == \A r \in Run : tree[r] \in Running => r \in files

\* trackedSessions keeps the newest record of a session only: a session is
\* never offered from an old record when a newer one was read.
NewestOnly ==
  \A c \in Csg : \A r \in mem[c].crashed : \A q \in mem[c].saw :
    mem[c].view[q].session = mem[c].view[r].session => q <= r

\* A record that names a session disappears only when its own supervisor
\* saw a clean exit or a failed launch, or could not read it back after a
\* crash; by a delete of that session that holds its claim; by a hook that
\* read it as a record of the session its own record tracks; or in a listing
\* that read it before it was bound.
RecordKept ==
  [][\A r \in files \ files' : rec[r].session # NoSession =>
       \/ \E c \in Csg : pc[c] \in {"remove", "unstarted", "unread"} /\ mem[c].own = r
                        /\ removeOwnRun(c)
       \/ \E c \in Csg : mem[c].sid = rec[r].session /\ r \in mem[c].claimed
                        /\ removeClaimedRun(c)
       \/ \E h \in Hook : /\ mem[h].view[r].session = mem[h].sid
                          /\ mem[h].own \in files' /\ rec'[mem[h].own].session = mem[h].sid
                          /\ removeOlderDeadRecords(h)
       \/ \E c \in Csg : mem[c].view[r].session = NoSession /\ classifyRecord(c)]_vars

\* README: "An abrupt stop leaves it on disk for the next csg list."  So no
\* cleaner takes a bound record away: not a listing, and not a hook whose own
\* record tracks another session.
CleanersKeepBound ==
  [][\A r \in files \ files' : rec[r].session # NoSession =>
       /\ ~\E c \in Csg : classifyRecord(c)
       /\ \A h \in Hook : removeOlderDeadRecords(h) => rec[r].session = mem[h].sid]_vars

\* errRecoveryInProgress: "the session is being resumed in another
\* terminal".  Two resumes of one session never run at the same time.
OneResumePerSession ==
  \A c, d \in Csg :
    /\ c # d /\ mem[c].cmd = "resume" /\ mem[d].cmd = "resume"
    /\ mem[c].own # NoRun /\ mem[d].own # NoRun
    /\ tree[mem[c].own] \in Running /\ tree[mem[d].own] \in Running
    => mem[c].sid # mem[d].sid

\* Every process comes to its end, or waits for a tree that is still there:
\* nobody is blocked by what the others do, claim or leave behind.
AllSettle ==
  \A p \in Proc : <>[](~Live(p) \/ (pc[p] = "wait" /\ tree[mem[p].own] # "dead"))

\* The records keep the promise of RunRegistry: a process supervises its run
\* from saveNewRun until it removes the record or returns to its claims.
registrySupervises == [c \in Csg |-> IF pc[c] = "release" THEN NoRun ELSE mem[c].own]
registryStatus ==
  [r \in Run |-> IF r > born THEN "absent"
                 ELSE IF r \notin files THEN "gone"
                 ELSE IF \E c \in Csg : registrySupervises[c] = r THEN "running" ELSE "crashed"]
registryClaims == [c \in Csg |-> mem[c].claimed]
registryHolder ==
  [r \in Run |-> IF r \in files /\ ProcAlive(rec[r].claim) THEN rec[r].claim ELSE NoProc]
Registry == INSTANCE RunRegistry WITH Record <- Run, Client <- Csg,
                                      NoRecord <- NoRun, NoClient <- NoProc,
                                      status <- registryStatus, holder <- registryHolder,
                                      supervises <- registrySupervises, claims <- registryClaims
ImplementsRegistry == Registry!Spec

=============================================================================
