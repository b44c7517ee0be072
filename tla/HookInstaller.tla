--------------------------- MODULE HookInstaller ---------------------------
(***************************************************************************)
(* `remagraph install-hooks`: several invocations, of packages of several  *)
(* versions, put the post-commit hook into the directory git runs hooks    *)
(* from, while the user and other tools change the same files.             *)
(*                                                                         *)
(* Nothing locks the directory: every test and every system call is a      *)
(* step of its own, and an invocation may die between any two of them.     *)
(* stale[p] is history: somebody else changed the directory or the git     *)
(* configuration after p read it.                                          *)
(***************************************************************************)
EXTENDS Naturals, FiniteSets

CONSTANTS
  Procs,         \* invocations of install-hooks
  Repo,          \* <git-common-dir>/hooks
  Custom,        \* the existing directory a core.hooksPath names
  UserTemplate,  \* hooks/ under an init.templateDir of the user
  OwnTemplate,   \* hooks/ under _DEFAULT_GLOBAL_TEMPLATE_DIR
  Unset,         \* git config prints nothing
  Missing,       \* a core.hooksPath whose directory does not exist
  Versions,      \* CURRENT_FIELDS_SCHEMA_VERSION of the packages in use
  Start,         \* what each directory may hold at first
  MaxCalls,      \* bound: invocations
  MaxChanges     \* bound: changes by others

Dirs == {Repo, Custom, UserTemplate, OwnTemplate}
Templates == {UserTemplate, OwnTemplate}

\* A file: whose text it has, which of the user's hooks or which version of
\* ours (0 without version line), and its x bits.  "torn" has no marker yet,
\* "cut" has the marker and ends too early.
Writers == {"none", "user", "link", "remagraph", "cut", "torn"}
File == [by : Writers, n : Nat, x : BOOLEAN]
None == [by |-> "none", n |-> 0, x |-> FALSE]
Link == [by |-> "link", n |-> 0, x |-> TRUE]
Hook(v) == [by |-> "remagraph", n |-> v, x |-> TRUE]

\* post-commit, its .pre-remagraph-backup, and the file a link leads to.
Places == {"target", "backup", "behind"}
Folder == [Places -> File]

ASSUME DirsAssumption ==
  /\ Cardinality(Dirs) = 4
  /\ {Unset, Missing} \cap Dirs = {} /\ Unset # Missing
ASSUME VersionsAssumption == Versions \subseteq Nat /\ Versions # {}
ASSUME StartAssumption == Start \in [Dirs -> SUBSET Folder]
ASSUME BoundsAssumption == MaxCalls \in Nat /\ MaxChanges \in Nat

VARIABLES
  file,         \* what each directory holds
  hooksPath,    \* git config core.hooksPath
  templateDir,  \* git config --global init.templateDir
  pc,           \* where each invocation is
  call,         \* its mode, --force and package version
  dir,          \* its target_dir
  fd,           \* the file it has open for writing
  stale,        \* others changed what it has read
  calls,        \* invocations so far
  changes       \* changes by others so far

proc == <<pc, call, dir, fd>>
config == <<hooksPath, templateDir>>
vars == <<file, config, proc, stale, calls, changes>>

Modes == {"local", "global"}
Calls == [mode : Modes, force : BOOLEAN, version : Versions]
Steps == {"idle", "template", "look", "read", "backup", "replace", "open",
          "fill", "chmod", "done", "refused", "raised"}
Ended == {"idle", "done", "refused", "raised"}

TypeOK ==
  /\ file \in [Dirs -> Folder]
  /\ hooksPath \in {Unset, Missing, Custom}
  /\ templateDir \in {Unset} \union Templates
  /\ pc \in [Procs -> Steps]
  /\ call \in [Procs -> Calls]
  /\ dir \in [Procs -> Dirs]
  /\ fd \in [Procs -> Places \union {"gone"}]
  /\ stale \in [Procs -> BOOLEAN]
  /\ calls \in 0..MaxCalls
  /\ changes \in 0..MaxChanges

Init ==
  /\ file \in {f \in [Dirs -> UNION {Start[d] : d \in Dirs}] : \A d \in Dirs : f[d] \in Start[d]}
  /\ hooksPath \in {Unset, Missing, Custom}
  /\ templateDir \in {Unset, UserTemplate}
  /\ pc = [p \in Procs |-> "idle"]
  /\ call \in [Procs -> {CHOOSE c \in Calls : TRUE}]
  /\ dir = [p \in Procs |-> Repo]
  /\ fd = [p \in Procs |-> "gone"]
  /\ stale = [p \in Procs |-> FALSE]
  /\ calls = 0 /\ changes = 0

-----------------------------------------------------------------------------
\* MANAGED_HOOK_MARKER is in the text, or not.
Managed(f) == f.by \in {"remagraph", "cut"}
Foreign(f) == f.by # "none" /\ ~Managed(f)
Goto(p, step) == pc' = [pc EXCEPT ![p] = step]

\* Opening a path for reading or writing follows a link.
Opened(folder) == IF folder.target.by = "link" THEN "behind" ELSE "target"

\* The others that have read directory d, or the configuration, no longer
\* know what is there.
Noticed(d, p) == stale' = [q \in Procs |-> stale[q] \/ (q # p /\ dir[q] = d)]

\* p makes the file at `place` of its directory f.
Put(p, place, f) ==
  /\ file' = [file EXCEPT ![dir[p]][place] = f]
  /\ Noticed(dir[p], p)

-----------------------------------------------------------------------------
\* Mutant: core.hooksPath is not consulted.
CallIgnoringPath(p, c) ==
  /\ pc[p] \in Ended
  /\ calls < MaxCalls
  /\ calls' = calls + 1
  /\ call' = [call EXCEPT ![p] = c]
  /\ stale' = [stale EXCEPT ![p] = FALSE]
  /\ IF c.mode = "local"
     THEN dir' = [dir EXCEPT ![p] = Repo] /\ Goto(p, "look")
     ELSE IF templateDir = Unset
     THEN dir' = [dir EXCEPT ![p] = OwnTemplate] /\ Goto(p, "template")
     ELSE dir' = [dir EXCEPT ![p] = templateDir] /\ Goto(p, "look")
  /\ UNCHANGED <<file, config, fd, changes>>

\* install_local and install_global ask git where hooks go.  A hooksPath that
\* leads nowhere is refused.
Call(p, c) ==
  /\ pc[p] \in Ended
  /\ calls < MaxCalls
  /\ calls' = calls + 1
  /\ call' = [call EXCEPT ![p] = c]
  /\ stale' = [stale EXCEPT ![p] = FALSE]
  /\ \/ /\ c.mode = "local" /\ hooksPath = Missing
        /\ Goto(p, "refused") /\ UNCHANGED dir
     \/ /\ c.mode = "local" /\ hooksPath # Missing
        /\ Goto(p, "look")
        /\ dir' = [dir EXCEPT ![p] = IF hooksPath = Unset THEN Repo ELSE hooksPath]
     \/ /\ c.mode = "global" /\ templateDir = Unset
        /\ Goto(p, "template")
        /\ dir' = [dir EXCEPT ![p] = OwnTemplate]
     \/ /\ c.mode = "global" /\ templateDir # Unset
        /\ Goto(p, "look")
        /\ dir' = [dir EXCEPT ![p] = templateDir]
  /\ UNCHANGED <<file, config, fd, changes>>

\* git config --global init.templateDir <own>: it was unset a moment ago.
SetTemplate(p) ==
  /\ pc[p] = "template"
  /\ \/ /\ Goto(p, "look")
        /\ templateDir' = OwnTemplate
        /\ stale' = [q \in Procs |-> stale[q] \/ (q # p /\ templateDir # OwnTemplate)]
     \/ Goto(p, "refused") /\ UNCHANGED <<templateDir, stale>>
  /\ UNCHANGED <<file, hooksPath, call, dir, fd, calls, changes>>

\* target.is_symlink(), target.exists()
Look(p) ==
  LET target == file[dir[p]].target IN
  /\ pc[p] = "look"
  /\ \/ target.by = "none" /\ Goto(p, "open")
     \/ target.by = "link" /\ Goto(p, IF call[p].force THEN "backup" ELSE "refused")
     \/ target.by \notin {"none", "link"} /\ Goto(p, "read")
  /\ UNCHANGED <<file, config, call, dir, fd, stale, calls, changes>>

\* Mutant: --force also takes back a newer hook.
ReadForcing(p) ==
  LET text == file[dir[p]][Opened(file[dir[p]])] IN
  /\ pc[p] = "read"
  /\ \/ text.by = "none" /\ Goto(p, "raised")
     \/ /\ Managed(text)
        /\ Goto(p, IF text.n > call[p].version /\ ~call[p].force THEN "refused" ELSE "open")
     \/ Foreign(text) /\ Goto(p, IF call[p].force THEN "backup" ELSE "refused")
  /\ UNCHANGED <<file, config, call, dir, fd, stale, calls, changes>>

\* target.read_text() and what follows from it: a newer hook of ours is
\* refused whatever the flags, an older one is written over, a foreign text
\* needs --force.  A file that is gone meanwhile raises.
Read(p) ==
  LET text == file[dir[p]][Opened(file[dir[p]])] IN
  /\ pc[p] = "read"
  /\ \/ text.by = "none" /\ Goto(p, "raised")
     \/ Managed(text) /\ Goto(p, IF text.n > call[p].version THEN "refused" ELSE "open")
     \/ Foreign(text) /\ Goto(p, IF call[p].force THEN "backup" ELSE "refused")
  /\ UNCHANGED <<file, config, call, dir, fd, stale, calls, changes>>

\* Mutant: an earlier backup is overwritten.
CheckNoBackup(p) ==
  /\ pc[p] = "backup"
  /\ Goto(p, "replace")
  /\ UNCHANGED <<file, config, call, dir, fd, stale, calls, changes>>

\* backup.exists() or backup.is_symlink()
CheckBackup(p) ==
  /\ pc[p] = "backup"
  /\ Goto(p, IF file[dir[p]].backup.by = "none" THEN "replace" ELSE "refused")
  /\ UNCHANGED <<file, config, call, dir, fd, stale, calls, changes>>

\* os.replace(target, backup): a rename that replaces what is there and moves
\* a link, not what it leads to.  Open files move with their names.
Replace(p) ==
  LET d == dir[p] IN
  /\ pc[p] = "replace"
  /\ \/ /\ file[d].target.by = "none"
        /\ Goto(p, "raised")
        /\ UNCHANGED <<file, fd, stale>>
     \/ /\ file[d].target.by # "none"
        /\ Goto(p, "open")
        /\ file' = [file EXCEPT ![d].backup = file[d].target, ![d].target = None]
        /\ fd' = [q \in Procs |->
                    IF dir[q] # d \/ fd[q] \notin {"target", "backup"} THEN fd[q]
                    ELSE IF fd[q] = "target" THEN "backup" ELSE "gone"]
        /\ Noticed(d, p)
  /\ UNCHANGED <<config, call, dir, calls, changes>>

\* target.write_text: open(O_CREAT | O_TRUNC) ...
Open(p) ==
  LET place == Opened(file[dir[p]]) IN
  /\ pc[p] = "open"
  /\ Goto(p, "fill")
  /\ fd' = [fd EXCEPT ![p] = place]
  /\ Put(p, place, [by |-> "torn", n |-> 0, x |-> file[dir[p]][place].x])
  /\ UNCHANGED <<config, call, dir, calls, changes>>

Written(p, by) == [by |-> by, n |-> call[p].version, x |-> file[dir[p]][fd[p]].x]

\* ... write and close.
Fill(p) ==
  /\ pc[p] = "fill"
  /\ Goto(p, "chmod")
  /\ IF fd[p] = "gone"
     THEN UNCHANGED <<file, stale>>
     ELSE Put(p, fd[p], Written(p, "remagraph"))
  /\ fd' = [fd EXCEPT ![p] = "gone"]
  /\ UNCHANGED <<config, call, dir, calls, changes>>

\* os.chmod(target, 0o755) follows a link; a file that is gone raises.
Chmod(p) ==
  LET d == dir[p]
      place == Opened(file[d])
  IN
  /\ pc[p] = "chmod"
  /\ IF file[d][place].by = "none"
     THEN Goto(p, "raised") /\ UNCHANGED <<file, stale>>
     ELSE Goto(p, "done") /\ Put(p, place, [file[d][place] EXCEPT !.x = TRUE])
  /\ UNCHANGED <<config, call, dir, fd, calls, changes>>

\* The invocation dies, or a system call fails with an OSError nobody catches.
\* The hook is longer than the buffer of write_text, and has its marker at the
\* top: what is written of it may be recognised as ours.
Stop(p) ==
  /\ pc[p] \notin Ended
  /\ Goto(p, "raised")
  /\ \/ UNCHANGED <<file, stale>>
     \/ pc[p] = "fill" /\ fd[p] # "gone" /\ Put(p, fd[p], Written(p, "cut"))
  /\ fd' = [fd EXCEPT ![p] = "gone"]
  /\ UNCHANGED <<config, call, dir, calls, changes>>

-----------------------------------------------------------------------------
\* What the user and other tools do: put a file or a link in place of the
\* hook, take one away, change the configuration.
UserPuts(d, place, folder) ==
  /\ changes < MaxChanges
  /\ changes' = changes + 1
  /\ file' = [file EXCEPT ![d] = folder]
  /\ fd' = [q \in Procs |-> IF dir[q] = d /\ fd[q] = place THEN "gone" ELSE fd[q]]
  /\ stale' = [q \in Procs |-> stale[q] \/ dir[q] = d]
  /\ UNCHANGED <<config, pc, call, dir, calls>>

UserHook(n) == [by |-> "user", n |-> n, x |-> TRUE]

UserChange(d) ==
  \/ UserPuts(d, "target", [file[d] EXCEPT !.target = UserHook(changes + 1)])
  \/ UserPuts(d, "target", [file[d] EXCEPT !.target = None])
  \/ UserPuts(d, "backup", [file[d] EXCEPT !.backup = None])
  \/ /\ file[d].target.by # "link"
     /\ UserPuts(d, "target",
                 [file[d] EXCEPT !.target = Link, !.behind = UserHook(changes + 1)])

UserConfig ==
  /\ changes < MaxChanges
  /\ changes' = changes + 1
  /\ \/ hooksPath' \in {Unset, Missing, Custom} \ {hooksPath} /\ UNCHANGED templateDir
     \/ templateDir' \in {Unset, UserTemplate} \ {templateDir} /\ UNCHANGED hooksPath
  /\ stale' = [q \in Procs |-> TRUE]
  /\ UNCHANGED <<file, proc, calls>>

Step(p) ==
  \/ \E c \in Calls : Call(p, c)
  \/ SetTemplate(p)
  \/ Look(p)
  \/ Read(p)
  \/ CheckBackup(p)
  \/ Replace(p)
  \/ Open(p)
  \/ Fill(p)
  \/ Chmod(p)
  \/ Stop(p)

Next ==
  \/ \E p \in Procs : Step(p)
  \/ \E d \in Dirs : UserChange(d)
  \/ UserConfig

Spec == Init /\ [][Next]_vars

-----------------------------------------------------------------------------
(***************************************************************************)
(* Properties.                                                             *)
(***************************************************************************)

\* The user's hooks in d, or behind a link there.
UserHooks(d) == {file[d][place] : place \in Places} \intersect [by : {"user"}, n : Nat, x : BOOLEAN]

\* No invocation, with or without --force, whatever it finds and wherever it
\* dies, loses a hook the user wrote: it stays in place, in the backup, or
\* untouched behind the link.  Only one that acts on what somebody else has
\* changed meanwhile can: nothing locks the directory.
HooksKept ==
  [][\A p \in Procs : pc'[p] # pc[p] /\ ~stale[p] =>
       \A d \in Dirs : UserHooks(d) \subseteq UserHooks(d)']_vars

\* An older package never replaces a newer hook of ours, not even with --force
\* and not by way of the backup.
NeverDowngraded ==
  [][\A p \in Procs : pc'[p] # pc[p] /\ ~stale[p] =>
       \A d \in Dirs :
         LET f == file[d].target IN
         Managed(f) /\ f.n > call'[p].version => file'[d].target = f]_vars

\* What git runs after a commit here, and in repositories it creates later.
InUse(mode) ==
  IF mode = "local" THEN file[IF hooksPath = Unset THEN Repo ELSE hooksPath].target
  ELSE file[templateDir].target

\* An invocation that reports success has put its hook where git looks for it,
\* complete and executable, unless somebody has changed things since.
InstalledIsUsed ==
  \A p \in Procs : pc[p] = "done" /\ ~stale[p] =>
    InUse(call[p].mode) = Hook(call[p].version)
=============================================================================
