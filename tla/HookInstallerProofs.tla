------------------------ MODULE HookInstallerProofs ------------------------
(***************************************************************************)
(* For any number of invocations, versions, kinds of files and changes by  *)
(* others: an installer that nobody has interfered with loses no hook of   *)
(* the user, downgrades no hook of ours, and reports success only of a     *)
(* hook that git runs.                                                     *)
(*                                                                         *)
(* The inductive invariant says what an invocation knows of its directory  *)
(* at each step, as long as nobody else has changed it.                    *)
(***************************************************************************)
EXTENDS HookInstaller, TLAPS

\* Where the configuration sends an invocation of this mode.
Target(mode) ==
  IF mode = "local" THEN IF hooksPath = Unset THEN Repo ELSE hooksPath
  ELSE templateDir

\* The directory is the one git uses.
Aimed(p) ==
  /\ pc[p] \in {"look", "read", "backup", "replace", "open", "fill", "chmod", "done"} =>
    dir[p] = Target(call[p].mode)
  /\ pc[p] = "template" => call[p].mode = "global" /\ dir[p] = OwnTemplate

\* What p has found, or has made of what it found.
Knows(p) ==
  LET f == file[dir[p]]
      v == call[p].version
  IN
  /\ pc[p] = "read" => f["target"].by # "link"
  /\ pc[p] \in {"backup", "replace"} => ~Managed(f["target"])
  /\ pc[p] = "replace" => f["backup"].by = "none"
  /\ pc[p] = "open" => \/ f["target"].by = "none"
                       \/ Managed(f["target"]) /\ ~(f["target"].n > v)
  /\ pc[p] = "fill" => fd[p] = "target" /\ f["target"].by = "torn"
  /\ pc[p] \in {"chmod", "done"} => f["target"].by = "remagraph" /\ f["target"].n = v
  /\ pc[p] = "done" => f["target"].x

Sound(p) == ~stale[p] => Aimed(p) /\ Knows(p)
Inv == TypeOK /\ \A p \in Procs : Sound(p)

-----------------------------------------------------------------------------
\* The directories of the modes are directories.
LEMMA DirsAreDirs == Repo \in Dirs /\ Custom \in Dirs /\ Templates \subseteq Dirs /\ OwnTemplate \in Templates
  BY DEF Dirs, Templates

\* The files an installer makes are files.
LEMMA FilesAreFiles ==
  /\ None \in File /\ Link \in File
  /\ \A v \in Nat : UserHook(v) \in File
  /\ \A by \in Writers, v \in Nat, x \in BOOLEAN : [by |-> by, n |-> v, x |-> x] \in File
  BY DEF None, Link, UserHook, File, Writers

LEMMA InitTyped == Init => TypeOK
<1> SUFFICES ASSUME Init PROVE TypeOK OBVIOUS
<1>1. file \in [Dirs -> Folder]
  <2>1. \A d \in Dirs : Start[d] \subseteq Folder
    BY StartAssumption
  <2>2. file \in [Dirs -> UNION {Start[d] : d \in Dirs}] /\ \A d \in Dirs : file[d] \in Start[d]
    BY DEF Init
  <2>. QED BY <2>1, <2>2
<1>2. (CHOOSE c \in Calls : TRUE) \in Calls
  <2>1. PICK v \in Versions : TRUE BY VersionsAssumption
  <2>2. [mode |-> "local", force |-> TRUE, version |-> v] \in Calls BY DEF Calls, Modes
  <2>. QED BY <2>2
<1>3. call \in [Procs -> Calls]
  <2>. DEFINE c == CHOOSE x \in Calls : TRUE
  <2>1. call \in [Procs -> {c}] BY DEF Init
  <2>2. c \in Calls BY <1>2
  <2>. HIDE DEF c
  <2>. QED BY <2>1, <2>2
<1>4. /\ hooksPath \in {Unset, Missing, Custom} /\ templateDir \in {Unset} \union Templates
      /\ pc \in [Procs -> Steps] /\ fd \in [Procs -> Places \union {"gone"}] /\ stale \in [Procs -> BOOLEAN]
  BY DEF Init, Templates, Steps, Places
<1>5. dir \in [Procs -> Dirs]
  BY DirsAreDirs DEF Init
<1>6. calls \in 0..MaxCalls /\ changes \in 0..MaxChanges
  BY BoundsAssumption DEF Init
<1>. QED BY <1>1, <1>3, <1>4, <1>5, <1>6 DEF TypeOK

LEMMA InitSound == Init => Inv
  BY InitTyped DEF Init, Inv, Sound, Aimed, Knows

-----------------------------------------------------------------------------
\* A place of a directory that is made another file.
LEMMA PutTyped ==
  ASSUME TypeOK, NEW p \in Procs, NEW place \in Places, NEW f \in File, Put(p, place, f)
  PROVE  /\ file' \in [Dirs -> Folder]
         /\ stale' \in [Procs -> BOOLEAN]
         /\ file'[dir[p]] = [file[dir[p]] EXCEPT ![place] = f]
         /\ \A d \in Dirs : d # dir[p] => file'[d] = file[d]
         /\ stale'[p] = stale[p]
         /\ \A q \in Procs : q # p /\ ~stale'[q] => ~stale[q] /\ dir[q] # dir[p]
<1>1. file \in [Dirs -> [Places -> File]] /\ dir[p] \in Dirs
  BY DEF TypeOK, Folder
<1>2. file' = [file EXCEPT ![dir[p]][place] = f] BY DEF Put
<1>3. file'[dir[p]] = [file[dir[p]] EXCEPT ![place] = f] BY <1>1, <1>2
<1>4. \A d \in Dirs : d # dir[p] => file'[d] = file[d] BY <1>1, <1>2
<1>5. [file[dir[p]] EXCEPT ![place] = f] \in [Places -> File] BY <1>1
<1>6. file' \in [Dirs -> Folder] BY <1>1, <1>2, <1>5 DEF Folder
<1>7. stale' = [q \in Procs |-> stale[q] \/ (q # p /\ dir[q] = dir[p])] /\ stale \in [Procs -> BOOLEAN]
  BY DEF Put, Noticed, TypeOK
<1>8. stale' \in [Procs -> BOOLEAN] BY <1>7
<1>9. stale'[p] = stale[p] BY <1>7
<1>10. \A q \in Procs : q # p /\ ~stale'[q] => ~stale[q] /\ dir[q] # dir[p] BY <1>7
<1>. QED BY <1>3, <1>4, <1>6, <1>8, <1>9, <1>10
-----------------------------------------------------------------------------
(***************************************************************************)
(* Every step keeps the invariant: what the others know is not touched, or *)
(* they have become stale.                                                 *)
(***************************************************************************)

LEMMA OthersSound ==
  ASSUME Inv, NEW q \in Procs,
         pc'[q] = pc[q], call'[q] = call[q], dir'[q] = dir[q],
         ~stale'[q] => /\ ~stale[q] /\ fd'[q] = fd[q]
                       /\ file'[dir[q]] = file[dir[q]]
                       /\ hooksPath' = hooksPath /\ templateDir' = templateDir
  PROVE  Sound(q)'
<1> SUFFICES ASSUME ~stale'[q] PROVE Aimed(q)' /\ Knows(q)'
  BY DEF Sound
<1>1. Aimed(q) /\ Knows(q) BY DEF Inv, Sound
<1>2. Aimed(q)' BY <1>1 DEF Aimed, Target
<1>3. Knows(q)' BY <1>1 DEF Knows
<1>. QED BY <1>2, <1>3

\* The steps that only look and decide.
LEMMA Decided ==
  ASSUME Inv, NEW p \in Procs, NEW step \in Steps, Goto(p, step),
         UNCHANGED <<file, config, call, dir, fd, stale, calls, changes>>,
         Sound(p)'
  PROVE  Inv'
<1>1. TypeOK'
  BY DEF Inv, TypeOK, Goto, config
<1>2. ASSUME NEW q \in Procs, q # p PROVE Sound(q)'
  <2>1. pc'[q] = pc[q] BY <1>2 DEF Goto, Inv, TypeOK
  <2>. QED BY <2>1, OthersSound DEF config
<1>. QED BY <1>1, <1>2 DEF Inv

LEMMA CallStep == ASSUME Inv, NEW p \in Procs, NEW c \in Calls, Call(p, c) PROVE Inv'
<1>1. pc'[p] \in {"refused", "look", "template"} /\ pc' \in [Procs -> Steps]
  BY DEF Call, Goto, Inv, TypeOK, Steps
<1>2. dir' \in [Procs -> Dirs]
  BY DirsAreDirs DEF Call, Inv, TypeOK
<1>3. calls' \in 0..MaxCalls
  BY BoundsAssumption DEF Call, Inv, TypeOK
<1>4. TypeOK'
  BY <1>1, <1>2, <1>3 DEF Call, Inv, TypeOK, config
<1>5. call'[p] = c BY DEF Call, Inv, TypeOK
<1>6. Sound(p)'
  <2>1. Knows(p)' BY <1>1 DEF Knows
  <2>2. ASSUME pc'[p] = "look" PROVE dir'[p] = Target(c.mode)'
    BY <2>2 DEF Call, Goto, Inv, TypeOK, Target, config
  <2>3. ASSUME pc'[p] = "template" PROVE c.mode = "global" /\ dir'[p] = OwnTemplate
    BY <2>3 DEF Call, Goto, Inv, TypeOK
  <2>4. Aimed(p)'
    BY <1>1, <1>5, <2>2, <2>3 DEF Aimed
  <2>. QED BY <2>1, <2>4 DEF Sound
<1>7. ASSUME NEW q \in Procs, q # p PROVE Sound(q)'
  <2>1. pc'[q] = pc[q] /\ call'[q] = call[q] /\ dir'[q] = dir[q] /\ stale'[q] = stale[q]
    BY <1>7 DEF Call, Goto, Inv, TypeOK
  <2>. QED BY <2>1, OthersSound DEF Call, config
<1>. QED BY <1>4, <1>6, <1>7 DEF Inv

LEMMA SetTemplateStep == ASSUME Inv, NEW p \in Procs, SetTemplate(p) PROVE Inv'
<1>1. CASE Goto(p, "refused") /\ UNCHANGED <<templateDir, stale>>
  <2>1. pc'[p] = "refused" BY <1>1 DEF Goto, Inv, TypeOK
  <2>2. Sound(p)' BY <2>1 DEF Sound, Aimed, Knows
  <2>. QED BY <1>1, <2>2, Decided DEF SetTemplate, config, Steps
<1>2. CASE /\ Goto(p, "look") /\ templateDir' = OwnTemplate
           /\ stale' = [q \in Procs |-> stale[q] \/ (q # p /\ templateDir # OwnTemplate)]
  <2>1. TypeOK'
    BY <1>2, DirsAreDirs DEF SetTemplate, Goto, Inv, TypeOK, Steps
  <2>2. pc'[p] = "look" /\ pc[p] = "template" /\ stale'[p] = stale[p]
    BY <1>2 DEF SetTemplate, Goto, Inv, TypeOK
  <2>3. Sound(p)'
    <3>1. ~stale[p] => call[p].mode = "global" /\ dir[p] = OwnTemplate
      BY <2>2 DEF Inv, Sound, Aimed
    <3>2. Knows(p)' BY <2>2 DEF Knows
    <3>3. Aimed(p)' \/ stale'[p]
      BY <1>2, <2>2, <3>1 DEF SetTemplate, Aimed, Target
    <3>. QED BY <3>2, <3>3 DEF Sound
  <2>4. ASSUME NEW q \in Procs, q # p PROVE Sound(q)'
    <3>1. pc'[q] = pc[q] BY <1>2, <2>4 DEF Goto, Inv, TypeOK
    <3>2. ~stale'[q] => ~stale[q] /\ templateDir' = templateDir
      BY <1>2, <2>4
    <3>. QED BY <3>1, <3>2, OthersSound DEF SetTemplate
  <2>. QED BY <2>1, <2>3, <2>4 DEF Inv
<1>. QED BY <1>1, <1>2 DEF SetTemplate

LEMMA LookStep == ASSUME Inv, NEW p \in Procs, Look(p) PROVE Inv'
<1>. DEFINE t == file[dir[p]].target
<1>1. /\ pc[p] = "look" /\ pc'[p] \in {"open", "backup", "refused", "read"}
      /\ pc' = [pc EXCEPT ![p] = pc'[p]]
      /\ UNCHANGED <<file, config, call, dir, fd, stale, calls, changes>>
  BY DEF Look, Goto, Inv, TypeOK
<1>2. /\ pc'[p] = "open" => t.by = "none"
      /\ pc'[p] = "backup" => t.by = "link"
      /\ pc'[p] = "read" => t.by # "link"
  BY DEF Look, Goto, Inv, TypeOK
<1>3. Sound(p)'
  <2>1. Aimed(p)' \/ stale[p]
    BY <1>1 DEF Inv, Sound, Aimed, Target, config
  <2>2. Knows(p)' BY <1>1, <1>2 DEF Knows, Managed
  <2>. QED BY <1>1, <2>1, <2>2 DEF Sound
<1>. QED BY <1>1, <1>3, Decided DEF Goto, Steps

LEMMA ReadStep == ASSUME Inv, NEW p \in Procs, Read(p) PROVE Inv'
<1>. DEFINE f == file[dir[p]]
            t == f.target
<1>1. /\ pc[p] = "read" /\ pc'[p] \in {"raised", "open", "backup", "refused"}
      /\ pc' = [pc EXCEPT ![p] = pc'[p]]
      /\ UNCHANGED <<file, config, call, dir, fd, stale, calls, changes>>
  BY DEF Read, Goto, Inv, TypeOK
<1>2. ASSUME ~stale[p] PROVE f[Opened(f)] = t
  BY <1>1, <1>2 DEF Inv, Sound, Knows, Opened
<1>3. ASSUME ~stale[p]
      PROVE  /\ pc'[p] = "open" => Managed(t) /\ ~(t.n > call[p].version)
             /\ pc'[p] = "backup" => ~Managed(t)
  BY <1>2, <1>3 DEF Read, Goto, Inv, TypeOK, Foreign
<1>4. Sound(p)'
  <2>1. Aimed(p)' \/ stale[p]
    BY <1>1 DEF Inv, Sound, Aimed, Target, config
  <2>2. Knows(p)' \/ stale[p] BY <1>1, <1>3 DEF Knows
  <2>. QED BY <1>1, <2>1, <2>2 DEF Sound
<1>. QED BY <1>1, <1>4, Decided DEF Goto, Steps

LEMMA CheckBackupStep == ASSUME Inv, NEW p \in Procs, CheckBackup(p) PROVE Inv'
<1>1. /\ pc[p] = "backup" /\ pc'[p] \in {"replace", "refused"}
      /\ pc' = [pc EXCEPT ![p] = pc'[p]]
      /\ UNCHANGED <<file, config, call, dir, fd, stale, calls, changes>>
      /\ pc'[p] = "replace" => file[dir[p]].backup.by = "none"
  BY DEF CheckBackup, Goto, Inv, TypeOK
<1>2. Sound(p)'
  <2>1. Aimed(p)' \/ stale[p]
    BY <1>1 DEF Inv, Sound, Aimed, Target, config
  <2>2. Knows(p)' \/ stale[p] BY <1>1 DEF Inv, Sound, Knows
  <2>. QED BY <1>1, <2>1, <2>2 DEF Sound
<1>. QED BY <1>1, <1>2, Decided DEF Goto, Steps

-----------------------------------------------------------------------------
(***************************************************************************)
(* The steps that change files.                                            *)
(***************************************************************************)

\* What p found is still so when it acts, unless it is stale.
LEMMA Undisturbed ==
  ASSUME Inv, NEW p \in Procs, ~stale[p] PROVE Aimed(p) /\ Knows(p)
  BY DEF Inv, Sound

LEMMA ReplaceStep == ASSUME Inv, NEW p \in Procs, Replace(p) PROVE Inv'
<1>. DEFINE d == dir[p]
<1>1. CASE file[d].target.by = "none"
  <2>1. Goto(p, "raised") /\ pc'[p] = "raised"
    BY <1>1 DEF Replace, Goto, Inv, TypeOK
  <2>2. Sound(p)' BY <2>1 DEF Sound, Aimed, Knows
  <2>. QED BY <1>1, <2>1, <2>2, Decided DEF Replace, Steps
<1>2. CASE file[d].target.by # "none"
  <2>1. /\ file \in [Dirs -> [Places -> File]] /\ d \in Dirs
        /\ "target" \in Places /\ "backup" \in Places
        /\ None \in File /\ file[d].target \in File
    BY FilesAreFiles DEF Inv, TypeOK, Folder, Places
  <2>2. file' = [file EXCEPT ![d].backup = file[d].target, ![d].target = None]
    BY <1>2 DEF Replace
  <2>3. file' \in [Dirs -> Folder]
    BY <2>1, <2>2 DEF Folder
  <2>4. file'[d].target = None /\ \A e \in Dirs : e # d => file'[e] = file[e]
    BY <2>1, <2>2
  <2>5. stale' = [q \in Procs |-> stale[q] \/ (q # p /\ dir[q] = d)]
    BY <1>2 DEF Replace, Noticed
  <2>6. fd' = [q \in Procs |->
                 IF dir[q] # d \/ fd[q] \notin {"target", "backup"} THEN fd[q]
                 ELSE IF fd[q] = "target" THEN "backup" ELSE "gone"]
    BY <1>2 DEF Replace
  <2>7. pc[p] = "replace" /\ pc' = [pc EXCEPT ![p] = "open"] /\ UNCHANGED <<config, call, dir, calls, changes>>
    BY <1>2 DEF Replace, Goto
  <2>8. TypeOK'
    <3>1. stale' \in [Procs -> BOOLEAN] BY <2>5 DEF Inv, TypeOK
    <3>2. fd' \in [Procs -> Places \union {"gone"}]
      BY <2>1, <2>6 DEF Inv, TypeOK
    <3>. QED BY <2>3, <2>7, <3>1, <3>2 DEF Inv, TypeOK, Steps, config
  <2>9. Sound(p)'
    <3>1. pc'[p] = "open" /\ stale'[p] = stale[p] BY <2>5, <2>7 DEF Inv, TypeOK
    <3>2. Aimed(p)' \/ stale[p]
      BY <2>7, <3>1 DEF Inv, Sound, Aimed, Target, config
    <3>3. Knows(p)' BY <2>4, <2>7, <3>1 DEF Knows, None
    <3>. QED BY <3>1, <3>2, <3>3 DEF Sound
  <2>10. ASSUME NEW q \in Procs, q # p PROVE Sound(q)'
    <3>1. pc'[q] = pc[q] BY <2>7, <2>10 DEF Inv, TypeOK
    <3>2. ~stale'[q] => ~stale[q] /\ dir[q] # d BY <2>5, <2>10
    <3>3. ~stale'[q] => fd'[q] = fd[q] BY <3>2, <2>6
    <3>4. ~stale'[q] => file'[dir[q]] = file[dir[q]]
      BY <3>2, <2>4 DEF Inv, TypeOK
    <3>. QED BY <2>7, <3>1, <3>2, <3>3, <3>4, OthersSound DEF config
  <2>. QED BY <2>8, <2>9, <2>10 DEF Inv
<1>. QED BY <1>1, <1>2

\* A step of p that makes one file and may close or open its own.
LEMMA Written1 ==
  ASSUME Inv, NEW p \in Procs, NEW step \in Steps, Goto(p, step),
         NEW place \in Places, NEW f \in File, Put(p, place, f),
         NEW open \in Places \union {"gone"}, fd' = [fd EXCEPT ![p] = open],
         UNCHANGED <<config, call, dir, calls, changes>>,
         Sound(p)'
  PROVE  Inv'
<1>1. TypeOK'
  BY PutTyped DEF Inv, TypeOK, Goto, config
<1>2. ASSUME NEW q \in Procs, q # p PROVE Sound(q)'
  <2>1. pc'[q] = pc[q] /\ fd'[q] = fd[q] BY <1>2 DEF Goto, Inv, TypeOK
  <2>2. ~stale'[q] => ~stale[q] /\ dir[q] # dir[p] BY <1>2, PutTyped DEF Inv
  <2>3. ~stale'[q] => file'[dir[q]] = file[dir[q]]
    <3>1. dir[q] \in Dirs BY DEF Inv, TypeOK
    <3>. QED BY <2>2, <3>1, PutTyped DEF Inv
  <2>. QED BY <2>1, <2>2, <2>3, OthersSound DEF config
<1>. QED BY <1>1, <1>2 DEF Inv
LEMMA OpenStep == ASSUME Inv, NEW p \in Procs, Open(p) PROVE Inv'
<1>. DEFINE place == Opened(file[dir[p]])
            f == [by |-> "torn", n |-> 0, x |-> file[dir[p]][place].x]
<1>1. /\ pc[p] = "open" /\ Goto(p, "fill") /\ fd' = [fd EXCEPT ![p] = place]
      /\ Put(p, place, f) /\ UNCHANGED <<config, call, dir, calls, changes>>
  BY DEF Open
<1>2. place \in Places BY DEF Opened, Places
<1>3. f \in File
  <2>1. file[dir[p]][place] \in File BY <1>2 DEF Inv, TypeOK, Folder
  <2>. QED BY <2>1 DEF File, Writers
<1>4. pc'[p] = "fill" /\ fd'[p] = place BY <1>1 DEF Goto, Inv, TypeOK
<1>5. /\ file'[dir[p]] = [file[dir[p]] EXCEPT ![place] = f] /\ stale'[p] = stale[p]
      /\ file[dir[p]] \in [Places -> File]
  BY <1>1, <1>2, <1>3, PutTyped DEF Inv, TypeOK, Folder
<1>6. Sound(p)'
  <2> SUFFICES ASSUME ~stale[p] PROVE Aimed(p)' /\ Knows(p)' BY <1>5 DEF Sound
  <2>1. Aimed(p)' BY <1>1, <1>4, Undisturbed DEF Aimed, Target, config
  <2>2. place = "target" BY <1>1, Undisturbed DEF Knows, Managed, Opened
  <2>3. f.by = "torn" OBVIOUS
  <2>. HIDE DEF f, place
  <2>4. file'[dir[p]]["target"] = f BY <1>5, <2>2 DEF Places
  <2>5. Knows(p)' BY <1>1, <1>4, <2>2, <2>3, <2>4 DEF Knows
  <2>. QED BY <2>1, <2>5
<1>. HIDE DEF f, place
<1>. QED BY <1>1, <1>2, <1>3, <1>6, Written1 DEF Steps

\* What is written into the open file.
LEMMA WrittenTyped ==
  ASSUME Inv, NEW p \in Procs, fd[p] \in Places, NEW by \in Writers
  PROVE  Written(p, by) \in File
<1>1. file[dir[p]][fd[p]] \in File BY DEF Inv, TypeOK, Folder
<1>2. call[p].version \in Nat BY VersionsAssumption DEF Inv, TypeOK, Calls
<1>. QED BY <1>1, <1>2 DEF Written, File

LEMMA FillStep == ASSUME Inv, NEW p \in Procs, Fill(p) PROVE Inv'
<1>1. /\ pc[p] = "fill" /\ Goto(p, "chmod") /\ fd' = [fd EXCEPT ![p] = "gone"]
      /\ UNCHANGED <<config, call, dir, calls, changes>>
  BY DEF Fill
<1>2. pc'[p] = "chmod" BY <1>1 DEF Goto, Inv, TypeOK
<1>3. CASE fd[p] = "gone"
  <2>1. stale[p] BY <1>1, <1>3, Undisturbed DEF Knows
  <2>2. file' = file /\ stale' = stale BY <1>3 DEF Fill
  <2>3. TypeOK' BY <1>1, <2>2 DEF Inv, TypeOK, Goto, config, Steps
  <2>4. Sound(p)' BY <2>1, <2>2 DEF Sound
  <2>5. ASSUME NEW q \in Procs, q # p PROVE Sound(q)'
    <3>1. pc'[q] = pc[q] /\ fd'[q] = fd[q] BY <1>1, <2>5 DEF Goto, Inv, TypeOK
    <3>. QED BY <1>1, <2>2, <3>1, OthersSound DEF config
  <2>. QED BY <2>3, <2>4, <2>5 DEF Inv
<1>4. CASE fd[p] # "gone"
  <2>1. fd[p] \in Places BY <1>4 DEF Inv, TypeOK
  <2>2. Put(p, fd[p], Written(p, "remagraph")) BY <1>4 DEF Fill
  <2>3. Written(p, "remagraph") \in File BY <2>1, WrittenTyped DEF Writers
  <2>4. /\ file'[dir[p]] = [file[dir[p]] EXCEPT ![fd[p]] = Written(p, "remagraph")]
        /\ stale'[p] = stale[p] /\ file[dir[p]] \in [Places -> File]
    BY <2>1, <2>2, <2>3, PutTyped DEF Inv, TypeOK, Folder
  <2>5. Sound(p)'
    <3> SUFFICES ASSUME ~stale[p] PROVE Aimed(p)' /\ Knows(p)' BY <2>4 DEF Sound
    <3>1. Aimed(p)' BY <1>1, <1>2, Undisturbed DEF Aimed, Target, config
    <3>2. fd[p] = "target" BY <1>1, Undisturbed DEF Knows
    <3>3. file'[dir[p]]["target"] = Written(p, "remagraph") BY <2>1, <2>4, <3>2
    <3>4. Knows(p)' BY <1>1, <1>2, <3>3 DEF Knows, Written
    <3>. QED BY <3>1, <3>4
  <2>. QED BY <1>1, <2>1, <2>2, <2>3, <2>5, Written1 DEF Steps
<1>. QED BY <1>3, <1>4

LEMMA ChmodStep == ASSUME Inv, NEW p \in Procs, Chmod(p) PROVE Inv'
<1>. DEFINE place == Opened(file[dir[p]])
            f == [file[dir[p]][place] EXCEPT !.x = TRUE]
<1>1. pc[p] = "chmod" /\ UNCHANGED <<config, call, dir, fd, calls, changes>>
  BY DEF Chmod
<1>2. CASE file[dir[p]][place].by = "none"
  <2>1. Goto(p, "raised") /\ pc'[p] = "raised" /\ UNCHANGED <<file, stale>>
    BY <1>2 DEF Chmod, Goto, Inv, TypeOK
  <2>2. Sound(p)' BY <2>1 DEF Sound, Aimed, Knows
  <2>. QED BY <1>1, <2>1, <2>2, Decided DEF Steps
<1>3. CASE file[dir[p]][place].by # "none"
  <2>1. Goto(p, "done") /\ pc'[p] = "done" /\ Put(p, place, f)
    BY <1>3 DEF Chmod, Goto, Inv, TypeOK
  <2>2. place \in Places BY DEF Opened, Places
  <2>3. file[dir[p]][place] \in File BY <2>2 DEF Inv, TypeOK, Folder
  <2>4. f \in File /\ f.by = file[dir[p]][place].by /\ f.n = file[dir[p]][place].n /\ f.x
    BY <2>3 DEF File
  <2>. HIDE DEF f
  <2>5. /\ file'[dir[p]] = [file[dir[p]] EXCEPT ![place] = f] /\ stale'[p] = stale[p]
        /\ file[dir[p]] \in [Places -> File]
    BY <2>1, <2>2, <2>4, PutTyped DEF Inv, TypeOK, Folder
  <2>6. Sound(p)'
    <3> SUFFICES ASSUME ~stale[p] PROVE Aimed(p)' /\ Knows(p)' BY <2>5 DEF Sound
    <3>1. Aimed(p)' BY <1>1, <2>1, Undisturbed DEF Aimed, Target, config
    <3>2. file[dir[p]]["target"].by = "remagraph" /\ file[dir[p]]["target"].n = call[p].version
      BY <1>1, Undisturbed DEF Knows
    <3>3. place = "target" BY <3>2 DEF Opened
    <3>. HIDE DEF place
    <3>4. file'[dir[p]]["target"] = f BY <2>2, <2>5, <3>3
    <3>5. Knows(p)' BY <1>1, <2>1, <2>4, <3>2, <3>3, <3>4 DEF Knows
    <3>. QED BY <3>1, <3>5
  <2>7. fd' = [fd EXCEPT ![p] = fd[p]] /\ fd[p] \in Places \union {"gone"}
    BY <1>1 DEF Inv, TypeOK
  <2>. HIDE DEF place
  <2>. QED BY <1>1, <2>1, <2>2, <2>4, <2>6, <2>7, Written1 DEF Steps
<1>. QED BY <1>2, <1>3

LEMMA StopStep == ASSUME Inv, NEW p \in Procs, Stop(p) PROVE Inv'
<1>1. /\ Goto(p, "raised") /\ pc'[p] = "raised" /\ fd' = [fd EXCEPT ![p] = "gone"]
      /\ UNCHANGED <<config, call, dir, calls, changes>>
  BY DEF Stop, Goto, Inv, TypeOK
<1>2. Sound(p)' BY <1>1 DEF Sound, Aimed, Knows
<1>3. CASE UNCHANGED <<file, stale>>
  <2>1. TypeOK' BY <1>1, <1>3 DEF Inv, TypeOK, Goto, config, Steps
  <2>2. ASSUME NEW q \in Procs, q # p PROVE Sound(q)'
    <3>1. pc'[q] = pc[q] /\ fd'[q] = fd[q] BY <1>1, <2>2 DEF Goto, Inv, TypeOK
    <3>. QED BY <1>1, <1>3, <3>1, OthersSound DEF config
  <2>. QED BY <1>2, <2>1, <2>2 DEF Inv
<1>4. CASE fd[p] # "gone" /\ Put(p, fd[p], Written(p, "cut"))
  <2>1. fd[p] \in Places BY <1>4 DEF Inv, TypeOK
  <2>2. Written(p, "cut") \in File BY <2>1, WrittenTyped DEF Writers
  <2>. QED BY <1>1, <1>2, <1>4, <2>1, <2>2, Written1 DEF Steps
<1>. QED BY <1>3, <1>4 DEF Stop

LEMMA UserPutsStep ==
  ASSUME Inv, NEW d \in Dirs, NEW place \in Places, NEW folder \in Folder, UserPuts(d, place, folder)
  PROVE  Inv'
<1>1. changes' \in 0..MaxChanges
  BY BoundsAssumption DEF UserPuts, Inv, TypeOK
<1>2. file' \in [Dirs -> Folder] /\ \A e \in Dirs : e # d => file'[e] = file[e]
  BY DEF UserPuts, Inv, TypeOK
<1>3. TypeOK'
  BY <1>1, <1>2 DEF UserPuts, Inv, TypeOK, config
<1>4. ASSUME NEW q \in Procs PROVE Sound(q)'
  <2>1. dir[q] \in Dirs BY DEF Inv, TypeOK
  <2>2. ~stale'[q] => ~stale[q] /\ dir[q] # d BY DEF UserPuts
  <2>3. ~stale'[q] => fd'[q] = fd[q] BY <2>2 DEF UserPuts
  <2>. QED BY <1>2, <2>1, <2>2, <2>3, OthersSound DEF UserPuts, config
<1>. QED BY <1>3, <1>4 DEF Inv

LEMMA UserChangeStep == ASSUME Inv, NEW d \in Dirs, UserChange(d) PROVE Inv'
<1>1. changes + 1 \in Nat BY BoundsAssumption DEF Inv, TypeOK
<1>2. UserHook(changes + 1) \in File BY <1>1, FilesAreFiles
<1>3. file[d] \in [Places -> File] /\ {"target", "backup"} \subseteq Places
  BY DEF Inv, TypeOK, Folder, Places
<1>4. /\ [file[d] EXCEPT !.target = UserHook(changes + 1)] \in Folder
      /\ [file[d] EXCEPT !.target = None] \in Folder
      /\ [file[d] EXCEPT !.backup = None] \in Folder
      /\ [file[d] EXCEPT !.target = Link, !.behind = UserHook(changes + 1)] \in Folder
  BY <1>2, <1>3, FilesAreFiles DEF Folder
<1>. QED BY <1>3, <1>4, UserPutsStep DEF UserChange

LEMMA UserConfigStep == ASSUME Inv, UserConfig PROVE Inv'
<1>1. changes' \in 0..MaxChanges
  BY BoundsAssumption DEF UserConfig, Inv, TypeOK
<1>2. hooksPath' \in {Unset, Missing, Custom} /\ templateDir' \in {Unset} \union Templates
  BY DEF UserConfig, Inv, TypeOK, Templates
<1>3. TypeOK' BY <1>1, <1>2 DEF UserConfig, Inv, TypeOK, proc
<1>4. ASSUME NEW q \in Procs PROVE Sound(q)'
  BY DEF UserConfig, Sound
<1>. QED BY <1>3, <1>4 DEF Inv

LEMMA Stutter == ASSUME Inv, UNCHANGED vars PROVE Inv'
<1>1. TypeOK' BY DEF Inv, TypeOK, vars, config, proc
<1>2. ASSUME NEW q \in Procs PROVE Sound(q)'
  BY OthersSound DEF vars, config, proc
<1>. QED BY <1>1, <1>2 DEF Inv

LEMMA NextStep == ASSUME Inv, [Next]_vars PROVE Inv'
<1>1. ASSUME NEW p \in Procs, Step(p) PROVE Inv'
  BY <1>1, CallStep, SetTemplateStep, LookStep, ReadStep, CheckBackupStep, ReplaceStep,
     OpenStep, FillStep, ChmodStep, StopStep DEF Step
<1>. QED BY <1>1, UserChangeStep, UserConfigStep, Stutter DEF Next

\* The inductive invariant, which says what an undisturbed invocation knows.
THEOREM Invariance == Spec => []Inv
  BY InitSound, NextStep, PTL DEF Spec

\* Type correctness, for any number of invocations and any contents.
THEOREM TypeCorrect == Spec => []TypeOK
<1>1. Inv => TypeOK BY DEF Inv
<1>. QED BY <1>1, Invariance, PTL

\* What an invocation reports as installed is what git runs.
THEOREM InstalledHookRuns == Spec => []InstalledIsUsed
<1>1. Inv => InstalledIsUsed
  <2> SUFFICES ASSUME Inv, NEW p \in Procs, pc[p] = "done", ~stale[p]
               PROVE  InUse(call[p].mode) = Hook(call[p].version)
    BY DEF InstalledIsUsed
  <2>. DEFINE f == file[dir[p]]["target"]
  <2>1. Aimed(p) /\ Knows(p) BY Undisturbed
  <2>2. InUse(call[p].mode) = f
    BY <2>1 DEF Aimed, Target, InUse
  <2>3. f.by = "remagraph" /\ f.n = call[p].version /\ f.x
    BY <2>1 DEF Knows
  <2>4. f \in File BY DEF Inv, TypeOK, Folder, Places
  <2>. HIDE DEF f
  <2>5. f = [by |-> "remagraph", n |-> call[p].version, x |-> TRUE]
    BY <2>3, <2>4 DEF File
  <2>. QED BY <2>2, <2>5 DEF Hook
<1>. QED BY <1>1, Invariance, PTL
-----------------------------------------------------------------------------
(***************************************************************************)
(* What an undisturbed invocation does to the files of its directory: it   *)
(* moves a foreign hook to a free backup, or writes its own file.          *)
(***************************************************************************)
Newer(f, p) == Managed(f) /\ f.n > call[p].version

Touches(p, d) ==
  /\ d = dir[p] /\ call' = call
  /\ ~Newer(file[d].target, p)
  /\ \/ /\ file[d].target.by # "user"
        /\ \A place \in Places : place # "target" => file'[d][place] = file[d][place]
     \/ /\ file[d].backup.by = "none"
        /\ file'[d]["backup"] = file[d]["target"]
        /\ file'[d]["behind"] = file[d]["behind"]

LEMMA OwnPut ==
  ASSUME Inv, NEW p \in Procs, NEW f \in File, NEW place \in Places, Put(p, place, f), place = "target",
         call' = call, file[dir[p]].target.by # "user", ~Newer(file[dir[p]].target, p),
         NEW d \in Dirs
  PROVE  file'[d] = file[d] \/ Touches(p, d)
<1>1. CASE d # dir[p] BY <1>1, PutTyped DEF Inv
<1>2. CASE d = dir[p]
  <2>1. file'[d] = [file[d] EXCEPT ![place] = f] /\ file[d] \in [Places -> File]
    BY <1>2, PutTyped DEF Inv, TypeOK, Folder
  <2>2. \A pl \in Places : pl # "target" => file'[d][pl] = file[d][pl] BY <2>1
  <2>. QED BY <1>2, <2>2 DEF Touches
<1>. QED BY <1>1, <1>2

LEMMA StepTouches ==
  ASSUME Inv, NEW p \in Procs, ~stale[p], Step(p), NEW d \in Dirs
  PROVE  file'[d] = file[d] \/ Touches(p, d)
<1>. DEFINE t == file[dir[p]].target
<1>1. Knows(p) BY Undisturbed
<1>2. ASSUME NEW c \in Calls, Call(p, c) PROVE file' = file BY <1>2 DEF Call
<1>3. CASE SetTemplate(p) BY <1>3 DEF SetTemplate
<1>4. CASE Look(p) BY <1>4 DEF Look
<1>5. CASE Read(p) BY <1>5 DEF Read
<1>6. CASE CheckBackup(p) BY <1>6 DEF CheckBackup
<1>7. CASE Replace(p)
  <2>1. ~Managed(t) /\ file[dir[p]].backup.by = "none" /\ call' = call
    BY <1>1, <1>7 DEF Replace, Knows
  <2>2. CASE t.by = "none" BY <1>7, <2>2 DEF Replace
  <2>3. CASE t.by # "none"
    <3>1. file' = [file EXCEPT ![dir[p]].backup = t, ![dir[p]].target = None]
      BY <1>7, <2>3 DEF Replace
    <3>2. file \in [Dirs -> [Places -> File]] BY DEF Inv, TypeOK, Folder
    <3>3. CASE d # dir[p] BY <3>1, <3>2, <3>3
    <3>4. CASE d = dir[p]
      <4>1. file'[d]["backup"] = file[d]["target"] /\ file'[d]["behind"] = file[d]["behind"]
        BY <3>1, <3>2, <3>4 DEF Places
      <4>. QED BY <2>1, <3>4, <4>1 DEF Touches, Newer
    <3>. QED BY <3>3, <3>4
  <2>. QED BY <2>2, <2>3
<1>8. CASE Open(p)
  <2>. DEFINE place == Opened(file[dir[p]])
              f == [by |-> "torn", n |-> 0, x |-> file[dir[p]][place].x]
  <2>1. /\ place = "target" /\ t.by # "user" /\ ~Newer(t, p) /\ call' = call
        /\ Put(p, place, f)
    BY <1>1, <1>8 DEF Open, Knows, Managed, Opened, Newer
  <2>2. place \in Places BY <2>1 DEF Places
  <2>3. f \in File
    <3>1. file[dir[p]][place] \in File BY <2>2 DEF Inv, TypeOK, Folder
    <3>. QED BY <3>1 DEF File, Writers
  <2>. HIDE DEF f, place
  <2>. QED BY <2>1, <2>2, <2>3, OwnPut
<1>9. CASE pc[p] = "fill" /\ (Fill(p) \/ Stop(p))
  <2>1. fd[p] = "target" /\ t.by = "torn" /\ call' = call /\ fd[p] \in Places
    BY <1>1, <1>9 DEF Fill, Stop, Knows, Places
  <2>2. file' = file \/ (\E by \in {"remagraph", "cut"} : Put(p, fd[p], Written(p, by)))
    BY <1>9 DEF Fill, Stop
  <2>3. ASSUME NEW by \in {"remagraph", "cut"}, Put(p, fd[p], Written(p, by))
        PROVE  file'[d] = file[d] \/ Touches(p, d)
    <3>1. Written(p, by) \in File BY <2>1, WrittenTyped DEF Writers
    <3>2. ~Newer(t, p) /\ t.by # "user" BY <2>1 DEF Newer, Managed
    <3>. QED BY <2>1, <2>3, <3>1, <3>2, OwnPut
  <2>. QED BY <2>2, <2>3
<1>10. CASE pc[p] # "fill" /\ Stop(p) BY <1>10 DEF Stop
<1>11. CASE Chmod(p)
  <2>. DEFINE place == Opened(file[dir[p]])
              f == [file[dir[p]][place] EXCEPT !.x = TRUE]
  <2>1. /\ t.by = "remagraph" /\ t.n = call[p].version /\ call' = call
        /\ file' = file \/ Put(p, place, f)
    BY <1>1, <1>11 DEF Chmod, Knows
  <2>2. place = "target" /\ place \in Places BY <2>1 DEF Opened, Places
  <2>3. f \in File
    <3>1. file[dir[p]][place] \in File BY <2>2 DEF Inv, TypeOK, Folder
    <3>. QED BY <3>1 DEF File
  <2>4. ~Newer(t, p) /\ t.by # "user"
    <3>1. call[p].version \in Nat BY VersionsAssumption DEF Inv, TypeOK, Calls
    <3>. QED BY <2>1, <3>1 DEF Newer
  <2>. HIDE DEF f, place
  <2>. QED BY <2>1, <2>2, <2>3, <2>4, OwnPut
<1>12. Fill(p) => pc[p] = "fill" BY DEF Fill
<1>. QED BY <1>2, <1>3, <1>4, <1>5, <1>6, <1>7, <1>8, <1>9, <1>10, <1>11, <1>12 DEF Step

\* The process whose pc changes is the one that takes the step.
LEMMA WhoSteps ==
  ASSUME Inv, [Next]_vars, NEW p \in Procs, pc'[p] # pc[p] PROVE Step(p)
<1>1. ASSUME NEW q \in Procs, q # p, Step(q) PROVE pc'[p] = pc[p]
  BY <1>1 DEF Step, Call, SetTemplate, Look, Read, CheckBackup, Replace, Open, Fill, Chmod, Stop,
              Goto, Inv, TypeOK
<1>2. ASSUME NEW d \in Dirs, UserChange(d) PROVE pc' = pc
  BY <1>2 DEF UserChange, UserPuts
<1>3. UserConfig => pc' = pc BY DEF UserConfig, proc
<1>4. UNCHANGED vars => pc' = pc BY DEF vars, proc
<1>. QED BY <1>1, <1>2, <1>3, <1>4 DEF Next

\* No invocation that is undisturbed loses a hook of the user, wherever it
\* stops.
THEOREM HooksAreKept == Spec => HooksKept
<1>1. ASSUME Inv, [Next]_vars, NEW p \in Procs, pc'[p] # pc[p], ~stale[p], NEW d \in Dirs
      PROVE  UserHooks(d) \subseteq UserHooks(d)'
  <2> SUFFICES ASSUME NEW place \in Places, file[d][place] \in [by : {"user"}, n : Nat, x : BOOLEAN]
               PROVE  \E pl \in Places : file'[d][pl] = file[d][place]
    BY DEF UserHooks
  <2>1. file'[d] = file[d] \/ Touches(p, d) BY <1>1, WhoSteps, StepTouches
  <2>2. file[d][place].by = "user" OBVIOUS
  <2>3. ASSUME Touches(p, d) PROVE \E pl \in Places : file'[d][pl] = file[d][place]
    BY <2>2, <2>3 DEF Touches, Places
  <2>. QED BY <2>1, <2>3
<1>2. Inv /\ [Next]_vars =>
        [\A p \in Procs : pc'[p] # pc[p] /\ ~stale[p] =>
           \A d \in Dirs : UserHooks(d) \subseteq UserHooks(d)']_vars
  BY <1>1
<1>. QED BY <1>2, Invariance, PTL DEF Spec, HooksKept

\* No undisturbed invocation takes back a newer hook of ours.
THEOREM NoDowngrade == Spec => NeverDowngraded
<1>1. ASSUME Inv, [Next]_vars, NEW p \in Procs, pc'[p] # pc[p], ~stale[p], NEW d \in Dirs,
             Managed(file[d].target), file[d].target.n > call'[p].version
      PROVE  file'[d].target = file[d].target
  <2>1. file'[d] = file[d] \/ Touches(p, d) BY <1>1, WhoSteps, StepTouches
  <2>2. ~Touches(p, d) BY <1>1 DEF Touches, Newer
  <2>. QED BY <2>1, <2>2
<1>2. Inv /\ [Next]_vars =>
        [\A p \in Procs : pc'[p] # pc[p] /\ ~stale[p] =>
           \A d \in Dirs :
             LET f == file[d].target IN
             Managed(f) /\ f.n > call'[p].version => file'[d].target = f]_vars
  BY <1>1
<1>. QED BY <1>2, Invariance, PTL DEF Spec, NeverDowngraded
=============================================================================
