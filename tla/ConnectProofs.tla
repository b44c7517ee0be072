---------------------------- MODULE ConnectProofs ----------------------------
(***************************************************************************)
(* What a process does before it has a database: it finds the directory    *)
(* that is its project's (ProjectBinding), and brings the database there   *)
(* up to date (SchemaUpgrade).                                             *)
(***************************************************************************)
EXTENDS ProjectBinding, SchemaUpgrade, FiniteSetTheorems, WellFoundedInduction,
        TLAPS

(***************************************************************************)
(* The directory is found.  For any processes, projects and directories:   *)
(* no memory and no registry entry gets to a directory that was another    *)
(* project's when the call began, although every file is read and written  *)
(* in a step of its own; and nothing of a restricted project gets into the *)
(* shared directory.                                                       *)
(***************************************************************************)

Call == [project : Names \union {None}, from : Names \union {None},
         dir : Dirs \union {None}, reason : Reasons, began : [Dirs -> Names]]

(***************************************************************************)
(* The inductive invariant.  A project.json names the project whose        *)
(* conventional directory it is in and never changes again, so that what   *)
(* agrees with a project now agreed with it when the call began.           *)
(***************************************************************************)
ClaimInv ==
  /\ \A d \in Dirs : meta[d] = Default \/ (meta[d] \in Projects /\ Conv[meta[d]] = d)
  /\ \A p \in Callers, d \in Dirs : call[p].began[d] \in {Default, meta[d]}

CallOK(p) ==
  /\ pc[p] = "serving" => server[p] # None
  /\ pc[p] \notin {"idle", "serving"} => call[p].project \in Names
  /\ pc[p] = "violation" => call[p].dir \in Dirs
  /\ pc[p] = "migrate_resolve" => call[p].project \in Projects /\ call[p].from \in Names
  /\ pc[p] \in {"migrate_register", "migrate"} =>
       /\ call[p].project \in Projects /\ call[p].from \in Names
       /\ call[p].dir \in Dirs \ {Shared}

\* What the safety valve has let through, until the memory is inserted.
ValveOK(p) ==
  pc[p] \in {"connect_register", "store_register", "insert"} =>
    /\ env[p] \in Dirs /\ call[p].dir = env[p]
    /\ call[p].began[env[p]] \in {call[p].project, Default}
    /\ call[p].project \in Restricted => env[p] # Shared

CallInv == \A p \in Callers : CallOK(p) /\ ValveOK(p)

BindingInv == BTypeOK /\ ClaimInv /\ CallInv /\ RestrictedElsewhere

-----------------------------------------------------------------------------
(***************************************************************************)
(* The checks.                                                             *)
(***************************************************************************)

\* What the valve agrees with.
LEMMA VerdictNone ==
  ASSUME NEW q, NEW e, Verdict(q, e) = "none"
  PROVE  e # None /\ MetadataAgrees(q, e) /\ ~ (q \in Restricted /\ e = Shared)
  BY Zenon DEF Verdict

LEMMA VerdictIsReason ==
  ASSUME NEW q, NEW e
  PROVE  Verdict(q, e) \in Reasons
  BY Zenon DEF Verdict, Reasons

\* What agrees with a project now agreed with it when the call began.
LEMMA AgreedBefore ==
  ASSUME BindingInv, NEW p \in Callers, NEW q, NEW d \in Dirs, MetadataAgrees(q, d)
  PROVE  call[p].began[d] \in {q, Default}
  BY DEF BindingInv, ClaimInv, MetadataAgrees

\* Where a directory is looked for, and where memories are migrated to.
LEMMA DirectoriesAreDirs ==
  ASSUME BindingInv, NEW q \in Names, NEW e \in Dirs \union {None}
  PROVE  /\ StateDir(e, None) \in Dirs
         /\ \A d \in Dirs : StateDir(e, d) \in Dirs
         /\ ResolveProjectStateDir(q, e) \in Dirs
         /\ q \in Projects => MigrationTarget(q) \in Dirs \ {Shared}
         /\ MigrationSource(q, e) \in Dirs \union {None}
<1>1. meta[Shared] = Default
  BY BindingAssumption DEF BindingInv, ClaimInv
<1>2. StateDir(e, None) \in Dirs /\ \A d \in Dirs : StateDir(e, d) \in Dirs
  BY BindingAssumption DEF StateDir
<1>3. ResolveProjectStateDir(q, e) \in Dirs
  BY <1>1, BindingAssumption DEF ResolveProjectStateDir, Names
<1>4. q \in Projects => MigrationTarget(q) \in Dirs \ {Shared}
  BY BindingAssumption DEF MigrationTarget, IsPoisoned, BindingInv, BTypeOK, Names
<1>5. MigrationSource(q, e) \in Dirs \union {None}
  BY <1>2 DEF MigrationSource, BindingInv, BTypeOK
<1>6. QED
  BY <1>2, <1>3, <1>4, <1>5

\* The locals of a call that begins.
LEMMA CallBegins ==
  ASSUME BindingInv, NEW q \in Names \union {None}
  PROVE  /\ CallOf(q) \in Call /\ CallOf(q).project = q /\ CallOf(q).began = meta
         /\ NoCall \in Call /\ NoCall.began = [d \in Dirs |-> Default]
<1>1. NoCall \in Call /\ NoCall.began = [d \in Dirs |-> Default]
  BY DEF NoCall, Call, Reasons, Names
<1>2. CallOf(q) \in Call /\ CallOf(q).project = q /\ CallOf(q).began = meta
  BY <1>1 DEF CallOf, Call, BindingInv, BTypeOK
<1>3. QED
  BY <1>1, <1>2

-----------------------------------------------------------------------------
(***************************************************************************)
(* The invariant holds initially, and every step preserves it.             *)
(***************************************************************************)

LEMMA InitBinding == BInit => BindingInv
<1> SUFFICES ASSUME BInit
             PROVE  BindingInv
  OBVIOUS
<1> USE DEF BInit
<1>1. NoCall \in Call /\ NoCall.began = [d \in Dirs |-> Default]
  BY DEF NoCall, Call, Reasons, Names
<1>2. \A p \in Callers : call[p] = NoCall /\ pc[p] = "idle"
  OBVIOUS
<1>3. BTypeOK
  BY <1>1, BindingAssumption DEF BTypeOK, Names, Steps, Call
<1>4. ClaimInv /\ CallInv /\ RestrictedElsewhere
  BY <1>1, <1>2, BindingAssumption DEF ClaimInv, CallInv, CallOK, ValveOK, RestrictedElsewhere
<1>5. QED
  BY <1>3, <1>4 DEF BindingInv

\* `init` claims a directory nobody else can claim.
LEMMA CmdInitKeeps ==
  ASSUME BindingInv, NEW q \in Projects, CmdInit(q)
  PROVE  BindingInv'
<1> USE DEF CmdInit
<1>1. Conv[q] \in Dirs
  BY BindingAssumption
<1>2. /\ meta' = [meta EXCEPT ![Conv[q]] = q]
      /\ UNCHANGED <<registry, held, pc, env, server, call, migrations>>
  OBVIOUS
<1>3. BTypeOK'
  BY <1>1 DEF BindingInv, BTypeOK, Names
<1>4. ClaimInv'
  <2>1. \A d \in Dirs : meta'[d] = IF d = Conv[q] THEN q ELSE meta[d]
    BY <1>1, <1>2 DEF BindingInv, BTypeOK
  <2>2. meta[Conv[q]] \in {Default, q}
    BY <1>1, BindingAssumption DEF BindingInv, ClaimInv
  <2>3. \A d \in Dirs : meta'[d] = Default \/ (meta'[d] \in Projects /\ Conv[meta'[d]] = d)
    BY <2>1 DEF BindingInv, ClaimInv
  <2>4. \A p \in Callers, d \in Dirs : call'[p].began[d] \in {Default, meta'[d]}
    BY <1>2, <2>1, <2>2 DEF BindingInv, ClaimInv
  <2>5. QED
    BY <2>3, <2>4 DEF ClaimInv
<1>5. CallInv' /\ RestrictedElsewhere'
  BY <1>2 DEF BindingInv, CallInv, CallOK, ValveOK, RestrictedElsewhere
<1>6. QED
  BY <1>3, <1>4, <1>5 DEF BindingInv

\* What a process does with its own call leaves the others' alone.
LEMMA StepOf ==
  ASSUME BindingInv, NEW p \in Callers, UNCHANGED meta, BTypeOK', CallOK(p)', ValveOK(p)',
         RestrictedElsewhere',
         \A o \in Callers \ {p} : pc'[o] = pc[o] /\ env'[o] = env[o]
                                /\ server'[o] = server[o] /\ call'[o] = call[o],
         call'[p].began \in {call[p].began, meta, [d \in Dirs |-> Default]}
  PROVE  BindingInv'
<1>1. ClaimInv'
  BY DEF BindingInv, ClaimInv
<1>2. ASSUME NEW o \in Callers
      PROVE  CallOK(o)' /\ ValveOK(o)'
  BY DEF BindingInv, CallInv, CallOK, ValveOK
<1>3. QED
  BY <1>1, <1>2 DEF BindingInv, CallInv

\* The end of a call.
LEMMA DoneOf ==
  ASSUME BindingInv, NEW p \in Callers, Done(p), UNCHANGED server
  PROVE  /\ pc' \in [Callers -> Steps] /\ env' \in [Callers -> Dirs \union {None}]
         /\ call' \in [Callers -> Call]
         /\ CallOK(p)' /\ ValveOK(p)'
         /\ call'[p].began = [d \in Dirs |-> Default]
         /\ \A o \in Callers \ {p} : pc'[o] = pc[o] /\ env'[o] = env[o]
                                /\ server'[o] = server[o] /\ call'[o] = call[o]
<1>1. NoCall \in Call /\ NoCall.began = [d \in Dirs |-> Default]
  BY CallBegins
<1>2. /\ pc' = [pc EXCEPT ![p] = IF server[p] # None THEN "serving" ELSE "idle"]
      /\ env' = IF server[p] # None THEN env ELSE [env EXCEPT ![p] = None]
      /\ call' = [call EXCEPT ![p] = NoCall] /\ server' = server
  BY DEF Done, GoOn
<1>3. /\ pc \in [Callers -> Steps] /\ env \in [Callers -> Dirs \union {None}]
      /\ call \in [Callers -> Call]
  BY DEF BindingInv, BTypeOK, Call
<1>4. /\ pc' \in [Callers -> Steps] /\ env' \in [Callers -> Dirs \union {None}]
      /\ call' \in [Callers -> Call]
  BY <1>1, <1>2, <1>3 DEF Steps
<1>5. CallOK(p)' /\ ValveOK(p)'
  BY <1>2, <1>3 DEF CallOK, ValveOK
<1>6. QED
  BY <1>1, <1>2, <1>3, <1>4, <1>5

\* A call begins.
LEMMA CmdStoreKeeps ==
  ASSUME BindingInv, NEW p \in Callers, NEW q \in Names, NEW e \in Envs, CmdStore(p, q, e)
  PROVE  BindingInv'
<1> USE DEF CmdStore, GoOn
<1>1. /\ CallOf(q) \in Call /\ CallOf(q).project = q /\ CallOf(q).began = meta
      /\ e \in Dirs \union {None} /\ StateDir(e, None) \in Dirs
  BY CallBegins, DirectoriesAreDirs, BindingAssumption
<1>2. UNCHANGED <<meta, registry, held, server, migrations>>
  OBVIOUS
<1>3. exists' \subseteq Dirs
  BY <1>1 DEF BindingInv, BTypeOK
<1>4. /\ call \in [Callers -> Call] /\ pc \in [Callers -> Steps]
      /\ env \in [Callers -> Dirs \union {None}]
  BY DEF BindingInv, BTypeOK, Call
<1>5. CASE q # Default /\ ~MetadataAgrees(q, StateDir(e, None))
  <2> DEFINE c == [CallOf(q) EXCEPT !.dir = StateDir(e, None),
                                     !.reason = "project_metadata_mismatch"]
  <2>1. c \in Call /\ c.project = q /\ c.began = meta /\ c.dir = StateDir(e, None)
    BY <1>1 DEF Call, Reasons
  <2>2. call' = [call EXCEPT ![p] = c] /\ env' = [env EXCEPT ![p] = e]
        /\ pc' = [pc EXCEPT ![p] = "violation"]
    BY <1>5
  <2> HIDE DEF c
  <2>3. /\ call' \in [Callers -> Call] /\ env' \in [Callers -> Dirs \union {None}]
        /\ pc' \in [Callers -> Steps]
    BY <1>1, <1>4, <2>1, <2>2 DEF Steps
  <2>4. BTypeOK'
    BY <1>2, <1>3, <2>3 DEF BindingInv, BTypeOK, Call
  <2>5. CallOK(p)' /\ ValveOK(p)' /\ RestrictedElsewhere'
    BY <1>1, <1>2, <1>4, <2>1, <2>2 DEF BindingInv, CallOK, ValveOK, RestrictedElsewhere
  <2>6. QED
    BY <1>2, <1>4, <2>1, <2>2, <2>4, <2>5, StepOf
<1>6. CASE ~ (q # Default /\ ~MetadataAgrees(q, StateDir(e, None)))
  <2> DEFINE f == IF e = None /\ q # Default /\ Conv[q] \in exists THEN Conv[q] ELSE e
             s == IF q = Default THEN "connect" ELSE "connect_valve"
  <2>1. call' = [call EXCEPT ![p] = CallOf(q)] /\ env' = [env EXCEPT ![p] = f]
        /\ pc' = [pc EXCEPT ![p] = s]
    BY <1>6
  <2>2. f \in Dirs \union {None} /\ s \in {"connect", "connect_valve"}
    BY <1>1 DEF BindingInv, BTypeOK
  <2> HIDE DEF f, s
  <2>3. /\ call' \in [Callers -> Call] /\ env' \in [Callers -> Dirs \union {None}]
        /\ pc' \in [Callers -> Steps]
    BY <1>1, <1>4, <2>1, <2>2 DEF Steps
  <2>4. BTypeOK'
    BY <1>2, <1>3, <2>3 DEF BindingInv, BTypeOK, Call
  <2>5. CallOK(p)' /\ ValveOK(p)' /\ RestrictedElsewhere'
    BY <1>1, <1>2, <1>4, <2>1, <2>2 DEF BindingInv, CallOK, ValveOK, RestrictedElsewhere
  <2>6. QED
    BY <1>1, <1>2, <1>4, <2>1, <2>4, <2>5, StepOf
<1>7. QED
  BY <1>5, <1>6

LEMMA BeginKeeps ==
  ASSUME BindingInv, NEW p \in Callers, Begin(p)
  PROVE  BindingInv'
<1> USE DEF GoOn
<1>1. /\ call \in [Callers -> Call] /\ pc \in [Callers -> Steps]
      /\ env \in [Callers -> Dirs \union {None}] /\ server \in [Callers -> Names \union {None}]
  BY DEF BindingInv, BTypeOK, Call
<1>2. CASE \E q \in Names, e \in Envs : CmdStore(p, q, e)
  BY <1>2, CmdStoreKeeps
<1>3. CASE \E q \in Names, e \in Envs : BindProject(p, q, e)
  <2>1. PICK q \in Names, e \in Envs : BindProject(p, q, e)
    BY <1>3
  <2> USE DEF BindProject
  <2>2. /\ CallOf(q) \in Call /\ CallOf(q).project = q /\ CallOf(q).began = meta
        /\ e \in Dirs \union {None}
    BY CallBegins, BindingAssumption
  <2>3. BTypeOK'
    BY <1>1, <2>1, <2>2 DEF BindingInv, BTypeOK, Call, Steps
  <2>4. CallOK(p)' /\ ValveOK(p)' /\ RestrictedElsewhere'
    BY <1>1, <2>1, <2>2 DEF BindingInv, CallOK, ValveOK, RestrictedElsewhere
  <2>5. QED
    BY <1>1, <2>1, <2>2, <2>3, <2>4, StepOf
<1>4. CASE RemagraphStore(p)
  <2> USE <1>4 DEF RemagraphStore
  <2>1. server[p] \in Names
    BY <1>1 DEF BindingInv, CallInv, CallOK
  <2>2. /\ CallOf(server[p]) \in Call /\ CallOf(server[p]).project = server[p]
        /\ CallOf(server[p]).began = meta
    BY <2>1, CallBegins
  <2>3. BTypeOK'
    BY <1>1, <2>2 DEF BindingInv, BTypeOK, Call, Steps
  <2>4. CallOK(p)' /\ ValveOK(p)' /\ RestrictedElsewhere'
    BY <1>1, <2>1, <2>2 DEF BindingInv, CallOK, ValveOK, RestrictedElsewhere
  <2>5. QED
    BY <1>1, <2>2, <2>3, <2>4, StepOf
<1>5. CASE Stop(p)
  <2> USE <1>5 DEF Stop
  <2>1. BTypeOK'
    BY <1>1 DEF BindingInv, BTypeOK, Call, Steps
  <2>2. CallOK(p)' /\ ValveOK(p)' /\ RestrictedElsewhere'
    BY <1>1 DEF BindingInv, CallOK, ValveOK, RestrictedElsewhere
  <2>3. QED
    BY <1>1, <2>1, <2>2, StepOf
<1>6. CASE \E route \in Routes, e \in Envs : MigrateProject(p, route[1], route[2], e)
  <2>1. PICK route \in Routes, e \in Envs : MigrateProject(p, route[1], route[2], e)
    BY <1>6
  <2> USE DEF MigrateProject
  <2> DEFINE c == [CallOf(route[2]) EXCEPT !.from = route[1]]
  <2>2. /\ route[1] \in Names /\ route[2] \in Projects /\ route[2] \in Names
        /\ e \in Dirs \union {None}
    BY BindingAssumption DEF Names
  <2>3. /\ CallOf(route[2]) \in Call /\ CallOf(route[2]).project = route[2]
        /\ CallOf(route[2]).began = meta
    BY <2>2, CallBegins
  <2>4. c \in Call /\ c.project = route[2] /\ c.from = route[1] /\ c.began = meta
    BY <2>2, <2>3 DEF Call
  <2>5. call' = [call EXCEPT ![p] = c]
    BY <2>1
  <2> HIDE DEF c
  <2>6. migrations' \in 0..MaxMigrations
    BY <2>1, BindingAssumption DEF BindingInv, BTypeOK
  <2>7. BTypeOK'
    <3>1. call' \in [Callers -> Call] /\ env' \in [Callers -> Dirs \union {None}]
      BY <1>1, <2>1, <2>2, <2>4, <2>5
    <3>2. pc' \in [Callers -> Steps]
      BY <1>1, <2>1 DEF Steps
    <3>3. UNCHANGED <<meta, exists, registry, held, server>>
      BY <2>1
    <3> HIDE DEF MigrateProject
    <3>4. QED
      BY <2>6, <3>1, <3>2, <3>3 DEF BindingInv, BTypeOK, Call
  <2>8. CallOK(p)' /\ ValveOK(p)' /\ RestrictedElsewhere'
    BY <1>1, <2>1, <2>2, <2>4, <2>5 DEF BindingInv, CallOK, ValveOK, RestrictedElsewhere
  <2>9. QED
    BY <1>1, <2>1, <2>4, <2>5, <2>7, <2>8, StepOf
<1>7. QED
  BY <1>2, <1>3, <1>4, <1>5, <1>6 DEF Begin

\* The valve lets a call through: what project.json says now, or nothing, it
\* said when the call began.
LEMMA ValidateKeeps ==
  ASSUME BindingInv, NEW p \in Callers, Validate(p)
  PROVE  BindingInv'
<1> USE DEF Validate, GoOn
<1>1. /\ call \in [Callers -> Call] /\ pc \in [Callers -> Steps]
      /\ env \in [Callers -> Dirs \union {None}] /\ server \in [Callers -> Names \union {None}]
  BY DEF BindingInv, BTypeOK, Call
<1>2. env[p] \in Dirs /\ ~ (call[p].project \in Restricted /\ env[p] = Shared)
      /\ MetadataAgrees(call[p].project, env[p])
  BY <1>1, VerdictNone
<1>3. call[p].began[env[p]] \in {call[p].project, Default}
  BY <1>2, AgreedBefore
<1>4. call[p].project \in Names
  BY DEF BindingInv, CallInv, CallOK
<1> DEFINE c == [call[p] EXCEPT !.dir = env[p]]
<1>5. c \in Call /\ c.project = call[p].project /\ c.began = call[p].began /\ c.dir = env[p]
  BY <1>1, <1>2 DEF Call
<1>6. call' = [call EXCEPT ![p] = c]
  BY <1>1
<1> HIDE DEF c
<1>7. pc'[p] \in {"connect_register", "store_register"} /\ pc' \in [Callers -> Steps]
      /\ \A o \in Callers \ {p} : pc'[o] = pc[o]
  BY <1>1 DEF Steps
<1>8. BTypeOK'
  BY <1>1, <1>2, <1>5, <1>6, <1>7 DEF BindingInv, BTypeOK, Call
<1>9. CallOK(p)' /\ ValveOK(p)' /\ RestrictedElsewhere'
  BY <1>1, <1>2, <1>3, <1>4, <1>5, <1>6, <1>7 DEF BindingInv, CallOK, ValveOK, RestrictedElsewhere
<1>10. QED
  BY <1>1, <1>5, <1>6, <1>7, <1>8, <1>9, StepOf

LEMMA RefuseKeeps ==
  ASSUME BindingInv, NEW p \in Callers, Refuse(p)
  PROVE  BindingInv'
<1> USE DEF Refuse, GoOn
<1>1. /\ call \in [Callers -> Call] /\ pc \in [Callers -> Steps]
      /\ env \in [Callers -> Dirs \union {None}] /\ server \in [Callers -> Names \union {None}]
  BY DEF BindingInv, BTypeOK, Call
<1>2. call[p].project \in Names
  BY DEF BindingInv, CallInv, CallOK
<1> DEFINE dir == ResolveProjectStateDir(call[p].project, env[p])
           c == [call[p] EXCEPT !.dir = dir, !.reason = Verdict(call[p].project, env[p])]
<1>3. dir \in Dirs
  BY <1>1, <1>2, DirectoriesAreDirs
<1>4. /\ call' = [call EXCEPT ![p] = c] /\ exists' = exists \union {dir}
      /\ pc' = [pc EXCEPT ![p] = "violation"]
  BY <1>1
<1>5. Verdict(call[p].project, env[p]) \in Reasons
  BY VerdictIsReason
<1> HIDE DEF dir
<1>6. c \in Call /\ c.project = call[p].project /\ c.began = call[p].began /\ c.dir = dir
  BY <1>1, <1>3, <1>5 DEF Call
<1> HIDE DEF c
<1>7. /\ server' \in [Callers -> Names \union {None}]
      /\ \A o \in Callers \ {p} : server'[o] = server[o]
  BY <1>1
<1>8. BTypeOK'
  <2>1. call' \in [Callers -> Call] /\ pc' \in [Callers -> Steps] /\ exists' \subseteq Dirs
    BY <1>1, <1>3, <1>4, <1>6 DEF BindingInv, BTypeOK, Steps
  <2>2. UNCHANGED <<meta, registry, held, env, migrations>>
    OBVIOUS
  <2> HIDE DEF Refuse
  <2>3. QED
    BY <1>7, <2>1, <2>2 DEF BindingInv, BTypeOK, Call
<1>9. CallOK(p)' /\ ValveOK(p)' /\ RestrictedElsewhere'
  BY <1>1, <1>2, <1>3, <1>4, <1>6 DEF BindingInv, CallOK, ValveOK, RestrictedElsewhere
<1>10. QED
  BY <1>1, <1>4, <1>6, <1>7, <1>8, <1>9, StepOf

LEMMA RegisterKeeps ==
  ASSUME BindingInv, NEW p \in Callers, RegisterKnownProject(p)
  PROVE  BindingInv'
<1> USE DEF RegisterKnownProject, GoOn
<1>1. /\ call \in [Callers -> Call] /\ pc \in [Callers -> Steps]
      /\ env \in [Callers -> Dirs \union {None}] /\ server \in [Callers -> Names \union {None}]
  BY DEF BindingInv, BTypeOK, Call
<1>2. /\ pc'[p] \in {"connect", "insert", "migrate"} /\ pc' \in [Callers -> Steps]
      /\ \A o \in Callers \ {p} : pc'[o] = pc[o]
      /\ pc'[p] = "insert" => pc[p] = "store_register"
      /\ pc'[p] = "migrate" => pc[p] = "migrate_register"
  BY <1>1 DEF Registered, Steps
<1>3. call[p].dir \in Dirs /\ call[p].project \in Names
  BY BindingAssumption DEF BindingInv, CallInv, CallOK, ValveOK
<1>4. registry' \in [Names -> Dirs \union {None}]
  BY <1>3 DEF BindingInv, BTypeOK
<1>5. BTypeOK'
  BY <1>1, <1>2, <1>4 DEF BindingInv, BTypeOK, Call
<1>6. CallOK(p)' /\ ValveOK(p)' /\ RestrictedElsewhere'
  BY <1>1, <1>2 DEF BindingInv, CallInv, CallOK, ValveOK, RestrictedElsewhere
<1>7. QED
  BY <1>1, <1>2, <1>5, <1>6, StepOf

LEMMA ConnectKeeps ==
  ASSUME BindingInv, NEW p \in Callers, Connect(p)
  PROVE  BindingInv'
<1> USE DEF Connect, GoOn
<1>1. /\ call \in [Callers -> Call] /\ pc \in [Callers -> Steps]
      /\ env \in [Callers -> Dirs \union {None}] /\ server \in [Callers -> Names \union {None}]
  BY DEF BindingInv, BTypeOK, Call
<1>2. StateDir(env[p], None) \in Dirs
  BY <1>1, BindingAssumption DEF StateDir
<1>3. NoCall \in Call /\ NoCall.began = [d \in Dirs |-> Default]
  BY CallBegins
<1>4. call' \in [Callers -> Call] /\ \A o \in Callers \ {p} : call'[o] = call[o]
  BY <1>1, <1>3
<1>5. call'[p].began \in {call[p].began, [d \in Dirs |-> Default]}
      /\ (server[p] = None => call'[p] = call[p])
  BY <1>1, <1>3
<1>6. BTypeOK'
  BY <1>1, <1>2, <1>4 DEF BindingInv, BTypeOK, Call, Steps
<1>7. CallOK(p)' /\ ValveOK(p)' /\ RestrictedElsewhere'
  BY <1>1, <1>5 DEF BindingInv, CallInv, CallOK, ValveOK, RestrictedElsewhere
<1>8. QED
  BY <1>1, <1>4, <1>5, <1>6, <1>7, StepOf

\* What ends a call; of these, the insertion, the record of a refusal and a
\* migration add a memory.
LEMMA EndKeeps ==
  ASSUME BindingInv, NEW p \in Callers, Done(p), UNCHANGED <<meta, registry, server, migrations>>,
         exists' \subseteq Dirs, held' \in [Dirs -> SUBSET Memory], RestrictedElsewhere'
  PROVE  BindingInv'
<1>1. /\ pc' \in [Callers -> Steps] /\ env' \in [Callers -> Dirs \union {None}]
      /\ call' \in [Callers -> Call] /\ CallOK(p)' /\ ValveOK(p)'
      /\ call'[p].began = [d \in Dirs |-> Default]
      /\ \A o \in Callers \ {p} : pc'[o] = pc[o] /\ env'[o] = env[o]
                             /\ server'[o] = server[o] /\ call'[o] = call[o]
  BY DoneOf
<1>2. BTypeOK'
  BY <1>1 DEF BindingInv, BTypeOK, Call
<1>3. QED
  BY <1>1, <1>2, StepOf

LEMMA InsertMemoryKeeps ==
  ASSUME BindingInv, NEW p \in Callers, InsertMemory(p)
  PROVE  BindingInv'
<1>1. /\ pc[p] = "insert" /\ Done(p) /\ UNCHANGED <<meta, exists, registry, server, migrations>>
      /\ held' = [held EXCEPT ![StateDir(env[p], None)] =
                    @ \union {[project |-> call[p].project, via |-> "store"]}]
  BY DEF InsertMemory
<1>2. /\ env[p] \in Dirs /\ call[p].project \in Names
      /\ call[p].project \in Restricted => env[p] # Shared
  BY <1>1 DEF BindingInv, CallInv, CallOK, ValveOK
<1>3. StateDir(env[p], None) = env[p]
  BY <1>2, BindingAssumption DEF StateDir
<1>4. held' \in [Dirs -> SUBSET Memory]
  BY <1>1, <1>2, <1>3 DEF BindingInv, BTypeOK, Memory
<1>5. RestrictedElsewhere'
  BY <1>1, <1>2, <1>3 DEF BindingInv, BTypeOK, RestrictedElsewhere
<1>6. exists' \subseteq Dirs
  BY <1>1 DEF BindingInv, BTypeOK
<1>7. QED
  BY <1>1, <1>4, <1>5, <1>6, EndKeeps

LEMMA RecordKeeps ==
  ASSUME BindingInv, NEW p \in Callers, RecordViolation(p)
  PROVE  BindingInv'
<1>1. /\ pc[p] = "violation" /\ Done(p) /\ UNCHANGED <<meta, exists, registry, server, migrations>>
      /\ \/ held' = [held EXCEPT ![call[p].dir] =
                       @ \union {[project |-> call[p].project, via |-> "violation"]}]
         \/ UNCHANGED held
  BY DEF RecordViolation
<1>2. call[p].dir \in Dirs /\ call[p].project \in Names
  BY <1>1 DEF BindingInv, CallInv, CallOK
<1>3. held' \in [Dirs -> SUBSET Memory]
  BY <1>1, <1>2 DEF BindingInv, BTypeOK, Memory
<1>4. RestrictedElsewhere'
  <2>1. \A m \in held'[Shared] : m \in held[Shared] \/ m.via = "violation"
    BY <1>1, <1>2, BindingAssumption DEF BindingInv, BTypeOK
  <2>2. QED
    BY <2>1 DEF BindingInv, RestrictedElsewhere
<1>5. exists' \subseteq Dirs
  BY <1>1 DEF BindingInv, BTypeOK
<1>6. QED
  BY <1>1, <1>3, <1>4, <1>5, EndKeeps

\* A migration looks for its target without the environment, and never finds
\* the shared directory.
LEMMA ResolveKeeps ==
  ASSUME BindingInv, NEW p \in Callers, ResolveMigrationTarget(p)
  PROVE  BindingInv'
<1> DEFINE to == call[p].project
           candidate == MigrationTarget(to)
           looked == StateDir(env[p], candidate)
<1>1. /\ call \in [Callers -> Call] /\ pc \in [Callers -> Steps]
      /\ env \in [Callers -> Dirs \union {None}] /\ server \in [Callers -> Names \union {None}]
  BY DEF BindingInv, BTypeOK, Call
<1>2. to \in Projects /\ to \in Names /\ call[p].from \in Names
  BY DEF BindingInv, CallInv, CallOK, Names, ResolveMigrationTarget
<1>3. candidate \in Dirs \ {Shared} /\ looked \in Dirs
  BY <1>1, <1>2, DirectoriesAreDirs
<1>4. /\ exists' = exists \union {looked}
      /\ \/ /\ call' = [call EXCEPT ![p].dir = candidate]
            /\ pc' = [pc EXCEPT ![p] = "migrate_register"]
         \/ /\ call' = [call EXCEPT ![p].dir = candidate, ![p].reason = "project_metadata_mismatch"]
            /\ pc' = [pc EXCEPT ![p] = "refused"]
      /\ UNCHANGED <<meta, registry, held, env, server, migrations>>
  BY Zenon DEF ResolveMigrationTarget, GoOn
<1> HIDE DEF candidate, looked, to
<1>5. /\ call' \in [Callers -> Call] /\ \A o \in Callers \ {p} : call'[o] = call[o]
      /\ call'[p].project = to /\ call'[p].from = call[p].from
      /\ call'[p].dir = candidate /\ call'[p].began = call[p].began
  <2> DEFINE c == [call[p] EXCEPT !.dir = candidate]
             r == [call[p] EXCEPT !.dir = candidate, !.reason = "project_metadata_mismatch"]
  <2>1. /\ c \in Call /\ c.project = to /\ c.from = call[p].from
        /\ c.dir = candidate /\ c.began = call[p].began
    BY <1>1, <1>3 DEF Call, to
  <2>2. /\ r \in Call /\ r.project = to /\ r.from = call[p].from
        /\ r.dir = candidate /\ r.began = call[p].began
    BY <1>1, <1>3 DEF Call, Reasons, to
  <2>3. call' = [call EXCEPT ![p] = c] \/ call' = [call EXCEPT ![p] = r]
    BY <1>1, <1>4
  <2> HIDE DEF c, r
  <2>4. QED
    BY <1>1, <2>1, <2>2, <2>3
<1>6. BTypeOK'
  <2>1. pc' \in [Callers -> Steps] /\ exists' \subseteq Dirs
    BY <1>1, <1>3, <1>4 DEF BindingInv, BTypeOK, Steps
  <2>2. QED
    BY <1>4, <1>5, <2>1 DEF BindingInv, BTypeOK, Call
<1>7. CallOK(p)' /\ ValveOK(p)' /\ RestrictedElsewhere'
  BY <1>1, <1>2, <1>3, <1>4, <1>5 DEF BindingInv, CallOK, ValveOK, RestrictedElsewhere
<1>8. QED
  BY <1>1, <1>4, <1>5, <1>6, <1>7, StepOf

LEMMA MigrateKeeps ==
  ASSUME BindingInv, NEW p \in Callers, Migrate(p)
  PROVE  BindingInv'
<1> DEFINE source == MigrationSource(call[p].from, env[p])
           target == call[p].dir
<1>1. /\ pc[p] = "migrate" /\ Done(p) /\ UNCHANGED <<meta, registry, server, migrations>>
      /\ source \notin {None, target} /\ exists' = exists \union {source, target}
      /\ \/ held' = [held EXCEPT ![target] =
                       @ \union {[project |-> call[p].project, via |-> "migration"]}]
         \/ UNCHANGED held
  BY DEF Migrate
<1>2. /\ call[p].project \in Projects /\ call[p].project \in Names /\ target \in Dirs \ {Shared}
      /\ call[p].from \in Names /\ env[p] \in Dirs \union {None}
  BY <1>1 DEF BindingInv, BTypeOK, CallInv, CallOK, Names
<1>3. source \in Dirs
  BY <1>1, <1>2, DirectoriesAreDirs
<1>4. exists' \subseteq Dirs /\ held' \in [Dirs -> SUBSET Memory]
  BY <1>1, <1>2, <1>3 DEF BindingInv, BTypeOK, Memory
<1>5. RestrictedElsewhere'
  <2>1. held'[Shared] = held[Shared]
    BY <1>1, <1>2, BindingAssumption DEF BindingInv, BTypeOK
  <2>2. QED
    BY <2>1 DEF BindingInv, RestrictedElsewhere
<1>6. QED
  BY <1>1, <1>4, <1>5, EndKeeps

LEMMA BindingSteps == BindingInv /\ [BNext]_bvars => BindingInv'
<1> SUFFICES ASSUME BindingInv, [BNext]_bvars
             PROVE  BindingInv'
  OBVIOUS
<1>1. CASE \E q \in Projects : CmdInit(q)
  BY <1>1, CmdInitKeeps
<1>2. CASE \E p \in Callers : Begin(p)
  BY <1>2, BeginKeeps
<1>3. CASE \E p \in Callers : Continue(p)
  <2>1. PICK p \in Callers : Continue(p)
    BY <1>3
  <2>2. CASE Validate(p) \/ Refuse(p) \/ RegisterKnownProject(p) \/ Connect(p)
    BY <2>2, ValidateKeeps, RefuseKeeps, RegisterKeeps, ConnectKeeps
  <2>3. CASE InsertMemory(p) \/ RecordViolation(p) \/ ResolveMigrationTarget(p) \/ Migrate(p)
    BY <2>3, InsertMemoryKeeps, RecordKeeps, ResolveKeeps, MigrateKeeps
  <2>4. CASE RefuseSource(p) \/ ReportRefusal(p)
    <3>1. Done(p) /\ UNCHANGED <<meta, exists, registry, held, server, migrations>>
      BY <2>4 DEF RefuseSource, ReportRefusal
    <3>2. exists' \subseteq Dirs /\ held' \in [Dirs -> SUBSET Memory] /\ RestrictedElsewhere'
      BY <3>1 DEF BindingInv, BTypeOK, RestrictedElsewhere
    <3>3. QED
      BY <3>1, <3>2, EndKeeps
  <2>5. QED
    BY <2>1, <2>2, <2>3, <2>4 DEF Continue
<1>4. CASE UNCHANGED bvars
  BY <1>4 DEF bvars, BindingInv, BTypeOK, ClaimInv, CallInv, CallOK, ValveOK, RestrictedElsewhere
<1>5. QED
  BY <1>1, <1>2, <1>3, <1>4 DEF BNext

-----------------------------------------------------------------------------
(***************************************************************************)
(* Theorems.                                                               *)
(***************************************************************************)

\* The invariant of commands, servers and migrations side by side.
THEOREM BindingInvariance == BSpec => []BindingInv
<1>1. QED
  BY InitBinding, BindingSteps, PTL DEF BSpec

\* Every variable of the binding keeps its type.
THEOREM BindingTypeCorrect == BSpec => []BTypeOK
<1>1. BindingInv => BTypeOK
  BY DEF BindingInv
<1>2. QED
  BY <1>1, BindingInvariance, PTL

\* The shared database gets no memory of a restricted project but the record of
\* a refusal, whatever the registry says of the project.
THEOREM RestrictedStayOut == BSpec => []RestrictedElsewhere
<1>1. BindingInv => RestrictedElsewhere
  BY DEF BindingInv
<1>2. QED
  BY <1>1, BindingInvariance, PTL

\* Whoever claims a directory while a call runs, the call writes into none that
\* was another project's when it began.
THEOREM ClaimsHold == BSpec => ClaimRespected
<1>1. ASSUME BindingInv, [BNext]_bvars
      PROVE  AddsUnclaimed
  <2>1. CASE \E p \in Callers : InsertMemory(p)
    <3>1. PICK p \in Callers : InsertMemory(p)
      BY <2>1
    <3>2. /\ pc[p] = "insert"
          /\ held' = [held EXCEPT ![StateDir(env[p], None)] =
                        @ \union {[project |-> call[p].project, via |-> "store"]}]
      BY <3>1 DEF InsertMemory
    <3>3. env[p] \in Dirs /\ call[p].began[env[p]] \in {call[p].project, Default}
      BY <1>1, <3>2 DEF BindingInv, CallInv, ValveOK
    <3>4. StateDir(env[p], None) = env[p]
      BY <3>3, BindingAssumption DEF StateDir
    <3>5. QED
      BY <1>1, <3>2, <3>3, <3>4 DEF AddsUnclaimed, Added, BindingInv, BTypeOK
  <2>2. CASE \E p \in Callers : RecordViolation(p)
    <3>1. PICK p \in Callers : RecordViolation(p)
      BY <2>2
    <3>2. CASE UNCHANGED held
      BY <3>2 DEF AddsUnclaimed, Added
    <3>3. CASE held' # held
      <4>1. /\ MetadataAgrees(call[p].project, call[p].dir) /\ pc[p] = "violation"
            /\ held' = [held EXCEPT ![call[p].dir] =
                          @ \union {[project |-> call[p].project, via |-> "violation"]}]
        BY <3>1, <3>3 DEF RecordViolation
      <4>2. call[p].dir \in Dirs
        BY <1>1, <4>1 DEF BindingInv, CallInv, CallOK
      <4>3. call[p].began[call[p].dir] \in {call[p].project, Default}
        BY <1>1, <4>1, <4>2, AgreedBefore
      <4>4. QED
        BY <1>1, <4>1, <4>2, <4>3 DEF AddsUnclaimed, Added, BindingInv, BTypeOK
    <3>4. QED
      BY <3>2, <3>3
  <2>3. CASE \E p \in Callers : Migrate(p)
    <3>1. PICK p \in Callers : Migrate(p)
      BY <2>3
    <3>2. call[p].dir \in Dirs
      BY <1>1, <3>1 DEF Migrate, BindingInv, CallInv, CallOK
    <3>3. \/ UNCHANGED held
          \/ held' = [held EXCEPT ![call[p].dir] =
                        @ \union {[project |-> call[p].project, via |-> "migration"]}]
      BY <3>1 DEF Migrate
    <3>4. QED
      BY <1>1, <3>2, <3>3 DEF AddsUnclaimed, Added, BindingInv, BTypeOK
  <2>4. CASE UNCHANGED held
    BY <2>4 DEF AddsUnclaimed, Added
  <2>5. QED
    BY <1>1, <2>1, <2>2, <2>3, <2>4
    DEF BNext, Begin, Continue, bvars, CmdInit, CmdStore, BindProject, RemagraphStore, Stop,
        MigrateProject, Validate, Refuse, RegisterKnownProject, Connect,
        ResolveMigrationTarget, RefuseSource, ReportRefusal
<1>2. BindingInv /\ [BNext]_bvars => [AddsUnclaimed]_bvars
  BY <1>1
<1>3. QED
  BY <1>2, BindingInvariance, PTL DEF BSpec, ClaimRespected

\* The registry names a directory for a project only when it was unclaimed or
\* the project's own, or a migration found it, and never the shared one for a
\* restricted project.
THEOREM RegistryHolds == BSpec => RegistryValidated
<1>1. ASSUME BindingInv, [BNext]_bvars
      PROVE  RegistersValidated
  <2>1. CASE \E p \in Callers : RegisterKnownProject(p)
    <3>1. PICK p \in Callers : RegisterKnownProject(p)
      BY <2>1
    <3>2. /\ pc[p] \in {"connect_register", "store_register", "migrate_register"}
          /\ registry' \in {registry, [registry EXCEPT ![call[p].project] = call[p].dir]}
      BY <3>1 DEF RegisterKnownProject
    <3>3. /\ pc[p] # "migrate_register" =>
               /\ call[p].began[call[p].dir] \in {call[p].project, Default}
               /\ call[p].project \in Restricted => call[p].dir # Shared
          /\ pc[p] = "migrate_register" => call[p].dir # Shared
      BY <1>1, <3>2 DEF BindingInv, CallInv, CallOK, ValveOK
    <3>4. \A q \in Names : registry'[q] # registry[q] =>
            q = call[p].project /\ registry'[q] = call[p].dir
      BY <1>1, <3>2 DEF BindingInv, BTypeOK
    <3>5. QED
      BY <3>2, <3>3, <3>4 DEF RegistersValidated
  <2>2. CASE UNCHANGED registry
    BY <2>2 DEF RegistersValidated
  <2>3. QED
    BY <1>1, <2>1, <2>2
    DEF BNext, Begin, Continue, bvars, CmdInit, CmdStore, BindProject, RemagraphStore, Stop,
        MigrateProject, Validate, Refuse, Connect, InsertMemory, RecordViolation,
        ResolveMigrationTarget, Migrate, RefuseSource, ReportRefusal
<1>2. BindingInv /\ [BNext]_bvars => [RegistersValidated]_bvars
  BY <1>1
<1>3. QED
  BY <1>2, BindingInvariance, PTL DEF BSpec, RegistryValidated

-----------------------------------------------------------------------------
(***************************************************************************)
(* The database is brought up to date.  For any number of processes and    *)
(* memories, whatever version the database starts from and whoever dies:   *)
(* no memory is lost, the version on disk promises nothing that the file   *)
(* lacks, who gets through finds the whole schema, the index is right      *)
(* unless one died, and a database that asks for a newer writer keeps its  *)
(* memories, its index, its columns and its _meta.                         *)
(***************************************************************************)

(***************************************************************************)
(* The inductive invariant.  What a process has still to do is known by    *)
(* the statements left, in any order, and by what may precede the three    *)
(* whose order matters.                                                    *)
(***************************************************************************)
Creates == {Create(o) : o \in Objects}
Stmts ==
  {Set(k, v) : k \in MetaKeys, v \in 1..Current}
    \union {AddProject, RebuildTable, RebuildIndex} \union Creates

\* Whatever precedes x in s is in A.
OnlyAfter(s, x, A) == \A i \in 1..Len(s) : s[i] = x => \A j \in 1..(i - 1) : s[j] \in A

Ordered(s) ==
  /\ OnlyAfter(s, AddProject, {SetVersion(2)})
  /\ OnlyAfter(s, RebuildTable, {SetVersion(2), AddProject, SetVersion(3)})
  /\ OnlyAfter(s, Create("memories"), Stmts \ {Create("indexes")})
  /\ \A k \in MetaKeys \ {"schema_version"}, v \in 1..Current :
       OnlyAfter(s, Set(k, v), Stmts \ {SetVersion(5)})

\* Version 6 is written after its table is created.
LabelsFirst(s) ==
  \A i \in 1..Len(s) : s[i] = SetVersion(Current) =>
    \E j \in 1..(i - 1) : s[j] = Create("memory_labels")

Left(p) == Range(todo[p])
Opening(p) == mode[p] \in {"opening", "opening_read_only"}
NoTable == "memories" \notin disk.objects

\* The file by itself.
DiskInv ==
  /\ NoTable => Version \notin 1..5 /\ disk.rows = {} /\ disk.fts = {}
  /\ Version \in {0, Current} => "memory_labels" \in disk.objects \/ disk.rows = {}
  /\ ~NoTable /\ Version = 0 => disk.project /\ disk.fleet
  /\ ~NoTable /\ Version >= 3 => disk.project
  /\ ~NoTable /\ Version >= 4 => disk.fleet
  /\ Version = 5 => \A k \in MetaKeys : disk.meta[k] # 0
  /\ ~disk.project => \A m \in disk.rows : m.project = "none"
  /\ IsFiniteSet(disk.rows)
  /\ \A m, o \in disk.rows : m.rowid = o.rowid /\ m.mem = o.mem => m = o

\* What a process will have done when it has got through.
PlanInv(p) ==
  /\ Ordered(todo[p])
  /\ Opening(p) /\ ~NoTable /\ ~disk.project => AddProject \in Left(p)
  /\ Opening(p) /\ ~NoTable /\ ~disk.fleet => RebuildTable \in Left(p)
  /\ Opening(p) => \A o \in Objects : o \in disk.objects \/ Create(o) \in Left(p)
  /\ NoTable => AddProject \notin Left(p) /\ RebuildTable \notin Left(p)
                /\ \A v \in 1..5 : SetVersion(v) \notin Left(p)
  /\ AddProject \in Left(p) \/ RebuildTable \in Left(p) => RebuildIndex \in Left(p)
  /\ \A w \in 5..Current : SetVersion(w) \in Left(p) =>
       \A k \in MetaKeys : disk.meta[k] # 0 \/ \E v \in 1..Current : Set(k, v) \in Left(p)
  /\ SetVersion(Current) \in Left(p) =>
       "memory_labels" \in disk.objects \/ disk.rows = {} \/ LabelsFirst(todo[p])
  /\ mode[p] = "ready" => disk.project /\ disk.fleet /\ disk.objects = Objects

\* In a newer database nothing is changed but what is missing created, and nobody
\* has opened it to write when it asks for a newer writer.
NewerInv ==
  /\ Version > Current =>
       /\ \A p \in Procs : Left(p) \subseteq Creates
       /\ Demands(disk.meta).writer > Current =>
            \A p \in Procs : mode[p] \notin {"opening", "ready"}
  /\ \A p \in Procs : mode[p] = "opening_read_only" => Version > Current

\* p will not fail: only to add project_id twice raises.
Sure(p) == AddProject \notin Left(p)

\* While nobody has died, somebody will still write a key or create a table that is
\* missing ...
SeedInv ==
  crashes = 0 /\ Version = Current =>
    /\ \A k \in MetaKeys : disk.meta[k] # 0
         \/ \E p \in Procs : Sure(p) /\ \E v \in 1..Current : Set(k, v) \in Left(p)
    /\ \A o \in Objects : o \in disk.objects
         \/ \E p \in Procs : Sure(p) /\ Create(o) \in Left(p)

\* ... and rebuild an index that is wrong, once there is a project_id.
IndexInv ==
  crashes = 0 /\ Version <= Current =>
    \/ disk.fts = Indexed(disk.rows)
    \/ ~disk.project
    \/ \E p \in Procs : Sure(p) /\ RebuildIndex \in Left(p)

IInv ==
  /\ TypeOK /\ todo \in [Procs -> Seq(Stmts)]
  /\ DiskInv /\ (\A p \in Procs : PlanInv(p)) /\ NewerInv /\ SeedInv /\ IndexInv

-----------------------------------------------------------------------------
(***************************************************************************)
(* Statements.                                                             *)
(***************************************************************************)

\* No statement is another.
LEMMA StatementsDiffer ==
  /\ \A k, v, l, w : Set(k, v) = Set(l, w) => k = l /\ v = w
  /\ \A k, v : Set(k, v) \notin {AddProject, RebuildTable, RebuildIndex}
  /\ \A k, v, o : Set(k, v) # Create(o)
  /\ \A o : Create(o) \notin {AddProject, RebuildTable, RebuildIndex}
  /\ \A o, q : Create(o) = Create(q) => o = q
  /\ AddProject # RebuildTable /\ AddProject # RebuildIndex /\ RebuildTable # RebuildIndex
<1>1. \A k, v : Set(k, v).op = "set" /\ Set(k, v).key = k /\ Set(k, v).value = v
  BY DEF Set
<1>2. \A o : Create(o).op = "create" /\ Create(o).object = o
  BY DEF Create
<1>3. AddProject.op = "add_project" /\ RebuildTable.op = "rebuild_table"
      /\ RebuildIndex.op = "rebuild_index"
  BY DEF AddProject, RebuildTable, RebuildIndex
<1>4. \A k, v, l, w : Set(k, v) = Set(l, w) => k = l /\ v = w
  BY <1>1
<1>5. \A k, v : Set(k, v) \notin {AddProject, RebuildTable, RebuildIndex}
  BY <1>1, <1>3
<1>6. \A k, v, o : Set(k, v) # Create(o)
  BY <1>1, <1>2
<1>7. \A o : Create(o) \notin {AddProject, RebuildTable, RebuildIndex}
  BY <1>2, <1>3
<1>8. \A o, q : Create(o) = Create(q) => o = q
  BY <1>2
<1>9. AddProject # RebuildTable /\ AddProject # RebuildIndex /\ RebuildTable # RebuildIndex
  BY <1>3
<1>10. QED
  BY <1>4, <1>5, <1>6, <1>7, <1>8, <1>9

\* What each of them does.
LEMMA EffectOfEach ==
  ASSUME NEW d
  PROVE  /\ Effect(d, AddProject) =
              [d EXCEPT !.project = TRUE, !.rows = {[m EXCEPT !.project = "default"] : m \in @}]
         /\ Effect(d, RebuildTable) = EffectOfRebuild(d)
         /\ \A o : Effect(d, Create(o)) = EffectOfCreate(d, o)
         /\ Effect(d, RebuildIndex) = [d EXCEPT !.fts = Indexed(d.rows)]
<1>1. Effect(d, AddProject) =
        [d EXCEPT !.project = TRUE, !.rows = {[m EXCEPT !.project = "default"] : m \in @}]
  BY DEF Effect, AddProject
<1>2. Effect(d, RebuildTable) = EffectOfRebuild(d)
  BY DEF Effect, RebuildTable
<1>3. ASSUME NEW o
      PROVE  Effect(d, Create(o)) = EffectOfCreate(d, o)
  BY DEF Effect, Create
<1>4. Effect(d, RebuildIndex) = [d EXCEPT !.fts = Indexed(d.rows)]
  BY DEF Effect, RebuildIndex
<1>5. QED
  BY <1>1, <1>2, <1>3, <1>4

\* Which of them may raise.
LEMMA RaisesWhen ==
  ASSUME NEW d, NEW s \in Stmts
  PROVE  Raises(d, s) <=> \/ s = AddProject /\ d.project
                          \/ s = RebuildTable /\ ~d.project
                          \/ s = Create("indexes") /\ ~d.project
<1>1. CASE \E k \in MetaKeys, v \in 1..Current : s = Set(k, v)
  <2>1. s.op = "set"
    BY <1>1 DEF Set
  <2>2. QED
    BY <1>1, <2>1, StatementsDiffer DEF Raises
<1>2. CASE s = AddProject
  <2>1. s.op = "add_project"
    BY <1>2 DEF AddProject
  <2>2. QED
    BY <1>2, <2>1, StatementsDiffer DEF Raises
<1>3. CASE s = RebuildTable
  <2>1. s.op = "rebuild_table"
    BY <1>3 DEF RebuildTable
  <2>2. QED
    BY <1>3, <2>1, StatementsDiffer DEF Raises
<1>4. CASE s = RebuildIndex
  <2>1. s.op = "rebuild_index"
    BY <1>4 DEF RebuildIndex
  <2>2. QED
    BY <1>4, <2>1, StatementsDiffer DEF Raises
<1>5. CASE \E o \in Objects : s = Create(o)
  <2>1. PICK o \in Objects : s = Create(o)
    BY <1>5
  <2>2. s.op = "create" /\ s.object = o
    BY <2>1 DEF Create
  <2>3. QED
    BY <2>1, <2>2, StatementsDiffer DEF Raises
<1>6. QED
  BY <1>1, <1>2, <1>3, <1>4, <1>5 DEF Stmts, Creates

-----------------------------------------------------------------------------
(***************************************************************************)
(* Sequences of statements.                                                *)
(***************************************************************************)

\* One step of a plan.
LEMMA HeadAndTail ==
  ASSUME NEW S, NEW s \in Seq(S), s # <<>>
  PROVE  /\ Head(s) \in S /\ Tail(s) \in Seq(S)
         /\ Head(s) \in Range(s) /\ Range(Tail(s)) \subseteq Range(s)
         /\ \A x \in Range(s) : x = Head(s) \/ x \in Range(Tail(s))
<1>1. Head(s) = s[1] /\ Len(s) \in Nat \ {0} /\ Tail(s) \in Seq(S)
  OBVIOUS
<1>2. Len(Tail(s)) = Len(s) - 1 /\ \A i \in 1..(Len(s) - 1) : Tail(s)[i] = s[i + 1]
  OBVIOUS
<1>3. ASSUME NEW x \in Range(s)
      PROVE  x = Head(s) \/ x \in Range(Tail(s))
  <2>1. PICK i \in 1..Len(s) : x = s[i]
    BY DEF Range
  <2>2. CASE i = 1
    BY <1>1, <2>1, <2>2
  <2>3. CASE i # 1
    <3>1. i - 1 \in 1..(Len(s) - 1) /\ x = Tail(s)[i - 1]
      BY <1>1, <1>2, <2>1, <2>3
    <3>2. PICK t \in Seq(S) : t = Tail(s)
      BY <1>1
    <3>3. i - 1 \in 1..Len(t) /\ x = t[i - 1]
      BY <1>2, <3>1, <3>2
    <3>4. x \in Range(t)
      BY <3>3 DEF Range
    <3>5. QED
      BY <3>2, <3>4
  <2>4. QED
    BY <2>2, <2>3
<1>4. Range(Tail(s)) \subseteq Range(s)
  <2>1. SUFFICES ASSUME NEW i \in 1..(Len(s) - 1) PROVE Tail(s)[i] \in Range(s)
    BY <1>1, <1>2 DEF Range
  <2>2. i + 1 \in 1..Len(s) /\ Tail(s)[i] = s[i + 1]
    BY <1>1, <1>2
  <2>3. QED
    BY <2>2 DEF Range
<1>5. Head(s) \in Range(s)
  BY <1>1 DEF Range
<1>6. QED
  BY <1>1, <1>3, <1>4, <1>5

\* What comes before the others is done before them.
LEMMA OnlyAfterHead ==
  ASSUME NEW S, NEW s \in Seq(S), s # <<>>, NEW x, NEW A, OnlyAfter(s, x, A)
  PROVE  /\ OnlyAfter(Tail(s), x, A)
         /\ x \in Range(Tail(s)) => Head(s) \in A
<1>1. Head(s) = s[1] /\ Len(s) \in Nat \ {0} /\ Tail(s) \in Seq(S)
  OBVIOUS
<1>2. Len(Tail(s)) = Len(s) - 1 /\ \A i \in 1..(Len(s) - 1) : Tail(s)[i] = s[i + 1]
  OBVIOUS
<1>3. ASSUME NEW i \in 1..Len(Tail(s)), Tail(s)[i] = x, NEW j \in 1..(i - 1)
      PROVE  Tail(s)[j] \in A
  <2>1. i + 1 \in 1..Len(s) /\ s[i + 1] = x /\ j + 1 \in 1..((i + 1) - 1)
    BY <1>1, <1>2, <1>3
  <2>2. s[j + 1] \in A
    BY <2>1 DEF OnlyAfter
  <2>3. QED
    BY <1>1, <1>2, <2>2
<1>4. ASSUME x \in Range(Tail(s))
      PROVE  Head(s) \in A
  <2>1. PICK i \in 1..(Len(s) - 1) : x = Tail(s)[i]
    BY <1>1, <1>2, <1>4 DEF Range
  <2>2. i + 1 \in 1..Len(s) /\ s[i + 1] = x /\ 1 \in 1..((i + 1) - 1)
    BY <1>1, <1>2, <2>1
  <2>3. s[1] \in A
    BY <2>2 DEF OnlyAfter
  <2>4. QED
    BY <1>1, <2>3
<1>5. QED
  BY <1>3, <1>4 DEF OnlyAfter

\* One plan after another.
LEMMA Joined ==
  ASSUME NEW S, NEW s \in Seq(S), NEW t \in Seq(S)
  PROVE  s \o t \in Seq(S) /\ Range(s \o t) = Range(s) \union Range(t)
<1>1. /\ s \o t \in Seq(S) /\ Len(s) \in Nat /\ Len(t) \in Nat
      /\ Len(s \o t) = Len(s) + Len(t)
      /\ \A i \in 1..(Len(s) + Len(t)) :
           (s \o t)[i] = IF i <= Len(s) THEN s[i] ELSE t[i - Len(s)]
  OBVIOUS
<1>2. ASSUME NEW x \in Range(s)
      PROVE  x \in Range(s \o t)
  <2>1. PICK i \in 1..Len(s) : x = s[i]
    BY DEF Range
  <2>2. i \in 1..Len(s \o t) /\ (s \o t)[i] = x
    BY <1>1, <2>1
  <2>3. QED
    BY <1>1, <2>2 DEF Range
<1>3. ASSUME NEW x \in Range(t)
      PROVE  x \in Range(s \o t)
  <2>1. PICK i \in 1..Len(t) : x = t[i]
    BY DEF Range
  <2>2. Len(s) + i \in 1..Len(s \o t) /\ (s \o t)[Len(s) + i] = x
    BY <1>1, <2>1
  <2>3. QED
    BY <1>1, <2>2 DEF Range
<1>4. ASSUME NEW x \in Range(s \o t)
      PROVE  x \in Range(s) \union Range(t)
  <2>1. PICK i \in 1..(Len(s) + Len(t)) : x = (s \o t)[i]
    BY <1>1 DEF Range
  <2>2. CASE i <= Len(s)
    <3>1. i \in 1..Len(s) /\ x = s[i]
      BY <1>1, <2>1, <2>2
    <3>2. QED
      BY <3>1 DEF Range
  <2>3. CASE ~(i <= Len(s))
    <3>1. i - Len(s) \in 1..Len(t) /\ x = t[i - Len(s)]
      BY <1>1, <2>1, <2>3
    <3>2. QED
      BY <3>1 DEF Range
  <2>4. QED
    BY <2>2, <2>3
<1>5. QED
  BY <1>1, <1>2, <1>3, <1>4

LEMMA JoinedInOrder ==
  ASSUME NEW S, NEW s \in Seq(S), NEW t \in Seq(S), NEW x, NEW A,
         OnlyAfter(s, x, A), OnlyAfter(t, x, A), Range(s) \subseteq A \/ x \notin Range(t)
  PROVE  OnlyAfter(s \o t, x, A)
<1>1. /\ Len(s) \in Nat /\ Len(t) \in Nat
      /\ Len(s \o t) = Len(s) + Len(t)
      /\ \A i \in 1..(Len(s) + Len(t)) :
           (s \o t)[i] = IF i <= Len(s) THEN s[i] ELSE t[i - Len(s)]
  OBVIOUS
<1> SUFFICES ASSUME NEW i \in 1..(Len(s) + Len(t)), (s \o t)[i] = x, NEW j \in 1..(i - 1)
             PROVE  (s \o t)[j] \in A
  BY <1>1 DEF OnlyAfter
<1>2. CASE i <= Len(s)
  <2>1. i \in 1..Len(s) /\ s[i] = x /\ (s \o t)[j] = s[j]
    BY <1>1, <1>2
  <2>2. QED
    BY <2>1 DEF OnlyAfter
<1>3. CASE ~(i <= Len(s))
  <2>1. i - Len(s) \in 1..Len(t) /\ t[i - Len(s)] = x
    BY <1>1, <1>3
  <2>2. x \in Range(t)
    BY <2>1 DEF Range
  <2>3. CASE j <= Len(s)
    <3>1. j \in 1..Len(s) /\ (s \o t)[j] = s[j]
      BY <1>1, <2>3
    <3>2. s[j] \in Range(s)
      BY <3>1 DEF Range
    <3>3. QED
      BY <2>2, <3>1, <3>2
  <2>4. CASE ~(j <= Len(s))
    <3>1. j - Len(s) \in 1..((i - Len(s)) - 1) /\ (s \o t)[j] = t[j - Len(s)]
      BY <1>1, <1>3, <2>4
    <3>2. QED
      BY <2>1, <3>1 DEF OnlyAfter
  <2>5. QED
    BY <2>3, <2>4
<1>4. QED
  BY <1>2, <1>3

LEMMA NoLabelsNeeded ==
  ASSUME NEW S, NEW s \in Seq(S), SetVersion(Current) \notin Range(s)
  PROVE  LabelsFirst(s)
  BY DEF LabelsFirst, Range

LEMMA LabelsFirstJoined ==
  ASSUME NEW S, NEW s \in Seq(S), NEW t \in Seq(S), LabelsFirst(s), LabelsFirst(t)
  PROVE  LabelsFirst(s \o t)
<1>1. /\ Len(s) \in Nat /\ Len(t) \in Nat
      /\ Len(s \o t) = Len(s) + Len(t)
      /\ \A i \in 1..(Len(s) + Len(t)) :
           (s \o t)[i] = IF i <= Len(s) THEN s[i] ELSE t[i - Len(s)]
  OBVIOUS
<1> SUFFICES ASSUME NEW i \in 1..(Len(s) + Len(t)), (s \o t)[i] = SetVersion(Current)
             PROVE  \E j \in 1..(i - 1) : (s \o t)[j] = Create("memory_labels")
  BY <1>1 DEF LabelsFirst
<1>2. CASE i <= Len(s)
  <2>1. i \in 1..Len(s) /\ s[i] = SetVersion(Current)
    BY <1>1, <1>2
  <2>2. PICK j \in 1..(i - 1) : s[j] = Create("memory_labels")
    BY <2>1 DEF LabelsFirst
  <2>3. (s \o t)[j] = s[j]
    BY <1>1, <1>2
  <2>4. QED
    BY <2>2, <2>3
<1>3. CASE ~(i <= Len(s))
  <2>1. i - Len(s) \in 1..Len(t) /\ t[i - Len(s)] = SetVersion(Current)
    BY <1>1, <1>3
  <2>2. PICK j \in 1..((i - Len(s)) - 1) : t[j] = Create("memory_labels")
    BY <2>1 DEF LabelsFirst
  <2>3. Len(s) + j \in 1..(i - 1) /\ (s \o t)[Len(s) + j] = t[j]
    BY <1>1, <1>3
  <2>4. QED
    BY <2>2, <2>3
<1>4. QED
  BY <1>2, <1>3

\* The statement that is created first is the next, or still to come.
LEMMA LabelsFirstHead ==
  ASSUME NEW S, NEW s \in Seq(S), s # <<>>, LabelsFirst(s)
  PROVE  /\ Head(s) # SetVersion(Current)
         /\ Head(s) = Create("memory_labels") \/ LabelsFirst(Tail(s))
<1>1. Head(s) = s[1] /\ Len(s) \in Nat \ {0} /\ Tail(s) \in Seq(S)
  OBVIOUS
<1>2. Len(Tail(s)) = Len(s) - 1 /\ \A i \in 1..(Len(s) - 1) : Tail(s)[i] = s[i + 1]
  OBVIOUS
<1>3. Head(s) # SetVersion(Current)
  <2>1. 1 \in 1..Len(s) /\ 1..(1 - 1) = {}
    BY <1>1
  <2>2. QED
    BY <1>1, <2>1 DEF LabelsFirst
<1>4. ASSUME Head(s) # Create("memory_labels"), NEW i \in 1..(Len(s) - 1),
             Tail(s)[i] = SetVersion(Current)
      PROVE  \E j \in 1..(i - 1) : Tail(s)[j] = Create("memory_labels")
  <2>1. i + 1 \in 1..Len(s) /\ s[i + 1] = SetVersion(Current)
    BY <1>1, <1>2, <1>4
  <2>2. PICK j \in 1..((i + 1) - 1) : s[j] = Create("memory_labels")
    BY <2>1 DEF LabelsFirst
  <2>3. j # 1
    BY <1>1, <1>4, <2>2
  <2>4. j - 1 \in 1..(i - 1) /\ j - 1 \in 1..(Len(s) - 1) /\ (j - 1) + 1 = j
    BY <1>1, <2>3
  <2>5. Tail(s)[j - 1] = s[j]
    BY <1>2, <2>4
  <2>6. QED
    BY <2>2, <2>4, <2>5
<1>5. QED
  BY <1>2, <1>3, <1>4 DEF LabelsFirst

-----------------------------------------------------------------------------
(***************************************************************************)
(* The plans that connect() makes.                                         *)
(***************************************************************************)

\* The statements of each part.
LEMMA PartsOfPlans ==
  /\ Seed \in Seq(Stmts)
  /\ Range(Seed) = {Set("min_reader_version", 1), Set("min_writer_version", 5),
                    Set("upgrade_hint", 1)}
  /\ InitSchema \in Seq(Stmts) /\ Range(InitSchema) = Creates
  /\ OnlyAfter(InitSchema, Create("memories"), {})
  /\ <<>> \in Seq(Stmts) /\ Range(<<>>) = {}
  /\ \A x \in Stmts : <<x>> \in Seq(Stmts) /\ Range(<<x>>) = {x}
  /\ \A x \in Stmts, y \in Stmts : <<x, y>> \in Seq(Stmts) /\ Range(<<x, y>>) = {x, y}
<1>1. \A k \in MetaKeys, v \in 1..Current : Set(k, v) \in Stmts
  BY DEF Stmts
<1>2. Seed \in Seq(Stmts)
  BY <1>1 DEF Seed, MetaKeys, Current
<1>3. Range(Seed) = {Set("min_reader_version", 1), Set("min_writer_version", 5),
                     Set("upgrade_hint", 1)}
  BY DEF Seed, Range
<1>4. InitSchema \in Seq(Stmts)
  BY DEF InitSchema, Stmts, Creates, Objects
<1>5. Range(InitSchema) = Creates
  <2>1. Creates = {Create("memories"), Create("memories_fts"), Create("triggers"),
                   Create("indexes"), Create("memory_labels")}
    BY DEF Creates, Objects
  <2>2. QED
    BY <2>1 DEF InitSchema, Range
<1>6. OnlyAfter(InitSchema, Create("memories"), {})
  <2>1. \A i \in 1..5 : InitSchema[i] = Create("memories") => i = 1
    BY StatementsDiffer DEF InitSchema
  <2>2. Len(InitSchema) = 5
    BY DEF InitSchema
  <2>3. QED
    BY <2>1, <2>2 DEF OnlyAfter
<1>7. <<>> \in Seq(Stmts) /\ Range(<<>>) = {}
  BY DEF Range
<1>8. \A x \in Stmts : <<x>> \in Seq(Stmts) /\ Range(<<x>>) = {x}
  BY DEF Range
<1>9. \A x \in Stmts, y \in Stmts : <<x, y>> \in Seq(Stmts) /\ Range(<<x, y>>) = {x, y}
  BY DEF Range
<1>10. QED
  BY <1>2, <1>3, <1>4, <1>5, <1>6, <1>7, <1>8, <1>9

LEMMA NotThere ==
  ASSUME NEW S, NEW s \in Seq(S), NEW x, x \notin Range(s), NEW A
  PROVE  OnlyAfter(s, x, A)
  BY DEF OnlyAfter, Range

LEMMA OnlyAfterLess ==
  ASSUME NEW s, NEW x, NEW A, NEW B, A \subseteq B, OnlyAfter(s, x, A)
  PROVE  OnlyAfter(s, x, B)
  BY DEF OnlyAfter

\* The five migrations.
StatementsOf(n) ==
  CASE n = 1 -> {SetVersion(2)}
    [] n = 2 -> {AddProject, SetVersion(3)}
    [] n = 3 -> {RebuildTable, SetVersion(4)}
    [] n = 4 -> {Set("min_reader_version", 1), Set("min_writer_version", 5),
                 Set("upgrade_hint", 1), SetVersion(5)}
    [] n = 5 -> {Create("memory_labels"), SetVersion(6)}

LEMMA StatementsAre ==
  /\ \A v \in 1..Current : SetVersion(v) \in Stmts
  /\ \A k \in MetaKeys, v \in 1..Current : Set(k, v) \in Stmts
  /\ AddProject \in Stmts /\ RebuildTable \in Stmts /\ RebuildIndex \in Stmts
  /\ \A o \in Objects : Create(o) \in Stmts /\ Create(o) \in Creates
  /\ Creates \subseteq Stmts
  BY DEF Stmts, Creates, SetVersion, MetaKeys

\* One of the five, executed or passed over.
LEMMA FromIs ==
  ASSUME NEW v \in Nat, NEW n \in 1..5
  PROVE  /\ From(v, n) \in Seq(Stmts)
         /\ Range(From(v, n)) = IF v <= n THEN StatementsOf(n) ELSE {}
<1>1. ASSUME NEW s, s = MigrationStep(n)
      PROVE  s \in Seq(Stmts) /\ Range(s) = StatementsOf(n)
  <2>1. CASE n = 1
    <3>1. MigrationStep(n) = << SetVersion(2) >> /\ StatementsOf(n) = {SetVersion(2)}
      BY <2>1 DEF MigrationStep, StatementsOf
    <3>2. QED
      BY <1>1, <3>1, StatementsAre, PartsOfPlans DEF Current
  <2>2. CASE n = 2
    <3>1. MigrationStep(n) = << AddProject, SetVersion(3) >> /\ StatementsOf(n) = {AddProject, SetVersion(3)}
      BY <2>2 DEF MigrationStep, StatementsOf
    <3>2. QED
      BY <1>1, <3>1, StatementsAre, PartsOfPlans DEF Current
  <2>3. CASE n = 3
    <3>1. MigrationStep(n) = << RebuildTable, SetVersion(4) >> /\ StatementsOf(n) = {RebuildTable, SetVersion(4)}
      BY <2>3 DEF MigrationStep, StatementsOf
    <3>2. QED
      BY <1>1, <3>1, StatementsAre, PartsOfPlans DEF Current
  <2>4. CASE n = 4
    <3>1. MigrationStep(n) = Append(Seed, SetVersion(5))
          /\ StatementsOf(n) = Range(Seed) \union {SetVersion(5)}
      BY <2>4, PartsOfPlans DEF MigrationStep, StatementsOf
    <3>2. SetVersion(5) \in Stmts
      BY StatementsAre DEF Current
    <3>3. Seed \in Seq(Stmts)
      BY PartsOfPlans
    <3>4. Append(Seed, SetVersion(5)) = Seed \o << SetVersion(5) >>
      BY <3>2, <3>3
    <3>5. << SetVersion(5) >> \in Seq(Stmts) /\ Range(<< SetVersion(5) >>) = {SetVersion(5)}
      BY <3>2, PartsOfPlans
    <3>6. PICK t : t = << SetVersion(5) >>
      OBVIOUS
    <3>7. Seed \o t \in Seq(Stmts) /\ Range(Seed \o t) = Range(Seed) \union Range(t)
      BY <3>3, <3>5, <3>6, Joined
    <3>8. QED
      BY <1>1, <3>1, <3>4, <3>5, <3>6, <3>7
  <2>5. CASE n = 5
    <3>1. MigrationStep(n) = << Create("memory_labels"), SetVersion(6) >>
          /\ StatementsOf(n) = {Create("memory_labels"), SetVersion(6)}
      BY <2>5 DEF MigrationStep, StatementsOf
    <3>2. QED
      BY <1>1, <3>1, StatementsAre, PartsOfPlans DEF Current, Objects
  <2>6. QED
    BY <2>1, <2>2, <2>3, <2>4, <2>5
<1>2. QED
  BY <1>1, PartsOfPlans DEF From

LEMMA Appended ==
  ASSUME NEW S, NEW s \in Seq(S), NEW e \in S
  PROVE  /\ Len(Append(s, e)) = Len(s) + 1 /\ Append(s, e)[Len(s) + 1] = e
         /\ \A j \in 1..Len(s) : Append(s, e)[j] = s[j]
  OBVIOUS

\* In each of the five the statements whose order matters come first.
LEMMA FromInOrder ==
  ASSUME NEW v \in Nat, NEW n \in 1..5
  PROVE  /\ OnlyAfter(From(v, n), AddProject, {SetVersion(2)})
         /\ OnlyAfter(From(v, n), RebuildTable, {SetVersion(2), AddProject, SetVersion(3)})
         /\ \A k \in MetaKeys \ {"schema_version"}, w \in 1..Current :
              OnlyAfter(From(v, n), Set(k, w), Stmts \ {SetVersion(5)})
<1> DEFINE s == From(v, n)
<1>1. s \in Seq(Stmts) /\ Range(s) = IF v <= n THEN StatementsOf(n) ELSE {}
  BY FromIs
<1>2. CASE ~(v <= n)
  <2>1. AddProject \notin Range(s) /\ RebuildTable \notin Range(s)
        /\ \A k, w : Set(k, w) \notin Range(s)
    BY <1>1, <1>2
  <2>2. QED
    BY <1>1, <2>1, NotThere
<1>3. CASE v <= n /\ n = 2
  <2>1. s = << AddProject, SetVersion(3) >>
    BY <1>3 DEF From, MigrationStep
  <2>2. RebuildTable \notin Range(s)
        /\ \A k \in MetaKeys \ {"schema_version"}, w \in 1..Current : Set(k, w) \notin Range(s)
    BY <1>1, <1>3, StatementsDiffer DEF StatementsOf, SetVersion
  <2>3. OnlyAfter(s, AddProject, {SetVersion(2)})
    <3>1. Len(s) = 2 /\ s[2] = SetVersion(3)
      BY <2>1
    <3>2. s[2] # AddProject
      BY <3>1, StatementsDiffer DEF SetVersion
    <3>3. QED
      BY <3>1, <3>2 DEF OnlyAfter
  <2>4. QED
    BY <1>1, <2>2, <2>3, NotThere
<1>4. CASE v <= n /\ n = 3
  <2>1. s = << RebuildTable, SetVersion(4) >>
    BY <1>4 DEF From, MigrationStep
  <2>2. AddProject \notin Range(s)
        /\ \A k \in MetaKeys \ {"schema_version"}, w \in 1..Current : Set(k, w) \notin Range(s)
    BY <1>1, <1>4, StatementsDiffer DEF StatementsOf, SetVersion
  <2>3. OnlyAfter(s, RebuildTable, {SetVersion(2), AddProject, SetVersion(3)})
    <3>1. Len(s) = 2 /\ s[2] = SetVersion(4)
      BY <2>1
    <3>2. s[2] # RebuildTable
      BY <3>1, StatementsDiffer DEF SetVersion
    <3>3. QED
      BY <3>1, <3>2 DEF OnlyAfter
  <2>4. QED
    BY <1>1, <2>2, <2>3, NotThere
<1>5. CASE v <= n /\ n = 4
  <2>1. s = Append(Seed, SetVersion(5))
    BY <1>5 DEF From, MigrationStep
  <2>2. AddProject \notin Range(s) /\ RebuildTable \notin Range(s)
    BY <1>1, <1>5, StatementsDiffer DEF StatementsOf, SetVersion
  <2>3. ASSUME NEW k \in MetaKeys \ {"schema_version"}, NEW w \in 1..Current
        PROVE  OnlyAfter(s, Set(k, w), Stmts \ {SetVersion(5)})
    <3>1. Seed \in Seq(Stmts) /\ Len(Seed) = 3 /\ SetVersion(5) \in Stmts
      BY PartsOfPlans, StatementsAre DEF Seed, Current
    <3>2. Len(s) = 4 /\ s[4] = SetVersion(5) /\ \A j \in 1..3 : s[j] = Seed[j]
      <4>1. PICK e \in Stmts, t \in Seq(Stmts) : e = SetVersion(5) /\ t = Seed /\ Len(t) = 3
        BY <3>1
      <4>2. Len(Append(t, e)) = 4 /\ Append(t, e)[4] = e /\ \A j \in 1..3 : Append(t, e)[j] = t[j]
        <5>1. Len(t) = 3
          BY <4>1
        <5>2. /\ Len(Append(t, e)) = Len(t) + 1 /\ Append(t, e)[Len(t) + 1] = e
              /\ \A j \in 1..Len(t) : Append(t, e)[j] = t[j]
          BY Appended
        <5>3. QED
          BY <5>1, <5>2
      <4>3. QED
        BY <2>1, <4>1, <4>2
    <3>3. s[4] # Set(k, w)
      BY <3>2, StatementsDiffer DEF SetVersion
    <3>4. ASSUME NEW j \in 1..3
          PROVE  s[j] \in Stmts \ {SetVersion(5)}
      <4>1. s[j] \in Range(Seed) /\ s[j] \in Stmts
        <5>1. Seed[j] \in Range(Seed) /\ Seed[j] \in Stmts
          BY <3>1 DEF Range
        <5>2. QED
          BY <3>2, <5>1
      <4>2. SetVersion(5) \notin Range(Seed)
        BY PartsOfPlans, StatementsDiffer DEF SetVersion
      <4>3. QED
        BY <4>1, <4>2
    <3>5. QED
      BY <3>2, <3>3, <3>4 DEF OnlyAfter
  <2>4. QED
    BY <1>1, <2>2, <2>3, NotThere
<1>6. CASE v <= n /\ n \in {1, 5}
  <2>1. AddProject \notin Range(s) /\ RebuildTable \notin Range(s)
        /\ \A k \in MetaKeys \ {"schema_version"}, w \in 1..Current : Set(k, w) \notin Range(s)
    BY <1>1, <1>6, StatementsDiffer DEF StatementsOf, SetVersion
  <2>2. QED
    BY <1>1, <2>1, NotThere
<1>7. QED
  BY <1>2, <1>3, <1>4, <1>5, <1>6

\* All of them together.
LEMMA ChainIs ==
  ASSUME NEW v \in 1..5, NEW c, c = Chain(v)
  PROVE  /\ c \in Seq(Stmts)
         /\ \A x : x \in Range(c) <=> \E n \in v..5 : x \in StatementsOf(n)
         /\ OnlyAfter(c, AddProject, {SetVersion(2)})
         /\ OnlyAfter(c, RebuildTable, {SetVersion(2), AddProject, SetVersion(3)})
         /\ \A k \in MetaKeys \ {"schema_version"}, w \in 1..Current :
              OnlyAfter(c, Set(k, w), Stmts \ {SetVersion(5)})
         /\ LabelsFirst(c)
<1> DEFINE A1 == {SetVersion(2)}
           A2 == {SetVersion(2), AddProject, SetVersion(3)}
           A3 == Stmts \ {SetVersion(5)}
           R(n) == IF v <= n THEN StatementsOf(n) ELSE {}
<1>1. PICK f1, f2, f3, f4, f5 :
        f1 = From(v, 1) /\ f2 = From(v, 2) /\ f3 = From(v, 3) /\ f4 = From(v, 4) /\ f5 = From(v, 5)
  OBVIOUS
<1>2. /\ f1 \in Seq(Stmts) /\ Range(f1) = R(1) /\ f2 \in Seq(Stmts) /\ Range(f2) = R(2)
      /\ f3 \in Seq(Stmts) /\ Range(f3) = R(3) /\ f4 \in Seq(Stmts) /\ Range(f4) = R(4)
      /\ f5 \in Seq(Stmts) /\ Range(f5) = R(5)
  <2>1. \A n \in 1..5 : From(v, n) \in Seq(Stmts) /\ Range(From(v, n)) = R(n)
    <3>1. v \in Nat
      OBVIOUS
    <3>2. QED
      BY <3>1, FromIs
  <2>2. 1 \in 1..5 /\ 2 \in 1..5 /\ 3 \in 1..5 /\ 4 \in 1..5 /\ 5 \in 1..5
    OBVIOUS
  <2> HIDE DEF R
  <2>3. QED
    BY <1>1, <2>1, <2>2
<1> HIDE DEF R
<1>3. PICK g2, g3, g4 : g2 = f1 \o f2 /\ g3 = g2 \o f3 /\ g4 = g3 \o f4
  OBVIOUS
<1>4. c = g4 \o f5
  BY <1>1, <1>3 DEF Chain
<1>5. g2 \in Seq(Stmts) /\ Range(g2) = R(1) \union R(2)
  BY <1>2, <1>3, Joined
<1>6. g3 \in Seq(Stmts) /\ Range(g3) = R(1) \union R(2) \union R(3)
  <2>1. g3 \in Seq(Stmts) /\ Range(g3) = Range(g2) \union Range(f3)
    BY <1>2, <1>3, <1>5, Joined
  <2>2. QED
    BY <1>2, <1>5, <2>1
<1>7. g4 \in Seq(Stmts) /\ Range(g4) = R(1) \union R(2) \union R(3) \union R(4)
  <2>1. g4 \in Seq(Stmts) /\ Range(g4) = Range(g3) \union Range(f4)
    <3>1. g3 \in Seq(Stmts) /\ f4 \in Seq(Stmts) /\ g4 = g3 \o f4
      BY <1>2, <1>3, <1>6
    <3>2. QED
      BY <3>1, Joined
  <2>2. QED
    BY <1>2, <1>6, <2>1
<1>8. c \in Seq(Stmts) /\ Range(c) = R(1) \union R(2) \union R(3) \union R(4) \union R(5)
  <2>1. c \in Seq(Stmts) /\ Range(c) = Range(g4) \union Range(f5)
    BY <1>2, <1>4, <1>7, Joined
  <2>2. QED
    BY <1>2, <1>7, <2>1
<1>9. ASSUME NEW x
      PROVE  x \in Range(c) <=> \E n \in v..5 : x \in StatementsOf(n)
  <2>1. x \in Range(c) <=> \E n \in 1..5 : x \in R(n)
    BY <1>8
  <2>2. QED
    BY <2>1 DEF R
<1>10. R(1) \subseteq A1 /\ R(1) \subseteq A2 /\ R(2) \subseteq A2
  BY DEF StatementsOf, R
<1>11. R(1) \subseteq A3 /\ R(2) \subseteq A3 /\ R(3) \subseteq A3
  <2>1. R(1) \subseteq Stmts /\ R(2) \subseteq Stmts /\ R(3) \subseteq Stmts
    BY StatementsAre DEF StatementsOf, Current, R
  <2>2. SetVersion(5) \notin R(1) /\ SetVersion(5) \notin R(2) /\ SetVersion(5) \notin R(3)
    BY StatementsDiffer DEF StatementsOf, SetVersion, R
  <2>3. QED
    BY <2>1, <2>2
<1>12. AddProject \notin R(3) /\ AddProject \notin R(4) /\ AddProject \notin R(5)
       /\ RebuildTable \notin R(4) /\ RebuildTable \notin R(5)
       /\ \A k \in MetaKeys \ {"schema_version"}, w \in 1..Current : Set(k, w) \notin R(5)
  BY StatementsDiffer DEF StatementsOf, SetVersion, R
<1>13. OnlyAfter(c, AddProject, A1)
  <2>1. /\ OnlyAfter(f1, AddProject, A1) /\ OnlyAfter(f2, AddProject, A1)
        /\ OnlyAfter(f3, AddProject, A1) /\ OnlyAfter(f4, AddProject, A1)
        /\ OnlyAfter(f5, AddProject, A1)
    BY <1>1, FromInOrder
  <2> HIDE DEF A1
  <2>2. OnlyAfter(g2, AddProject, A1)
    BY <1>2, <1>3, <1>10, <2>1, JoinedInOrder
  <2>3. OnlyAfter(g3, AddProject, A1)
    BY <1>2, <1>3, <1>5, <1>12, <2>1, <2>2, JoinedInOrder
  <2>4. OnlyAfter(g4, AddProject, A1)
    BY <1>2, <1>3, <1>6, <1>12, <2>1, <2>3, JoinedInOrder
  <2>5. QED
    BY <1>2, <1>4, <1>7, <1>12, <2>1, <2>4, JoinedInOrder
<1>14. OnlyAfter(c, RebuildTable, A2)
  <2>1. /\ OnlyAfter(f1, RebuildTable, A2) /\ OnlyAfter(f2, RebuildTable, A2)
        /\ OnlyAfter(f3, RebuildTable, A2) /\ OnlyAfter(f4, RebuildTable, A2)
        /\ OnlyAfter(f5, RebuildTable, A2)
    BY <1>1, FromInOrder
  <2> HIDE DEF A2
  <2>2. OnlyAfter(g2, RebuildTable, A2)
    BY <1>2, <1>3, <1>10, <2>1, JoinedInOrder
  <2>3. Range(g2) \subseteq A2
    BY <1>5, <1>10
  <2>4. OnlyAfter(g3, RebuildTable, A2)
    BY <1>2, <1>3, <1>5, <2>1, <2>2, <2>3, JoinedInOrder
  <2>5. OnlyAfter(g4, RebuildTable, A2)
    BY <1>2, <1>3, <1>6, <1>12, <2>1, <2>4, JoinedInOrder
  <2>6. QED
    BY <1>2, <1>4, <1>7, <1>12, <2>1, <2>5, JoinedInOrder
<1>15. ASSUME NEW k \in MetaKeys \ {"schema_version"}, NEW w \in 1..Current
       PROVE  OnlyAfter(c, Set(k, w), A3)
  <2>1. PICK x : x = Set(k, w)
    OBVIOUS
  <2>2. /\ OnlyAfter(f1, x, A3) /\ OnlyAfter(f2, x, A3) /\ OnlyAfter(f3, x, A3)
        /\ OnlyAfter(f4, x, A3) /\ OnlyAfter(f5, x, A3)
    BY <1>1, <2>1, FromInOrder
  <2>3. x \notin R(5)
    BY <1>12, <2>1
  <2> HIDE DEF A3
  <2>4. OnlyAfter(g2, x, A3)
    BY <1>2, <1>3, <1>11, <2>2, JoinedInOrder
  <2>5. OnlyAfter(g3, x, A3)
    <3>1. Range(g2) \subseteq A3
      BY <1>5, <1>11
    <3>2. QED
      BY <1>2, <1>3, <1>5, <2>2, <2>4, <3>1, JoinedInOrder
  <2>6. OnlyAfter(g4, x, A3)
    <3>1. Range(g3) \subseteq A3
      BY <1>6, <1>11
    <3>2. QED
      BY <1>2, <1>3, <1>6, <2>2, <2>5, <3>1, JoinedInOrder
  <2>7. OnlyAfter(c, x, A3)
    BY <1>2, <1>4, <1>7, <2>2, <2>3, <2>6, JoinedInOrder
  <2>8. QED
    BY <2>1, <2>7
<1>16. LabelsFirst(c)
  <2>1. SetVersion(Current) \notin R(1) \union R(2) \union R(3) \union R(4)
    BY StatementsDiffer DEF StatementsOf, SetVersion, R, Current
  <2>2. LabelsFirst(g4)
    BY <1>7, <2>1, NoLabelsNeeded
  <2>3. f5 = << Create("memory_labels"), SetVersion(6) >>
    BY <1>1 DEF From, MigrationStep
  <2>4. LabelsFirst(f5)
    <3>1. Len(f5) = 2 /\ f5[1] = Create("memory_labels") /\ f5[2] = SetVersion(6)
      BY <2>3
    <3>2. SUFFICES ASSUME NEW i \in 1..2, f5[i] = SetVersion(Current)
                   PROVE  \E j \in 1..(i - 1) : f5[j] = Create("memory_labels")
      BY <3>1 DEF LabelsFirst
    <3>3. f5[1] # SetVersion(Current)
      BY <3>1, StatementsDiffer DEF SetVersion
    <3>4. i = 2 /\ 1 \in 1..(2 - 1)
      BY <3>2, <3>3
    <3>5. QED
      BY <3>1, <3>4
  <2>5. QED
    BY <1>2, <1>4, <1>7, <2>2, <2>4, LabelsFirstJoined
<1>17. QED
  BY <1>8, <1>9, <1>13, <1>14, <1>15, <1>16

LEMMA AllInOrder ==
  ASSUME NEW S, NEW s \in Seq(S), NEW x, NEW A, Range(s) \subseteq A
  PROVE  OnlyAfter(s, x, A)
<1> SUFFICES ASSUME NEW i \in 1..Len(s), NEW j \in 1..(i - 1) PROVE s[j] \in A
  BY DEF OnlyAfter
<1>1. j \in 1..Len(s)
  OBVIOUS
<1>2. s[j] \in Range(s)
  BY <1>1 DEF Range
<1>3. QED
  BY <1>2

\* What _run_migrations executes, by the version it read.
LEMMA MigrationsAre ==
  ASSUME NEW keys \in [MetaKeys -> Nat], NEW v, v = keys["schema_version"],
         NEW r, r = RunMigrations(keys)
  PROVE  /\ r \in Seq(Stmts)
         /\ v = 0 => \A x : x \in Range(r) <=>
              x \in {SetVersion(6), Set("min_reader_version", 1), Set("min_writer_version", 5),
                     Set("upgrade_hint", 1)}
         /\ v \in 1..5 => \A x : x \in Range(r) <=> \E n \in v..5 : x \in StatementsOf(n)
         /\ v = 6 => Range(r) \subseteq {Set("min_writer_version", 5)}
         /\ v > 6 => Range(r) = {}
         /\ v \in 1..5 => LabelsFirst(r)
         /\ OnlyAfter(r, AddProject, {SetVersion(2)})
         /\ OnlyAfter(r, RebuildTable, {SetVersion(2), AddProject, SetVersion(3)})
         /\ \A k \in MetaKeys \ {"schema_version"}, w \in 1..Current :
              OnlyAfter(r, Set(k, w), Stmts \ {SetVersion(5)})
<1>1. v \in Nat
  BY DEF MetaKeys
<1>2. CASE v = 0
  <2>1. r = << SetVersion(6) >> \o Seed
    BY <1>2 DEF RunMigrations, Current
  <2>2. SetVersion(6) \in Stmts
    BY StatementsAre DEF Current
  <2>3. PICK q \in Seq(Stmts), t \in Seq(Stmts) :
          q = << SetVersion(6) >> /\ t = Seed /\ Range(q) = {SetVersion(6)}
          /\ Range(t) = {Set("min_reader_version", 1), Set("min_writer_version", 5),
                         Set("upgrade_hint", 1)}
    BY <2>2, PartsOfPlans
  <2>4. r \in Seq(Stmts) /\ Range(r) = Range(q) \union Range(t)
    <3>1. r = q \o t
      BY <2>1, <2>3
    <3>2. QED
      BY <3>1, Joined
  <2>5. \A x : x \in Range(r) <=>
          x \in {SetVersion(6), Set("min_reader_version", 1), Set("min_writer_version", 5),
                 Set("upgrade_hint", 1)}
    BY <2>3, <2>4
  <2>6. AddProject \notin Range(r) /\ RebuildTable \notin Range(r) /\ SetVersion(5) \notin Range(r)
    BY <2>5, StatementsDiffer DEF SetVersion
  <2>7. Range(r) \subseteq Stmts \ {SetVersion(5)}
    BY <2>4, <2>6 DEF Range
  <2>8. QED
    BY <1>2, <2>4, <2>5, <2>6, <2>7, NotThere, AllInOrder
<1>3. CASE v \in 1..5
  <2>1. r = Chain(v)
    BY <1>3 DEF RunMigrations, Current
  <2>2. ~(v = 0) /\ ~(v = 6) /\ ~(v > 6)
    BY <1>3
  <2>3. QED
    BY <1>3, <2>1, <2>2, ChainIs
<1>4. CASE v = 6
  <2>1. r = << Set("min_writer_version", 5) >> \/ r = <<>>
    BY <1>4 DEF RunMigrations, Current
  <2>2. Set("min_writer_version", 5) \in Stmts
    BY StatementsAre DEF Current, MetaKeys
  <2>3. r \in Seq(Stmts) /\ Range(r) \subseteq {Set("min_writer_version", 5)}
    BY <2>1, <2>2, PartsOfPlans
  <2>4. AddProject \notin Range(r) /\ RebuildTable \notin Range(r) /\ SetVersion(5) \notin Range(r)
    BY <2>3, StatementsDiffer DEF SetVersion
  <2>5. Range(r) \subseteq Stmts \ {SetVersion(5)}
    BY <2>3, <2>4 DEF Range
  <2>6. QED
    BY <1>4, <2>3, <2>4, <2>5, NotThere, AllInOrder
<1>5. CASE v > 6
  <2>1. r = <<>>
    BY <1>1, <1>5 DEF RunMigrations, Current
  <2>2. r \in Seq(Stmts) /\ Range(r) = {}
    BY <2>1, PartsOfPlans
  <2>3. ~(v = 0) /\ ~(v \in 1..5) /\ ~(v = 6)
    BY <1>1, <1>5
  <2>4. QED
    BY <2>2, <2>3, NotThere
<1>6. v = 0 \/ v \in 1..5 \/ v = 6 \/ v > 6
  BY <1>1
<1>7. QED
  BY <1>2, <1>3, <1>4, <1>5, <1>6

\* What connect() executes.
LEMMA StatementsIs ==
  ASSUME NEW keys \in [MetaKeys -> Nat], NEW v, v = keys["schema_version"],
         NEW r, r = RunMigrations(keys), NEW s, s = Statements(keys)
  PROVE  /\ s \in Seq(Stmts) /\ Ordered(s)
         /\ \A x : x \in Range(s) <=>
              x \in Range(r) \/ x \in Creates \/ (x = RebuildIndex /\ v \in 1..3)
         /\ v \in 1..5 => LabelsFirst(s)
<1>1. PICK x : x = IF NeedsRebuild(keys) THEN << RebuildIndex >> ELSE <<>>
  OBVIOUS
<1>2. /\ x \in Seq(Stmts)
      /\ Range(x) = IF v \in 1..3 THEN {RebuildIndex} ELSE {}
  BY <1>1, PartsOfPlans, StatementsAre DEF NeedsRebuild
<1>3. PICK q : q = r \o InitSchema
  OBVIOUS
<1>4. s = q \o x
  BY <1>1, <1>3 DEF Statements
<1>5. /\ r \in Seq(Stmts) /\ OnlyAfter(r, AddProject, {SetVersion(2)})
      /\ OnlyAfter(r, RebuildTable, {SetVersion(2), AddProject, SetVersion(3)})
      /\ \A k \in MetaKeys \ {"schema_version"}, w \in 1..Current :
           OnlyAfter(r, Set(k, w), Stmts \ {SetVersion(5)})
  BY MigrationsAre
<1>6. PICK t \in Seq(Stmts) : t = InitSchema /\ Range(t) = Creates
                              /\ OnlyAfter(t, Create("memories"), {})
  BY PartsOfPlans
<1>7. q \in Seq(Stmts) /\ Range(q) = Range(r) \union Creates
  BY <1>3, <1>5, <1>6, Joined
<1>8. s \in Seq(Stmts) /\ Range(s) = Range(q) \union Range(x)
  BY <1>2, <1>4, <1>7, Joined
<1>9. \A y : y \in Range(s) <=>
              y \in Range(r) \/ y \in Creates \/ (y = RebuildIndex /\ v \in 1..3)
  BY <1>2, <1>7, <1>8
<1>10. AddProject \notin Creates /\ RebuildTable \notin Creates
       /\ \A k, w : Set(k, w) \notin Creates
  BY StatementsDiffer DEF Creates
<1>11. AddProject \notin Range(x) /\ RebuildTable \notin Range(x)
       /\ (\A k, w : Set(k, w) \notin Range(x)) /\ (\A o : Create(o) \notin Range(x))
  BY <1>2, StatementsDiffer
<1>12. ASSUME NEW y, NEW A, OnlyAfter(r, y, A), y \notin Creates, y \notin Range(x)
       PROVE  OnlyAfter(s, y, A)
  <2>1. OnlyAfter(t, y, A) /\ OnlyAfter(x, y, A) /\ y \notin Range(t)
    BY <1>2, <1>6, <1>12, NotThere
  <2>2. OnlyAfter(q, y, A)
    BY <1>3, <1>5, <1>6, <1>12, <2>1, JoinedInOrder
  <2>3. QED
    BY <1>2, <1>4, <1>7, <1>12, <2>1, <2>2, JoinedInOrder
<1>13. Create("indexes") \notin Range(r) /\ Create("memories") \notin Range(r)
  <2>1. \A n \in 1..5 : Create("indexes") \notin StatementsOf(n)
                        /\ Create("memories") \notin StatementsOf(n)
    BY StatementsDiffer DEF StatementsOf, SetVersion
  <2>2. v \in Nat
    BY DEF MetaKeys
  <2>3. CASE v = 0
    <3>1. \A y : y \in Range(r) => \E k, w : y = Set(k, w)
      BY <2>3, MigrationsAre DEF SetVersion
    <3>2. QED
      BY <3>1, StatementsDiffer
  <2>4. CASE v \in 1..5
    <3>1. \A y : y \in Range(r) => \E n \in 1..5 : y \in StatementsOf(n)
      BY <2>4, MigrationsAre
    <3>2. QED
      BY <2>1, <3>1
  <2>5. CASE v = 6
    <3>1. Range(r) \subseteq {Set("min_writer_version", 5)}
      BY <2>5, MigrationsAre
    <3>2. QED
      BY <3>1, StatementsDiffer
  <2>6. CASE v > 6
    BY <2>2, <2>6, MigrationsAre
  <2>7. QED
    BY <2>2, <2>3, <2>4, <2>5, <2>6
<1>14. OnlyAfter(s, Create("memories"), Stmts \ {Create("indexes")})
  <2>1. PICK y, A : y = Create("memories") /\ A = Stmts \ {Create("indexes")}
    OBVIOUS
  <2>2. OnlyAfter(r, y, A) /\ OnlyAfter(x, y, A) /\ y \notin Range(x)
    BY <1>2, <1>5, <1>11, <1>13, <2>1, NotThere
  <2>3. OnlyAfter(t, y, A)
    BY <1>6, <2>1, OnlyAfterLess
  <2>4. Range(r) \subseteq A
    BY <1>5, <1>13, <2>1 DEF Range
  <2>5. OnlyAfter(q, y, A)
    BY <1>3, <1>5, <1>6, <2>2, <2>3, <2>4, JoinedInOrder
  <2>6. OnlyAfter(s, y, A)
    BY <1>2, <1>4, <1>7, <2>2, <2>5, JoinedInOrder
  <2>7. QED
    BY <2>1, <2>6
<1>15. OnlyAfter(s, AddProject, {SetVersion(2)})
  BY <1>5, <1>10, <1>11, <1>12
<1>16. OnlyAfter(s, RebuildTable, {SetVersion(2), AddProject, SetVersion(3)})
  BY <1>5, <1>10, <1>11, <1>12
<1>17. \A k \in MetaKeys \ {"schema_version"}, w \in 1..Current :
         OnlyAfter(s, Set(k, w), Stmts \ {SetVersion(5)})
  <2>1. SUFFICES ASSUME NEW k \in MetaKeys \ {"schema_version"}, NEW w \in 1..Current
                 PROVE  OnlyAfter(s, Set(k, w), Stmts \ {SetVersion(5)})
    OBVIOUS
  <2>2. PICK y : y = Set(k, w)
    OBVIOUS
  <2>3. OnlyAfter(r, y, Stmts \ {SetVersion(5)}) /\ y \notin Creates /\ y \notin Range(x)
    BY <1>5, <1>10, <1>11, <2>2
  <2>4. QED
    BY <1>12, <2>2, <2>3
<1>18. v \in 1..5 => LabelsFirst(s)
  <2>1. SUFFICES ASSUME v \in 1..5 PROVE LabelsFirst(s)
    OBVIOUS
  <2>2. LabelsFirst(r)
    BY <2>1, MigrationsAre
  <2>3. SetVersion(Current) \notin Range(t) /\ SetVersion(Current) \notin Range(x)
    BY <1>6, <1>10, <1>11 DEF SetVersion
  <2>4. LabelsFirst(t) /\ LabelsFirst(x)
    BY <1>2, <1>6, <2>3, NoLabelsNeeded
  <2>5. LabelsFirst(q)
    BY <1>3, <1>5, <1>6, <2>2, <2>4, LabelsFirstJoined
  <2>6. QED
    BY <1>2, <1>4, <1>7, <2>4, <2>5, LabelsFirstJoined
<1>19. QED
  BY <1>8, <1>9, <1>14, <1>15, <1>16, <1>17, <1>18 DEF Ordered

\* The statements of connect(), by the version it read.
LEMMA PlanFacts ==
  ASSUME NEW keys \in [MetaKeys -> Nat], NEW v, v = keys["schema_version"],
         NEW s, s = Statements(keys)
  PROVE  /\ v \in Nat /\ s \in Seq(Stmts) /\ Ordered(s) /\ Creates \subseteq Range(s)
         /\ AddProject \in Range(s) <=> v \in 1..2
         /\ RebuildTable \in Range(s) <=> v \in 1..3
         /\ RebuildIndex \in Range(s) <=> v \in 1..3
         /\ \A w \in 1..5 : SetVersion(w) \in Range(s) => v \in 1..5
         /\ v \notin 0..6 => Range(s) \subseteq Creates
         /\ \A w \in 5..6 : SetVersion(w) \in Range(s) => v \in 0..5
         /\ v \in 0..4 => \A k \in MetaKeys : \E w \in 1..Current : Set(k, w) \in Range(s)
         /\ v \in 1..5 => LabelsFirst(s)
<1>1. v \in Nat
  BY DEF MetaKeys
<1>2. PICK r : r = RunMigrations(keys)
  OBVIOUS
<1>3. /\ s \in Seq(Stmts) /\ Ordered(s)
      /\ \A x : x \in Range(s) <=>
           x \in Range(r) \/ x \in Creates \/ (x = RebuildIndex /\ v \in 1..3)
      /\ v \in 1..5 => LabelsFirst(s)
  BY <1>2, StatementsIs
<1>4. /\ v = 0 => \A x : x \in Range(r) <=>
           x \in {SetVersion(6), Set("min_reader_version", 1), Set("min_writer_version", 5),
                  Set("upgrade_hint", 1)}
      /\ v \in 1..5 => \A x : x \in Range(r) <=> \E n \in v..5 : x \in StatementsOf(n)
      /\ v = 6 => Range(r) \subseteq {Set("min_writer_version", 5)}
      /\ v > 6 => Range(r) = {}
  BY <1>2, MigrationsAre
<1>5. \A n \in 1..5 :
        /\ AddProject \in StatementsOf(n) <=> n = 2
        /\ RebuildTable \in StatementsOf(n) <=> n = 3
        /\ RebuildIndex \notin StatementsOf(n)
  BY StatementsDiffer DEF StatementsOf, SetVersion
<1>6. /\ AddProject \notin Creates /\ RebuildTable \notin Creates
      /\ RebuildIndex \notin Creates
      /\ AddProject # RebuildIndex /\ RebuildTable # RebuildIndex
      /\ \A w : SetVersion(w) \notin Creates /\ SetVersion(w) # RebuildIndex
                /\ SetVersion(w) \notin {AddProject, RebuildTable}
      /\ \A w, k : Set(k, w) \notin {AddProject, RebuildTable, RebuildIndex}
  BY StatementsDiffer DEF Creates, SetVersion
<1>7. /\ AddProject \in Range(r) <=> v \in 1..2
      /\ RebuildTable \in Range(r) <=> v \in 1..3
      /\ RebuildIndex \notin Range(r)
  <2>1. CASE v \in 1..5
    BY <1>4, <1>5, <2>1
  <2>2. CASE ~(v \in 1..5)
    <3>1. \A x \in Range(r) : \E k, w : x = Set(k, w)
      BY <1>1, <1>4, <2>2 DEF SetVersion
    <3>2. AddProject \notin Range(r) /\ RebuildTable \notin Range(r)
          /\ RebuildIndex \notin Range(r)
      BY <1>6, <3>1
    <3>3. QED
      BY <2>2, <3>2
  <2>3. QED
    BY <2>1, <2>2
<1>8. /\ AddProject \in Range(s) <=> v \in 1..2
      /\ RebuildTable \in Range(s) <=> v \in 1..3
      /\ RebuildIndex \in Range(s) <=> v \in 1..3
  BY <1>3, <1>6, <1>7
<1>9. \A w : SetVersion(w) \in Range(s) => SetVersion(w) \in Range(r)
  BY <1>3, <1>6
<1>10. \A w : SetVersion(w) \in Range(r) => v \in 0..5
  <2>1. \A w : SetVersion(w) # Set("min_writer_version", 5)
    BY StatementsDiffer DEF SetVersion
  <2>2. QED
    BY <1>1, <1>4, <2>1
<1>11. \A w \in 1..5 : SetVersion(w) \in Range(r) => v # 0
  <2>1. \A w \in 1..5 :
          SetVersion(w) \notin {SetVersion(6), Set("min_reader_version", 1),
                                Set("min_writer_version", 5), Set("upgrade_hint", 1)}
    BY StatementsDiffer DEF SetVersion
  <2>2. QED
    BY <1>4, <2>1
<1>12. \A w \in 1..5 : SetVersion(w) \in Range(s) => v \in 1..5
  BY <1>9, <1>10, <1>11
<1>13. v \notin 0..6 => Range(s) \subseteq Creates
  BY <1>1, <1>3, <1>4
<1>14. \A w \in 5..6 : SetVersion(w) \in Range(s) => v \in 0..5
  BY <1>9, <1>10
<1>15. v \in 0..4 => \A k \in MetaKeys : \E w \in 1..Current : Set(k, w) \in Range(s)
  <2>1. SUFFICES ASSUME v \in 0..4
                 PROVE  \A k \in MetaKeys : \E w \in 1..Current : Set(k, w) \in Range(r)
    BY <1>3
  <2>2. CASE v = 0
    BY <1>4, <2>2 DEF SetVersion, MetaKeys, Current
  <2>3. CASE v \in 1..4
    <3>1. \A x \in StatementsOf(4) : x \in Range(r)
      BY <1>4, <2>3
    <3>2. QED
      BY <3>1 DEF StatementsOf, SetVersion, MetaKeys, Current
  <2>4. QED
    BY <2>1, <2>2, <2>3
<1>16. QED
  BY <1>1, <1>3, <1>8, <1>12, <1>13, <1>14, <1>15

-----------------------------------------------------------------------------
(***************************************************************************)
(* Rows.                                                                   *)
(***************************************************************************)

\* What is assigned first is found.
LEMMA FiniteMax ==
  ASSUME NEW S \in SUBSET Int, IsFiniteSet(S), S # {}
  PROVE  Max(S) \in S /\ \A y \in S : Max(S) >= y
<1> DEFINE HasMax(T) == \E x \in T : \A y \in T : x >= y
           Bad == {T \in FiniteSubsetsOf(S) : T # {} /\ ~HasMax(T)}
<1>1. Bad = {}
  <2>1. SUFFICES ASSUME Bad # {} PROVE FALSE
    OBVIOUS
  <2>2. PICK T \in Bad : \A U \in Bad : <<U, T>> \notin StrictSubsetOrdering(S)
    <3> HIDE DEF Bad
    <3>1. Bad \subseteq FiniteSubsetsOf(S)
      BY DEF Bad
    <3>2. QED
      BY <2>1, <3>1, FS_StrictSubsetOrderingWellFounded, WFMin
  <2>3. PICK x \in T : TRUE
    BY <2>2
  <2>4. T \in SUBSET S /\ IsFiniteSet(T)
    BY <2>2 DEF FiniteSubsetsOf
  <2>5. T \ {x} \in FiniteSubsetsOf(S)
    BY <2>3, <2>4, FS_RemoveElement DEF FiniteSubsetsOf
  <2>6. T \ {x} \notin Bad
    BY <2>2, <2>3, <2>4, <2>5 DEF StrictSubsetOrdering
  <2>7. T \ {x} = {} \/ HasMax(T \ {x})
    BY <2>5, <2>6
  <2>8. HasMax(T)
    <3>1. CASE T \ {x} = {}
      BY <2>3, <2>4, <3>1
    <3>2. CASE HasMax(T \ {x})
      <4>1. PICK z \in T \ {x} : \A y \in T \ {x} : z >= y
        BY <3>2
      <4>2. x \in Int /\ z \in Int /\ T \subseteq Int
        BY <2>3, <2>4, <4>1
      <4>3. CASE z >= x
        BY <4>1, <4>2, <4>3
      <4>4. CASE ~(z >= x)
        <5>1. \A y \in T : x >= y
          BY <4>1, <4>2, <4>4
        <5>2. QED
          BY <2>3, <5>1
      <4>5. QED
        BY <4>3, <4>4
    <3>3. QED
      BY <2>7, <3>1, <3>2
  <2>9. QED
    BY <2>2, <2>8
<1>2. S \in FiniteSubsetsOf(S)
  BY DEF FiniteSubsetsOf
<1>3. HasMax(S)
  BY <1>1, <1>2
<1>4. QED
  BY <1>3 DEF Max


Row == [rowid : Nat, mem : Mems, project : ProjectIds]
Unique(rows) == \A m, o \in rows : m.rowid = o.rowid /\ m.mem = o.mem => m = o

LEMMA BijectionOf ==
  ASSUME NEW S, NEW T, NEW f \in [S -> T], \A a, b \in S : f[a] = f[b] => a = b,
         \A t \in T : \E a \in S : f[a] = t
  PROVE  f \in Bijection(S, T)
  BY DEF Bijection, Injection, Surjection, IsInjective

\* Rowids given out anew: nothing is lost or confused.
LEMMA RenumberedRows ==
  ASSUME NEW rows \in SUBSET Row, IsFiniteSet(rows), Unique(rows),
         NEW new, new = Renumbered(rows)
  PROVE  /\ new \in SUBSET Row /\ IsFiniteSet(new) /\ Unique(new)
         /\ \E f \in Bijection(rows, new) :
              \A m \in rows : f[m].mem = m.mem /\ f[m].project = m.project
<1> DEFINE Below(m) == {o \in rows : o.rowid <= m.rowid}
           Place(m) == [m EXCEPT !.rowid = Cardinality(Below(m))]
<1>1. new = {Place(m) : m \in rows}
  BY DEF Renumbered
<1>2. \A m \in rows : IsFiniteSet(Below(m)) /\ Cardinality(Below(m)) \in Nat
  <2>1. SUFFICES ASSUME NEW m \in rows PROVE IsFiniteSet(Below(m)) /\ Cardinality(Below(m)) \in Nat
    OBVIOUS
  <2>2. Below(m) \subseteq rows
    OBVIOUS
  <2>3. QED
    BY <2>2, FS_Subset, FS_CardinalityType
<1>3. ASSUME NEW m \in rows, NEW o \in rows, m.rowid < o.rowid
      PROVE  Cardinality(Below(m)) # Cardinality(Below(o))
  <2>1. m.rowid \in Nat /\ o.rowid \in Nat
    BY DEF Row
  <2>2. Below(m) \subseteq Below(o)
    <3>1. \A q \in rows : q.rowid \in Nat
      BY DEF Row
    <3>2. QED
      BY <1>3, <2>1, <3>1
  <2>3. o \in Below(o) /\ o \notin Below(m)
    BY <1>3, <2>1
  <2>4. Below(m) # Below(o)
    BY <2>3
  <2> HIDE DEF Below
  <2>5. QED
    BY <1>2, <2>2, <2>4, FS_Subset
<1>4. ASSUME NEW m \in rows
      PROVE  /\ Place(m) \in Row /\ Place(m).mem = m.mem /\ Place(m).project = m.project
             /\ Place(m).rowid = Cardinality(Below(m))
  <2>1. Cardinality(Below(m)) \in Nat
    BY <1>2
  <2> HIDE DEF Below
  <2>2. QED
    BY <2>1 DEF Row
<1> HIDE DEF Below, Place
<1>5. new \in SUBSET Row
  BY <1>1, <1>4
<1>6. IsFiniteSet(new)
  <2>1. [m \in rows |-> Place(m)] \in Surjection(rows, new)
    BY <1>1 DEF Surjection
  <2>2. QED
    BY <2>1, FS_Surjection
<1>7. ASSUME NEW m \in rows, NEW o \in rows,
             Place(m).rowid = Place(o).rowid, Place(m).mem = Place(o).mem
      PROVE  m = o
  <2>1. m.mem = o.mem /\ Cardinality(Below(m)) = Cardinality(Below(o))
    BY <1>4, <1>7
  <2>2. m.rowid \in Nat /\ o.rowid \in Nat
    BY DEF Row
  <2>3. m.rowid = o.rowid
    BY <1>3, <2>1, <2>2
  <2>4. QED
    BY <2>1, <2>3 DEF Unique
<1>8. Unique(new)
  BY <1>1, <1>7 DEF Unique
<1>9. \E f \in Bijection(rows, new) :
        \A m \in rows : f[m].mem = m.mem /\ f[m].project = m.project
  <2>1. PICK f : f = [m \in rows |-> Place(m)]
    OBVIOUS
  <2>2. f \in [rows -> new] /\ \A m \in rows : f[m] = Place(m)
    BY <1>1, <2>1
  <2>3. (\A m, o \in rows : f[m] = f[o] => m = o) /\ \A n \in new : \E m \in rows : f[m] = n
    BY <1>1, <1>7, <2>2
  <2>4. f \in Bijection(rows, new)
    BY <2>2, <2>3, BijectionOf
  <2>5. QED
    BY <1>4, <2>2, <2>4
<1>10. QED
  BY <1>5, <1>6, <1>8, <1>9

\* What ALTER TABLE makes of them.
LEMMA DefaultRows ==
  ASSUME NEW rows \in SUBSET Row, IsFiniteSet(rows), Unique(rows),
         NEW new, new = {[m EXCEPT !.project = "default"] : m \in rows}
  PROVE  /\ new \in SUBSET Row /\ IsFiniteSet(new) /\ Unique(new)
         /\ \E f \in Bijection(rows, new) :
              \A m \in rows : f[m].mem = m.mem /\ f[m].project = "default"
<1> DEFINE D(m) == [m EXCEPT !.project = "default"]
<1>1. new = {D(m) : m \in rows}
  OBVIOUS
<1>2. ASSUME NEW m \in rows
      PROVE  D(m) \in Row /\ D(m).rowid = m.rowid /\ D(m).mem = m.mem /\ D(m).project = "default"
  BY DEF Row, ProjectIds
<1> HIDE DEF D
<1>3. IsFiniteSet(new)
  <2>1. [m \in rows |-> D(m)] \in Surjection(rows, new)
    BY <1>1 DEF Surjection
  <2>2. QED
    BY <2>1, FS_Surjection
<1>4. Unique(new)
  BY <1>1, <1>2 DEF Unique
<1>5. \E f \in Bijection(rows, new) :
        \A m \in rows : f[m].mem = m.mem /\ f[m].project = "default"
  <2>1. PICK f : f = [m \in rows |-> D(m)]
    OBVIOUS
  <2>2. f \in [rows -> new] /\ \A m \in rows : f[m] = D(m)
    BY <1>1, <2>1
  <2>3. \A m, o \in rows : f[m] = f[o] => m = o
    BY <1>2, <2>2 DEF Unique
  <2>4. \A n \in new : \E m \in rows : f[m] = n
    BY <1>1, <2>2
  <2>5. f \in Bijection(rows, new)
    BY <2>2, <2>3, <2>4, BijectionOf
  <2>6. QED
    BY <1>2, <2>2, <2>5
<1>6. QED
  BY <1>1, <1>2, <1>3, <1>4, <1>5

\* The next rowid is none of theirs.
NextRowid(rows) == IF rows = {} THEN 1 ELSE Max({o.rowid : o \in rows}) + 1

LEMMA RowidsGrow ==
  ASSUME NEW rows \in SUBSET Row, IsFiniteSet(rows)
  PROVE  NextRowid(rows) \in Nat /\ \A m \in rows : m.rowid # NextRowid(rows)
<1>1. CASE rows = {}
  BY <1>1 DEF NextRowid
<1>2. CASE rows # {}
  <2> DEFINE ids == {o.rowid : o \in rows}
  <2>1. ids \in SUBSET Nat /\ ids # {}
    BY <1>2 DEF Row
  <2>2. IsFiniteSet(ids)
    <3>1. [m \in rows |-> m.rowid] \in Surjection(rows, ids)
      BY DEF Surjection
    <3>2. QED
      BY <3>1, FS_Surjection
  <2>3. \A m \in rows : m.rowid \in ids
    OBVIOUS
  <2>4. NextRowid(rows) = Max(ids) + 1
    BY <1>2 DEF NextRowid
  <2> HIDE DEF ids
  <2>5. Max(ids) \in ids /\ \A y \in ids : Max(ids) >= y
    BY <2>1, <2>2, FiniteMax
  <2>6. PICK n : n = Max(ids)
    OBVIOUS
  <2>7. n \in Nat /\ \A y \in ids : y \in Nat /\ n >= y
    BY <2>1, <2>5, <2>6
  <2>8. NextRowid(rows) = n + 1
    BY <2>4, <2>6
  <2>9. QED
    BY <2>3, <2>7, <2>8
<1>3. QED
  BY <1>1, <1>2

-----------------------------------------------------------------------------
(***************************************************************************)
(* One statement.                                                          *)
(***************************************************************************)
Disk == [meta : [MetaKeys -> Nat], objects : SUBSET Objects, project : BOOLEAN,
         fleet : BOOLEAN, rows : SUBSET Row, fts : SUBSET (Nat \X Mems)]

LEMMA IndexedRows ==
  ASSUME NEW rows \in SUBSET Row
  PROVE  Indexed(rows) \in SUBSET (Nat \X Mems)
  BY DEF Indexed, Row

\* What a statement makes of the file, field by field.
LEMMA Effects ==
  ASSUME NEW d \in Disk, IsFiniteSet(d.rows), Unique(d.rows),
         NEW s \in Stmts, NEW e, e = Effect(d, s)
  PROVE  /\ e \in Disk /\ IsFiniteSet(e.rows) /\ Unique(e.rows)
         /\ \A k \in MetaKeys : e.meta[k] = d.meta[k]
              \/ \E v \in 1..Current : s = Set(k, v) /\ e.meta[k] = v
         /\ \A k \in MetaKeys, v \in 1..Current : s = Set(k, v) => e.meta[k] = v
         /\ e.project <=> \/ d.project
                          \/ s = AddProject
                          \/ s = Create("memories") /\ "memories" \notin d.objects
         /\ e.fleet <=> \/ d.fleet
                        \/ s = RebuildTable
                        \/ s = Create("memories") /\ "memories" \notin d.objects
         /\ \A o : o \in e.objects <=> \/ o \in d.objects
                                       \/ o \in Objects /\ s = Create(o)
                                       \/ s = RebuildTable /\ o \in {"triggers", "indexes"}
         /\ s \notin {AddProject, RebuildTable} => e.rows = d.rows
         /\ s = AddProject =>
              \E f \in Bijection(d.rows, e.rows) :
                \A m \in d.rows : f[m].mem = m.mem /\ f[m].project = "default"
         /\ s = RebuildTable =>
              \E f \in Bijection(d.rows, e.rows) :
                \A m \in d.rows : f[m].mem = m.mem /\ f[m].project = m.project
         /\ e.fts = IF s = RebuildIndex THEN Indexed(d.rows) ELSE d.fts
         /\ d.rows = {} => e.rows = {}
         /\ (\A k, v : s # Set(k, v)) => e.meta = d.meta
<1>1. CASE \E k \in MetaKeys, v \in 1..Current : s = Set(k, v)
  <2>1. PICK k \in MetaKeys, v \in 1..Current : s = Set(k, v)
    BY <1>1
  <2>2. e = [d EXCEPT !.meta[k] = v]
    <3>1. s.op = "set" /\ s.key = k /\ s.value = v
      BY <2>1 DEF Set
    <3>2. QED
      BY <3>1 DEF Effect
  <2>3. PICK m : m = [d.meta EXCEPT ![k] = v]
    OBVIOUS
  <2>4. /\ m \in [MetaKeys -> Nat] /\ m[k] = v
        /\ \A l \in MetaKeys : l # k => m[l] = d.meta[l]
    BY <2>3 DEF Disk, Current
  <2>5. /\ e \in Disk /\ e.meta = m /\ e.objects = d.objects /\ e.project = d.project
        /\ e.fleet = d.fleet /\ e.rows = d.rows /\ e.fts = d.fts
    BY <2>2, <2>3, <2>4 DEF Disk
  <2>6. s \notin {AddProject, RebuildTable, RebuildIndex} /\ \A o : s # Create(o)
    BY <2>1, StatementsDiffer
  <2>7. \A l, w : s = Set(l, w) => l = k /\ w = v
    BY <2>1, StatementsDiffer
  <2>8. \A l \in MetaKeys : e.meta[l] = d.meta[l]
              \/ \E w \in 1..Current : s = Set(l, w) /\ e.meta[l] = w
    BY <2>1, <2>4, <2>5
  <2>9. \A l \in MetaKeys, w \in 1..Current : s = Set(l, w) => e.meta[l] = w
    BY <2>4, <2>5, <2>7
  <2>10. ~(\A l, w : s # Set(l, w))
    BY <2>1
  <2>11. QED
    BY <2>5, <2>6, <2>8, <2>9, <2>10
<1>2. CASE s = AddProject
  <2>1. e = [d EXCEPT !.project = TRUE,
                      !.rows = {[m EXCEPT !.project = "default"] : m \in d.rows}]
    BY <1>2, EffectOfEach
  <2>2. PICK new : new = {[m EXCEPT !.project = "default"] : m \in d.rows}
    OBVIOUS
  <2>3. d.rows \in SUBSET Row
    BY DEF Disk
  <2>4. /\ new \in SUBSET Row /\ IsFiniteSet(new) /\ Unique(new)
        /\ \E f \in Bijection(d.rows, new) :
             \A m \in d.rows : f[m].mem = m.mem /\ f[m].project = "default"
    BY <2>2, <2>3, DefaultRows
  <2>5. /\ e \in Disk /\ e.meta = d.meta /\ e.objects = d.objects /\ e.project
        /\ e.fleet = d.fleet /\ e.rows = new /\ e.fts = d.fts
    BY <2>1, <2>2, <2>4 DEF Disk
  <2>6. s \notin {RebuildTable, RebuildIndex} /\ (\A o : s # Create(o)) /\ (\A k, v : s # Set(k, v))
    BY <1>2, StatementsDiffer
  <2>7. d.rows = {} => new = {}
    BY <2>2
  <2>8. QED
    BY <1>2, <2>4, <2>5, <2>6, <2>7
<1>3. CASE s = RebuildTable
  <2>1. e = [d EXCEPT !.fleet = TRUE, !.objects = d.objects \union {"triggers", "indexes"},
                      !.rows = Renumbered(d.rows)]
    BY <1>3, EffectOfEach DEF EffectOfRebuild
  <2>2. PICK new : new = Renumbered(d.rows)
    OBVIOUS
  <2>3. d.rows \in SUBSET Row
    BY DEF Disk
  <2>4. /\ new \in SUBSET Row /\ IsFiniteSet(new) /\ Unique(new)
        /\ \E f \in Bijection(d.rows, new) :
             \A m \in d.rows : f[m].mem = m.mem /\ f[m].project = m.project
    BY <2>2, <2>3, RenumberedRows
  <2>5. /\ e \in Disk /\ e.meta = d.meta /\ e.objects = d.objects \union {"triggers", "indexes"}
        /\ e.project = d.project /\ e.fleet /\ e.rows = new /\ e.fts = d.fts
    <3>1. PICK more : more = d.objects \union {"triggers", "indexes"}
      OBVIOUS
    <3>2. more \in SUBSET Objects
      BY <3>1 DEF Disk, Objects
    <3>3. e = [d EXCEPT !.fleet = TRUE, !.objects = more, !.rows = new]
      BY <2>1, <2>2, <3>1
    <3>4. QED
      BY <2>4, <3>1, <3>2, <3>3 DEF Disk
  <2>6. s \notin {AddProject, RebuildIndex} /\ (\A o : s # Create(o)) /\ (\A k, v : s # Set(k, v))
    BY <1>3, StatementsDiffer
  <2>7. d.rows = {} => new = {}
    BY <2>2 DEF Renumbered
  <2>8. QED
    BY <1>3, <2>4, <2>5, <2>6, <2>7
<1>4. CASE s = RebuildIndex
  <2>1. e = [d EXCEPT !.fts = Indexed(d.rows)]
    BY <1>4, EffectOfEach
  <2>2. Indexed(d.rows) \in SUBSET (Nat \X Mems)
    BY IndexedRows DEF Disk
  <2>3. /\ e \in Disk /\ e.meta = d.meta /\ e.objects = d.objects /\ e.project = d.project
        /\ e.fleet = d.fleet /\ e.rows = d.rows /\ e.fts = Indexed(d.rows)
    BY <2>1, <2>2 DEF Disk
  <2>4. s \notin {AddProject, RebuildTable} /\ (\A o : s # Create(o)) /\ (\A k, v : s # Set(k, v))
    BY <1>4, StatementsDiffer
  <2>5. QED
    BY <1>4, <2>3, <2>4
<1>5. CASE \E o \in Objects : s = Create(o)
  <2>1. PICK o \in Objects : s = Create(o)
    BY <1>5
  <2>2. e = EffectOfCreate(d, o)
    BY <2>1, EffectOfEach
  <2>3. s \notin {AddProject, RebuildTable, RebuildIndex} /\ (\A k, v : s # Set(k, v))
        /\ \A q : s = Create(q) => q = o
    BY <2>1, StatementsDiffer
  <2>4. CASE o = "memories" /\ o \notin d.objects
    <3>1. e = [d EXCEPT !.objects = d.objects \union {o}, !.project = TRUE, !.fleet = TRUE]
      BY <2>2, <2>4 DEF EffectOfCreate
    <3>2. /\ e \in Disk /\ e.meta = d.meta /\ e.objects = d.objects \union {o}
          /\ e.project /\ e.fleet /\ e.rows = d.rows /\ e.fts = d.fts
      BY <3>1 DEF Disk
    <3>3. QED
      BY <2>1, <2>3, <2>4, <3>2
  <2>5. CASE ~(o = "memories" /\ o \notin d.objects)
    <3>1. e = [d EXCEPT !.objects = d.objects \union {o}]
      BY <2>2, <2>5 DEF EffectOfCreate
    <3>2. /\ e \in Disk /\ e.meta = d.meta /\ e.objects = d.objects \union {o}
          /\ e.project = d.project /\ e.fleet = d.fleet /\ e.rows = d.rows /\ e.fts = d.fts
      BY <3>1 DEF Disk
    <3>3. QED
      BY <2>1, <2>3, <2>5, <3>2
  <2>6. QED
    BY <2>4, <2>5
<1>6. QED
  BY <1>1, <1>2, <1>3, <1>4, <1>5 DEF Stmts, Creates

\* What nobody takes back.
Grows(d, e) ==
  /\ d.project => e.project
  /\ d.fleet => e.fleet
  /\ d.objects \subseteq e.objects
  /\ \A k \in MetaKeys : d.meta[k] # 0 => e.meta[k] # 0
  /\ "memories" \in e.objects \ d.objects => e.project /\ e.fleet
  /\ d.rows = {} => e.rows = {} \/ "memory_labels" \in e.objects

LEMMA EffectGrows ==
  ASSUME NEW d \in Disk, IsFiniteSet(d.rows), Unique(d.rows),
         NEW s \in Stmts, NEW e, e = Effect(d, s)
  PROVE  Grows(d, e)
<1>1. /\ \A k \in MetaKeys : e.meta[k] = d.meta[k]
              \/ \E v \in 1..Current : s = Set(k, v) /\ e.meta[k] = v
      /\ e.project <=> \/ d.project
                       \/ s = AddProject
                       \/ s = Create("memories") /\ "memories" \notin d.objects
      /\ e.fleet <=> \/ d.fleet
                     \/ s = RebuildTable
                     \/ s = Create("memories") /\ "memories" \notin d.objects
      /\ \A o : o \in e.objects <=> \/ o \in d.objects
                                    \/ o \in Objects /\ s = Create(o)
                                    \/ s = RebuildTable /\ o \in {"triggers", "indexes"}
      /\ e \in Disk /\ (d.rows = {} => e.rows = {})
  BY Effects
<1>2. \A k \in MetaKeys : d.meta[k] # 0 => e.meta[k] # 0
  BY <1>1 DEF Current
<1>3. QED
  BY <1>1, <1>2 DEF Grows

\* The others' work leaves a plan good.
LEMMA PlanKept ==
  ASSUME NEW p \in Procs, PlanInv(p), Grows(disk, disk'),
         disk' \in Disk, todo'[p] = todo[p], mode'[p] = mode[p]
  PROVE  PlanInv(p)'
<1>1. /\ Left(p)' = Left(p) /\ (Opening(p)' <=> Opening(p))
      /\ (NoTable' => NoTable) /\ (~NoTable' => ~NoTable \/ (disk'.project /\ disk'.fleet))
  BY DEF Grows, Left, Opening, NoTable, Range
<1>2. Ordered(todo[p])'
  BY DEF PlanInv, Ordered, OnlyAfter
<1>3. /\ (Opening(p) /\ ~NoTable /\ ~disk.project => AddProject \in Left(p))'
      /\ (Opening(p) /\ ~NoTable /\ ~disk.fleet => RebuildTable \in Left(p))'
  BY <1>1 DEF PlanInv, Grows
<1>4. (Opening(p) => \A o \in Objects : o \in disk.objects \/ Create(o) \in Left(p))'
  BY <1>1 DEF PlanInv, Grows
<1>5. (NoTable => AddProject \notin Left(p) /\ RebuildTable \notin Left(p)
                /\ \A v \in 1..5 : SetVersion(v) \notin Left(p))'
  BY <1>1 DEF PlanInv
<1>6. (AddProject \in Left(p) \/ RebuildTable \in Left(p) => RebuildIndex \in Left(p))'
  BY <1>1 DEF PlanInv
<1>7. (\A w \in 5..Current : SetVersion(w) \in Left(p) =>
         \A k \in MetaKeys : disk.meta[k] # 0 \/ \E v \in 1..Current : Set(k, v) \in Left(p))'
  BY <1>1 DEF PlanInv, Grows
<1>8. (mode[p] = "ready" => disk.project /\ disk.fleet /\ disk.objects = Objects)'
  <2>1. disk'.objects \subseteq Objects
    BY DEF Disk
  <2>2. QED
    BY <2>1 DEF PlanInv, Grows
<1>9. (SetVersion(Current) \in Left(p) =>
         "memory_labels" \in disk.objects \/ disk.rows = {} \/ LabelsFirst(todo[p]))'
  BY <1>1 DEF PlanInv, Grows, LabelsFirst
<1>10. QED
  BY <1>2, <1>3, <1>4, <1>5, <1>6, <1>7, <1>8, <1>9 DEF PlanInv

\* The statement that is next, and those after it.
LEMMA NextStatement ==
  ASSUME IInv, NEW p \in Procs, todo[p] # <<>>, NEW h, h = Head(todo[p]),
         NEW t, t = Tail(todo[p])
  PROVE  /\ h \in Stmts /\ h \in Left(p) /\ Opening(p)
         /\ t \in Seq(Stmts) /\ Range(t) \subseteq Left(p)
         /\ \A x \in Left(p) : x = h \/ x \in Range(t)
         /\ Ordered(t)
         /\ AddProject \in Range(t) => h = SetVersion(2)
         /\ RebuildTable \in Range(t) => h \in {SetVersion(2), AddProject, SetVersion(3)}
         /\ Create("memories") \in Range(t) => h # Create("indexes")
         /\ \A k \in MetaKeys \ {"schema_version"}, v \in 1..Current :
              Set(k, v) \in Range(t) => h # SetVersion(5)
         /\ LabelsFirst(todo[p]) =>
              h # SetVersion(Current) /\ (h = Create("memory_labels") \/ LabelsFirst(t))
<1>1. todo[p] \in Seq(Stmts) /\ Ordered(todo[p])
  BY DEF IInv, PlanInv
<1>2. PICK s \in Seq(Stmts) : s = todo[p]
  BY <1>1
<1>3. s # <<>> /\ h = Head(s) /\ t = Tail(s) /\ Range(s) = Left(p) /\ Ordered(s)
  BY <1>1, <1>2 DEF Left
<1>4. /\ h \in Stmts /\ t \in Seq(Stmts) /\ h \in Range(s) /\ Range(t) \subseteq Range(s)
      /\ \A x \in Range(s) : x = h \/ x \in Range(t)
  BY <1>3, HeadAndTail
<1>5. Opening(p)
  BY DEF IInv, TypeOK, Opening
<1>6. \A x, A : OnlyAfter(s, x, A) =>
        OnlyAfter(t, x, A) /\ (x \in Range(t) => h \in A)
  BY <1>3, OnlyAfterHead
<1>7. OnlyAfter(t, AddProject, {SetVersion(2)}) /\ (AddProject \in Range(t) => h = SetVersion(2))
  BY <1>3, <1>6 DEF Ordered
<1>8. /\ OnlyAfter(t, RebuildTable, {SetVersion(2), AddProject, SetVersion(3)})
      /\ RebuildTable \in Range(t) => h \in {SetVersion(2), AddProject, SetVersion(3)}
  BY <1>3, <1>6 DEF Ordered
<1>9. /\ OnlyAfter(t, Create("memories"), Stmts \ {Create("indexes")})
      /\ Create("memories") \in Range(t) => h # Create("indexes")
  BY <1>3, <1>6 DEF Ordered
<1>10. ASSUME NEW k \in MetaKeys \ {"schema_version"}, NEW v \in 1..Current
       PROVE  /\ OnlyAfter(t, Set(k, v), Stmts \ {SetVersion(5)})
              /\ Set(k, v) \in Range(t) => h # SetVersion(5)
  <2>1. OnlyAfter(s, Set(k, v), Stmts \ {SetVersion(5)})
    BY <1>3 DEF Ordered
  <2>2. PICK x, A : x = Set(k, v) /\ A = Stmts \ {SetVersion(5)}
    OBVIOUS
  <2>3. OnlyAfter(t, x, A) /\ (x \in Range(t) => h \in A)
    BY <1>6, <2>1, <2>2
  <2>4. QED
    BY <2>2, <2>3
<1>11. Ordered(t)
  BY <1>7, <1>8, <1>9, <1>10 DEF Ordered
<1>12. LabelsFirst(todo[p]) =>
         h # SetVersion(Current) /\ (h = Create("memory_labels") \/ LabelsFirst(t))
  BY <1>2, <1>3, LabelsFirstHead
<1>13. QED
  BY <1>3, <1>4, <1>5, <1>7, <1>8, <1>9, <1>10, <1>11, <1>12

\* A table that lacks project_id is altered before it is rebuilt or indexed: only
\* who finds that another was faster fails.
LEMMA OnlyTwiceRaises ==
  ASSUME IInv, NEW p \in Procs, todo[p] # <<>>, Raises(disk, Head(todo[p]))
  PROVE  Head(todo[p]) = AddProject /\ disk.project
<1>1. PICK h, t : h = Head(todo[p]) /\ t = Tail(todo[p])
  OBVIOUS
<1>2. /\ h \in Stmts /\ h \in Left(p) /\ Opening(p)
      /\ \A x \in Left(p) : x = h \/ x \in Range(t)
      /\ AddProject \in Range(t) => h = SetVersion(2)
      /\ Create("memories") \in Range(t) => h # Create("indexes")
  BY <1>1, NextStatement
<1>3. \/ h = AddProject /\ disk.project
      \/ h = RebuildTable /\ ~disk.project
      \/ h = Create("indexes") /\ ~disk.project
  BY <1>1, <1>2, RaisesWhen
<1>4. PlanInv(p)
  BY DEF IInv
<1>5. RebuildTable # SetVersion(2) /\ Create("indexes") # SetVersion(2)
      /\ RebuildTable # AddProject /\ Create("indexes") # AddProject
      /\ Create("indexes") # Create("memories")
  BY StatementsDiffer DEF SetVersion
<1>6. ASSUME ~disk.project, h \in {RebuildTable, Create("indexes")}
      PROVE  NoTable
  <2>1. AddProject \notin Left(p)
    BY <1>2, <1>5, <1>6
  <2>2. QED
    BY <1>2, <1>4, <1>6, <2>1 DEF PlanInv
<1>7. NoTable => h # RebuildTable
  BY <1>2, <1>4 DEF PlanInv
<1>8. NoTable => h # Create("indexes")
  <2>1. NoTable => Create("memories") \in Left(p)
    BY <1>2, <1>4 DEF PlanInv, NoTable, Objects
  <2>2. QED
    BY <1>2, <1>5, <2>1
<1>9. QED
  BY <1>1, <1>3, <1>6, <1>7, <1>8

LEMMA TypedDisk ==
  ASSUME TypeOK
  PROVE  disk \in Disk
  BY DEF TypeOK, Disk, Row

\* Who executes a statement does what it planned, and the others' plans are good.
LEMMA ExecutePlans ==
  ASSUME IInv, NEW p \in Procs, Execute(p)
  PROVE  \A q \in Procs : PlanInv(q)'
<1>1. PICK h, t : h = Head(todo[p]) /\ t = Tail(todo[p])
  OBVIOUS
<1>2. todo[p] # <<>> /\ disk' = Effect(disk, h) /\ mode' = mode
      /\ todo' = [todo EXCEPT ![p] = t] /\ ~Raises(disk, h)
  BY <1>1 DEF Execute
<1>3. disk \in Disk /\ IsFiniteSet(disk.rows) /\ Unique(disk.rows)
  BY TypedDisk DEF IInv, DiskInv, Unique
<1>4. /\ h \in Stmts /\ h \in Left(p) /\ Opening(p)
      /\ t \in Seq(Stmts) /\ Range(t) \subseteq Left(p)
      /\ \A x \in Left(p) : x = h \/ x \in Range(t)
      /\ Ordered(t)
      /\ AddProject \in Range(t) => h = SetVersion(2)
      /\ RebuildTable \in Range(t) => h \in {SetVersion(2), AddProject, SetVersion(3)}
      /\ LabelsFirst(todo[p]) => h = Create("memory_labels") \/ LabelsFirst(t)
  BY <1>1, <1>2, NextStatement
<1>5. PICK e : e = Effect(disk, h)
  OBVIOUS
<1>6. /\ e \in Disk
      /\ \A k \in MetaKeys, v \in 1..Current : h = Set(k, v) => e.meta[k] = v
      /\ h = AddProject => e.project
      /\ h = RebuildTable => e.fleet
      /\ \A o \in Objects : h = Create(o) => o \in e.objects
  BY <1>3, <1>4, <1>5, Effects
<1>7. Grows(disk, e)
  BY <1>3, <1>4, <1>5, EffectGrows
<1>8. disk' = e /\ todo' \in [Procs -> Seq(Stmts)] /\ todo'[p] = t
      /\ \A q \in Procs : q # p => todo'[q] = todo[q]
  BY <1>2, <1>4, <1>5 DEF IInv
<1>9. ASSUME NEW q \in Procs, q # p
      PROVE  PlanInv(q)'
  <2>1. PlanInv(q)
    BY DEF IInv
  <2>2. todo'[q] = todo[q] /\ mode'[q] = mode[q] /\ Grows(disk, disk') /\ disk' \in Disk
    BY <1>2, <1>6, <1>7, <1>8, <1>9
  <2>3. QED
    BY <2>1, <2>2, PlanKept
<1>10. PlanInv(p)'
  <2>1. PlanInv(p)
    BY DEF IInv
  <2>2. /\ Left(p)' = Range(t) /\ Opening(p)' /\ mode'[p] # "ready"
        /\ (NoTable' => NoTable) /\ (~NoTable' => ~NoTable \/ (disk'.project /\ disk'.fleet))
    BY <1>2, <1>4, <1>7, <1>8 DEF Grows, Left, Opening, NoTable, Range
  <2>3. Ordered(todo[p])'
    BY <1>4, <1>8 DEF Ordered, OnlyAfter
  <2>4. /\ (Opening(p) /\ ~NoTable /\ ~disk.project => AddProject \in Left(p))'
        /\ (Opening(p) /\ ~NoTable /\ ~disk.fleet => RebuildTable \in Left(p))'
    BY <1>4, <1>6, <1>7, <1>8, <2>1, <2>2 DEF PlanInv, Grows
  <2>5. (Opening(p) => \A o \in Objects : o \in disk.objects \/ Create(o) \in Left(p))'
    BY <1>4, <1>6, <1>7, <1>8, <2>1, <2>2 DEF PlanInv, Grows
  <2>6. (NoTable => AddProject \notin Left(p) /\ RebuildTable \notin Left(p)
                  /\ \A v \in 1..5 : SetVersion(v) \notin Left(p))'
    BY <1>4, <2>1, <2>2 DEF PlanInv
  <2>7. (AddProject \in Left(p) \/ RebuildTable \in Left(p) => RebuildIndex \in Left(p))'
    <3>1. RebuildIndex \notin {SetVersion(2), AddProject, SetVersion(3)}
      BY StatementsDiffer DEF SetVersion
    <3>2. QED
      BY <1>4, <2>1, <2>2, <3>1 DEF PlanInv
  <2>8. (\A w \in 5..Current : SetVersion(w) \in Left(p) =>
           \A k \in MetaKeys : disk.meta[k] # 0 \/ \E v \in 1..Current : Set(k, v) \in Left(p))'
    <3>1. SUFFICES ASSUME NEW w \in 5..Current, SetVersion(w) \in Range(t), NEW k \in MetaKeys
                   PROVE  e.meta[k] # 0 \/ \E v \in 1..Current : Set(k, v) \in Range(t)
      BY <1>8, <2>2
    <3>2. disk.meta[k] # 0 \/ \E v \in 1..Current : Set(k, v) \in Left(p)
      BY <1>4, <2>1, <3>1 DEF PlanInv
    <3>3. CASE disk.meta[k] # 0
      BY <1>7, <3>3 DEF Grows
    <3>4. CASE \E v \in 1..Current : Set(k, v) \in Left(p)
      <4>1. PICK v \in 1..Current : Set(k, v) \in Left(p)
        BY <3>4
      <4>2. h = Set(k, v) \/ Set(k, v) \in Range(t)
        BY <1>4, <4>1
      <4>3. v # 0
        OBVIOUS
      <4>4. QED
        BY <1>6, <4>2, <4>3
    <3>5. QED
      BY <3>2, <3>3, <3>4
  <2>9. (SetVersion(Current) \in Left(p) =>
           "memory_labels" \in disk.objects \/ disk.rows = {} \/ LabelsFirst(todo[p]))'
    <3>1. SUFFICES ASSUME SetVersion(Current) \in Range(t)
                   PROVE  "memory_labels" \in e.objects \/ e.rows = {} \/ LabelsFirst(t)
      BY <1>8, <2>2 DEF LabelsFirst
    <3>2. "memory_labels" \in disk.objects \/ disk.rows = {} \/ LabelsFirst(todo[p])
      BY <1>4, <2>1, <3>1 DEF PlanInv
    <3>3. h = Create("memory_labels") => "memory_labels" \in e.objects
      BY <1>6 DEF Objects
    <3>4. QED
      BY <1>4, <1>7, <3>2, <3>3 DEF Grows
  <2>10. QED
    BY <2>2, <2>3, <2>4, <2>5, <2>6, <2>7, <2>8, <2>9 DEF PlanInv
<1>11. QED
  BY <1>9, <1>10

\* The facts of one step of connect(), together.
LEMMA ExecuteIs ==
  ASSUME IInv, NEW p \in Procs, Execute(p), NEW h, h = Head(todo[p])
  PROVE  /\ h \in Stmts /\ h \in Left(p) /\ Opening(p) /\ ~Raises(disk, h) /\ PlanInv(p)
         /\ \A x \in Left(p) : x = h \/ x \in Left(p)'
         /\ Left(p)' \subseteq Left(p)
         /\ \A q \in Procs : q # p => Left(q)' = Left(q)
         /\ AddProject \in Left(p)' => h = SetVersion(2)
         /\ RebuildTable \in Left(p)' => h \in {SetVersion(2), AddProject, SetVersion(3)}
         /\ \A k \in MetaKeys \ {"schema_version"}, v \in 1..Current :
              Set(k, v) \in Left(p)' => h # SetVersion(5)
         /\ LabelsFirst(todo[p]) => h # SetVersion(Current)
         /\ disk \in Disk /\ IsFiniteSet(disk.rows) /\ Unique(disk.rows)
         /\ disk' = Effect(disk, h) /\ Grows(disk, disk')
         /\ mode' = mode /\ crashes' = crashes
         /\ \/ Version' = Version
            \/ \E v \in 1..Current : h = SetVersion(v) /\ Version' = v
<1>1. PICK t : t = Tail(todo[p])
  OBVIOUS
<1>2. todo[p] # <<>> /\ disk' = Effect(disk, h) /\ mode' = mode /\ crashes' = crashes
      /\ todo' = [todo EXCEPT ![p] = t] /\ ~Raises(disk, h)
  BY <1>1 DEF Execute
<1>3. disk \in Disk /\ IsFiniteSet(disk.rows) /\ Unique(disk.rows) /\ PlanInv(p)
  BY TypedDisk DEF IInv, DiskInv, Unique
<1>4. /\ h \in Stmts /\ h \in Left(p) /\ Opening(p)
      /\ t \in Seq(Stmts) /\ Range(t) \subseteq Left(p)
      /\ \A x \in Left(p) : x = h \/ x \in Range(t)
      /\ AddProject \in Range(t) => h = SetVersion(2)
      /\ RebuildTable \in Range(t) => h \in {SetVersion(2), AddProject, SetVersion(3)}
      /\ \A k \in MetaKeys \ {"schema_version"}, v \in 1..Current :
           Set(k, v) \in Range(t) => h # SetVersion(5)
      /\ LabelsFirst(todo[p]) => h # SetVersion(Current)
  BY <1>1, <1>2, NextStatement
<1>5. Left(p)' = Range(t) /\ \A q \in Procs : q # p => Left(q)' = Left(q)
  BY <1>2 DEF IInv, Left, Range
<1>6. Grows(disk, disk')
  BY <1>2, <1>3, <1>4, EffectGrows
<1>7. \/ Version' = Version
      \/ \E v \in 1..Current : h = SetVersion(v) /\ Version' = v
  <2>1. "schema_version" \in MetaKeys
    BY DEF MetaKeys
  <2>2. PICK e : e = Effect(disk, h)
    OBVIOUS
  <2>3. \A k \in MetaKeys : e.meta[k] = disk.meta[k]
              \/ \E v \in 1..Current : h = Set(k, v) /\ e.meta[k] = v
    BY <1>3, <1>4, <2>2, Effects
  <2>4. QED
    BY <1>2, <2>1, <2>2, <2>3 DEF Version, SetVersion
<1>8. QED
  BY <1>2, <1>3, <1>4, <1>5, <1>6, <1>7

LEMMA ExecuteDisk ==
  ASSUME IInv, NEW p \in Procs, Execute(p)
  PROVE  disk' \in Disk /\ DiskInv'
<1>1. PICK h : h = Head(todo[p])
  OBVIOUS
<1>2. PICK e : e = Effect(disk, h)
  OBVIOUS
<1>3. /\ h \in Stmts /\ h \in Left(p) /\ Opening(p) /\ ~Raises(disk, h) /\ PlanInv(p)
      /\ \A x \in Left(p) : x = h \/ x \in Left(p)'
      /\ AddProject \in Left(p)' => h = SetVersion(2)
      /\ RebuildTable \in Left(p)' => h \in {SetVersion(2), AddProject, SetVersion(3)}
      /\ \A k \in MetaKeys \ {"schema_version"}, v \in 1..Current :
           Set(k, v) \in Left(p)' => h # SetVersion(5)
      /\ LabelsFirst(todo[p]) => h # SetVersion(Current)
      /\ disk \in Disk /\ IsFiniteSet(disk.rows) /\ Unique(disk.rows)
      /\ disk' = e /\ Grows(disk, disk')
      /\ \/ Version' = Version
         \/ \E v \in 1..Current : h = SetVersion(v) /\ Version' = v
  BY <1>1, <1>2, ExecuteIs
<1>4. /\ e \in Disk /\ IsFiniteSet(e.rows) /\ Unique(e.rows)
      /\ \A k \in MetaKeys, v \in 1..Current : h = Set(k, v) => e.meta[k] = v
      /\ h = AddProject => e.project
      /\ h = RebuildTable => e.fleet
      /\ h \notin {AddProject, RebuildTable} => e.rows = disk.rows
      /\ e.fts = IF h = RebuildIndex THEN Indexed(disk.rows) ELSE disk.fts
      /\ disk.rows = {} => e.rows = {}
  BY <1>2, <1>3, Effects
<1>5. DiskInv
  BY DEF IInv
<1>6. /\ (NoTable' => NoTable) /\ (~NoTable' => ~NoTable \/ (e.project /\ e.fleet))
  BY <1>3 DEF Grows, NoTable
<1>7. Version \in Nat
  BY <1>3 DEF Disk, Version, MetaKeys
<1>8. NoTable' => Version' \notin 1..5 /\ e.rows = {} /\ e.fts = {}
  <2>1. SUFFICES ASSUME NoTable' PROVE Version' \notin 1..5 /\ e.rows = {} /\ e.fts = {}
    OBVIOUS
  <2>2. NoTable /\ Version \notin 1..5 /\ disk.rows = {} /\ disk.fts = {}
    BY <1>5, <1>6, <2>1 DEF DiskInv
  <2>3. \A v \in 1..5 : h # SetVersion(v)
    BY <1>3, <2>2 DEF PlanInv
  <2>4. Version' \notin 1..5
    BY <1>3, <2>2, <2>3 DEF Current
  <2>5. Indexed({}) = {}
    BY DEF Indexed
  <2>6. QED
    BY <1>4, <2>2, <2>4, <2>5
<1>9. ~NoTable' /\ Version' = 0 => e.project /\ e.fleet
  <2>1. Version' = 0 => Version = 0
    BY <1>3
  <2>2. QED
    BY <1>3, <1>5, <1>6, <2>1 DEF DiskInv, Grows
<1>10. ~NoTable' /\ Version' >= 3 => e.project
  <2>1. SUFFICES ASSUME ~NoTable, ~e.project, Version' >= 3 PROVE FALSE
    BY <1>6
  <2>2. ~disk.project /\ h # AddProject
    BY <1>3, <1>4, <2>1 DEF Grows
  <2>3. AddProject \in Left(p)
    BY <1>3, <2>1, <2>2 DEF PlanInv
  <2>4. h = SetVersion(2)
    BY <1>3, <2>2, <2>3
  <2>5. Version' = 2
    BY <1>3, <1>4, <2>4 DEF SetVersion, Version, MetaKeys, Current
  <2>6. QED
    BY <2>1, <2>5
<1>11. ~NoTable' /\ Version' >= 4 => e.fleet
  <2>1. SUFFICES ASSUME ~NoTable, ~e.fleet, Version' >= 4 PROVE FALSE
    BY <1>6
  <2>2. ~disk.fleet /\ h # RebuildTable
    BY <1>3, <1>4, <2>1 DEF Grows
  <2>3. RebuildTable \in Left(p)
    BY <1>3, <2>1, <2>2 DEF PlanInv
  <2>4. h \in {SetVersion(2), AddProject, SetVersion(3)}
    BY <1>3, <2>2, <2>3
  <2>5. ~(Version >= 4)
    BY <1>5, <2>1, <2>2 DEF DiskInv
  <2>6. \A v \in 1..Current : h = SetVersion(v) => v \in {2, 3}
    BY <2>4, StatementsDiffer DEF SetVersion
  <2>7. QED
    BY <1>3, <2>1, <2>5, <2>6
<1>12. Version' = 5 => \A k \in MetaKeys : e.meta[k] # 0
  <2>1. SUFFICES ASSUME Version' = 5, NEW k \in MetaKeys PROVE e.meta[k] # 0
    OBVIOUS
  <2>2. CASE Version = 5
    BY <1>3, <1>5, <2>2 DEF DiskInv, Grows
  <2>3. CASE Version # 5
    <3>1. h = SetVersion(5)
      BY <1>3, <2>1, <2>3
    <3>2. CASE k = "schema_version"
      BY <1>3, <2>1, <3>2 DEF Version
    <3>3. CASE k # "schema_version"
      <4>1. \A v \in 1..Current : Set(k, v) \notin Left(p)
        <5>1. \A v : Set(k, v) # h
          BY <3>1, <3>3, StatementsDiffer DEF SetVersion
        <5>2. QED
          BY <1>3, <3>1, <3>3, <5>1
      <4>2. SetVersion(5) \in Left(p)
        BY <1>3, <3>1
      <4>3. disk.meta[k] # 0
        BY <1>3, <4>1, <4>2 DEF PlanInv, Current
      <4>4. QED
        BY <1>3, <4>3 DEF Grows
    <3>4. QED
      BY <3>2, <3>3
  <2>4. QED
    BY <2>2, <2>3
<1>13. ~e.project => \A m \in e.rows : m.project = "none"
  <2>1. SUFFICES ASSUME ~e.project PROVE \A m \in e.rows : m.project = "none"
    OBVIOUS
  <2>2. ~disk.project /\ h # AddProject
    BY <1>3, <1>4, <2>1 DEF Grows
  <2>3. h # RebuildTable
    BY <1>3, <2>2, RaisesWhen
  <2>4. e.rows = disk.rows
    BY <1>4, <2>2, <2>3
  <2>5. QED
    BY <1>5, <2>2, <2>4 DEF DiskInv
<1>14. \A m, o \in e.rows : m.rowid = o.rowid /\ m.mem = o.mem => m = o
  BY <1>4 DEF Unique
<1>15. Version' \in {0, Current} => "memory_labels" \in e.objects \/ e.rows = {}
  <2>1. SUFFICES ASSUME Version' \in {0, Current}
                 PROVE  "memory_labels" \in disk.objects \/ disk.rows = {}
    BY <1>3 DEF Grows
  <2>2. CASE Version' = Version
    BY <1>5, <2>1, <2>2 DEF DiskInv
  <2>3. CASE Version' # Version
    <3>1. h = SetVersion(Current)
      BY <1>3, <2>1, <2>3
    <3>2. QED
      BY <1>3, <3>1 DEF PlanInv
  <2>4. QED
    BY <2>2, <2>3
<1>16. DiskInv'
  BY <1>3, <1>4, <1>8, <1>9, <1>10, <1>11, <1>12, <1>13, <1>14, <1>15 DEF DiskInv
<1>17. QED
  BY <1>3, <1>4, <1>16

LEMMA ExecuteNewer ==
  ASSUME IInv, NEW p \in Procs, Execute(p)
  PROVE  /\ NewerInv'
         /\ Version > Current =>
              \E o \in Objects : disk' = EffectOfCreate(disk, o)
                               /\ disk'.meta = disk.meta /\ Version' = Version
<1>1. PICK h : h = Head(todo[p])
  OBVIOUS
<1>2. PICK e : e = Effect(disk, h)
  OBVIOUS
<1>3. /\ h \in Stmts /\ h \in Left(p)
      /\ Left(p)' \subseteq Left(p)
      /\ \A q \in Procs : q # p => Left(q)' = Left(q)
      /\ disk \in Disk /\ IsFiniteSet(disk.rows) /\ Unique(disk.rows)
      /\ disk' = e /\ Grows(disk, disk') /\ mode' = mode
      /\ \/ Version' = Version
         \/ \E v \in 1..Current : h = SetVersion(v) /\ Version' = v
  BY <1>1, <1>2, ExecuteIs
<1>4. NewerInv
  BY DEF IInv
<1>5. ASSUME Version > Current
      PROVE  \E o \in Objects : disk' = EffectOfCreate(disk, o)
                              /\ disk'.meta = disk.meta /\ Version' = Version
  <2>1. h \in Creates
    BY <1>3, <1>4, <1>5 DEF NewerInv
  <2>2. PICK o \in Objects : h = Create(o)
    BY <2>1 DEF Creates
  <2>3. e = EffectOfCreate(disk, o)
    BY <1>2, <2>2, EffectOfEach
  <2>4. e.meta = disk.meta
    BY <2>3 DEF EffectOfCreate, Disk
  <2>5. QED
    BY <1>3, <2>3, <2>4 DEF Version
<1>6. Version \in Nat /\ (Version' > Current => Version > Current)
  BY <1>3 DEF Disk, Version, MetaKeys, Current
<1>7. Version > Current => Version' = Version /\ Demands(disk.meta)' = Demands(disk.meta)
  BY <1>5 DEF Version, Demands
<1>8. \A q \in Procs : Left(q)' \subseteq Left(q)
  BY <1>3
<1>9. NewerInv'
  <2>1. ASSUME Version' > Current
        PROVE  /\ \A q \in Procs : Left(q)' \subseteq Creates
               /\ (Demands(disk.meta).writer > Current)' =>
                    \A q \in Procs : mode'[q] \notin {"opening", "ready"}
    <3>1. Version > Current
      BY <1>6, <2>1
    <3>2. \A q \in Procs : Left(q)' \subseteq Creates
      BY <1>4, <1>8, <3>1 DEF NewerInv
    <3>3. (Demands(disk.meta).writer > Current)' => Demands(disk.meta).writer > Current
      BY <1>7, <3>1
    <3>4. QED
      BY <1>3, <1>4, <3>1, <3>2, <3>3 DEF NewerInv
  <2>2. \A q \in Procs : mode'[q] = "opening_read_only" => Version' > Current
    BY <1>3, <1>4, <1>7 DEF NewerInv
  <2>3. QED
    BY <2>1, <2>2 DEF NewerInv
<1>10. QED
  BY <1>5, <1>9

\* Whoever brings the version up to date brings the keys and the tables.
LEMMA ExecuteSeeds ==
  ASSUME IInv, NEW p \in Procs, Execute(p)
  PROVE  SeedInv'
<1>1. PICK h : h = Head(todo[p])
  OBVIOUS
<1>2. PICK e : e = Effect(disk, h)
  OBVIOUS
<1>3. /\ h \in Stmts /\ h \in Left(p) /\ Opening(p) /\ PlanInv(p)
      /\ \A x \in Left(p) : x = h \/ x \in Left(p)'
      /\ Left(p)' \subseteq Left(p)
      /\ \A q \in Procs : q # p => Left(q)' = Left(q)
      /\ AddProject \in Left(p)' => h = SetVersion(2)
      /\ disk \in Disk /\ IsFiniteSet(disk.rows) /\ Unique(disk.rows)
      /\ disk' = e /\ Grows(disk, disk') /\ crashes' = crashes
      /\ \/ Version' = Version
         \/ \E v \in 1..Current : h = SetVersion(v) /\ Version' = v
  BY <1>1, <1>2, ExecuteIs
<1>4. /\ \A k \in MetaKeys, v \in 1..Current : h = Set(k, v) => e.meta[k] = v
      /\ \A o \in Objects : h = Create(o) => o \in e.objects
  BY <1>2, <1>3, Effects
<1>5. \A q \in Procs : Sure(q) => Sure(q)'
  BY <1>3 DEF Sure
<1>6. \A q \in Procs : \A x \in Left(q) : (q = p /\ x = h) \/ x \in Left(q)'
  BY <1>3
<1>7. Version # Current /\ Version' = Current => h = SetVersion(Current) /\ Sure(p)'
  <2>1. SetVersion(Current) # SetVersion(2)
    BY StatementsDiffer DEF SetVersion, Current
  <2>2. QED
    BY <1>3, <2>1 DEF Sure
<1> SUFFICES ASSUME crashes = 0, Version' = Current
             PROVE  /\ \A k \in MetaKeys : e.meta[k] # 0
                         \/ \E q \in Procs : Sure(q)' /\ \E v \in 1..Current : Set(k, v) \in Left(q)'
                    /\ \A o \in Objects : o \in e.objects
                         \/ \E q \in Procs : Sure(q)' /\ Create(o) \in Left(q)'
  BY <1>3 DEF SeedInv
<1>8. ASSUME NEW k \in MetaKeys
      PROVE  \/ e.meta[k] # 0
             \/ \E q \in Procs : Sure(q)' /\ \E v \in 1..Current : Set(k, v) \in Left(q)'
  <2>1. \/ disk.meta[k] # 0
        \/ \E q \in Procs : Sure(q)' /\ \E v \in 1..Current : Set(k, v) \in Left(q)
    <3>1. CASE Version = Current
      BY <1>5, <3>1 DEF IInv, SeedInv
    <3>2. CASE Version # Current
      BY <1>3, <1>7, <3>2 DEF PlanInv, Current
    <3>3. QED
      BY <3>1, <3>2
  <2>2. CASE disk.meta[k] # 0
    BY <1>3, <2>2 DEF Grows
  <2>3. CASE \E q \in Procs : Sure(q)' /\ \E v \in 1..Current : Set(k, v) \in Left(q)
    <3>1. PICK q \in Procs, v \in 1..Current : Sure(q)' /\ Set(k, v) \in Left(q)
      BY <2>3
    <3>2. h = Set(k, v) \/ Set(k, v) \in Left(q)'
      BY <1>6, <3>1
    <3>3. v # 0
      OBVIOUS
    <3>4. QED
      BY <1>4, <3>1, <3>2, <3>3
  <2>4. QED
    BY <2>1, <2>2, <2>3
<1>9. ASSUME NEW o \in Objects
      PROVE  \/ o \in e.objects
             \/ \E q \in Procs : Sure(q)' /\ Create(o) \in Left(q)'
  <2>1. \/ o \in disk.objects
        \/ \E q \in Procs : Sure(q)' /\ Create(o) \in Left(q)
    <3>1. CASE Version = Current
      BY <1>5, <3>1 DEF IInv, SeedInv
    <3>2. CASE Version # Current
      BY <1>3, <1>7, <3>2 DEF PlanInv
    <3>3. QED
      BY <3>1, <3>2
  <2>2. CASE o \in disk.objects
    BY <1>3, <2>2 DEF Grows
  <2>3. CASE \E q \in Procs : Sure(q)' /\ Create(o) \in Left(q)
    BY <1>4, <1>6, <2>3
  <2>4. QED
    BY <2>1, <2>2, <2>3
<1>10. QED
  BY <1>8, <1>9

\* Whoever disturbs the rows rebuilds the index, and does not fail before that.
LEMMA ExecuteIndexes ==
  ASSUME IInv, NEW p \in Procs, Execute(p)
  PROVE  IndexInv'
<1>1. PICK h : h = Head(todo[p])
  OBVIOUS
<1>2. PICK e : e = Effect(disk, h)
  OBVIOUS
<1>3. /\ h \in Stmts /\ h \in Left(p) /\ PlanInv(p)
      /\ \A x \in Left(p) : x = h \/ x \in Left(p)'
      /\ Left(p)' \subseteq Left(p)
      /\ \A q \in Procs : q # p => Left(q)' = Left(q)
      /\ AddProject \in Left(p)' => h = SetVersion(2)
      /\ disk \in Disk /\ IsFiniteSet(disk.rows) /\ Unique(disk.rows)
      /\ disk' = e /\ crashes' = crashes
      /\ \/ Version' = Version
         \/ \E v \in 1..Current : h = SetVersion(v) /\ Version' = v
  BY <1>1, <1>2, ExecuteIs
<1>4. /\ e.project <=> \/ disk.project
                       \/ h = AddProject
                       \/ h = Create("memories") /\ "memories" \notin disk.objects
      /\ h \notin {AddProject, RebuildTable} => e.rows = disk.rows
      /\ e.fts = IF h = RebuildIndex THEN Indexed(disk.rows) ELSE disk.fts
  BY <1>2, <1>3, Effects
<1>5. \A q \in Procs : Sure(q) => Sure(q)'
  BY <1>3 DEF Sure
<1> SUFFICES ASSUME crashes = 0, Version <= Current
             PROVE  \/ e.fts = Indexed(e.rows)
                    \/ ~e.project
                    \/ \E q \in Procs : Sure(q)' /\ RebuildIndex \in Left(q)'
  <2>1. Version \in Nat
    BY <1>3 DEF Disk, Version, MetaKeys
  <2>2. ~(Version <= Current) => Version > Current
    BY <2>1 DEF Current
  <2>3. Version > Current => Version' = Version
    BY ExecuteNewer
  <2>4. QED
    BY <1>3, <2>2, <2>3 DEF IndexInv
<1>6. CASE h \in {AddProject, RebuildTable}
  <2>1. RebuildIndex \in Left(p)'
    BY <1>3, <1>6, StatementsDiffer DEF PlanInv
  <2>2. Sure(p)'
    BY <1>3, <1>6, StatementsDiffer DEF Sure, SetVersion
  <2>3. QED
    BY <2>1, <2>2
<1>7. CASE h = RebuildIndex
  BY <1>4, <1>7, StatementsDiffer
<1>8. CASE h \notin {AddProject, RebuildTable, RebuildIndex}
  <2>1. e.rows = disk.rows /\ e.fts = disk.fts
    BY <1>4, <1>8
  <2>2. CASE disk.fts = Indexed(disk.rows)
    BY <2>1, <2>2
  <2>3. CASE \E q \in Procs : Sure(q) /\ RebuildIndex \in Left(q)
    BY <1>3, <1>5, <1>8, <2>3
  <2>4. CASE ~disk.project /\ e.project
    <3>1. NoTable
      BY <1>4, <1>8, <2>4 DEF NoTable
    <3>2. disk.rows = {} /\ disk.fts = {}
      BY <3>1 DEF IInv, DiskInv
    <3>3. QED
      BY <2>1, <3>2 DEF Indexed
  <2>5. QED
    BY <2>2, <2>3, <2>4 DEF IInv, IndexInv
<1>9. QED
  BY <1>6, <1>7, <1>8

LEMMA ExecuteKeeps ==
  ASSUME IInv, NEW p \in Procs, Execute(p)
  PROVE  IInv'
<1>1. disk' \in Disk /\ DiskInv' /\ NewerInv' /\ SeedInv' /\ IndexInv'
  BY ExecuteDisk, ExecuteNewer, ExecuteSeeds, ExecuteIndexes
<1>2. \A q \in Procs : PlanInv(q)'
  BY ExecutePlans
<1>3. PICK t : t = Tail(todo[p])
  OBVIOUS
<1>4. /\ t \in Seq(Stmts) /\ Opening(p) /\ mode' = mode /\ crashes' = crashes
      /\ todo' = [todo EXCEPT ![p] = t]
  BY <1>3, NextStatement DEF Execute
<1>5. todo' \in [Procs -> Seq(Stmts)]
  BY <1>4 DEF IInv
<1>6. \A q \in Procs : mode'[q] \notin {"opening", "opening_read_only"} => todo'[q] = <<>>
  BY <1>4 DEF IInv, TypeOK, Opening
<1>7. TypeOK'
  BY <1>1, <1>4, <1>6 DEF IInv, TypeOK, Disk, Row
<1>8. QED
  BY <1>1, <1>2, <1>5, <1>7 DEF IInv

-----------------------------------------------------------------------------
(***************************************************************************)
(* The other steps.                                                        *)
(***************************************************************************)

\* Who has nothing to do and does not rely on the schema has a good plan.
LEMMA PlanOfIdle ==
  ASSUME NEW p \in Procs, todo'[p] = <<>>,
         mode'[p] \notin {"opening", "opening_read_only", "ready"}
  PROVE  PlanInv(p)'
<1>1. Left(p)' = {} /\ ~Opening(p)'
  BY PartsOfPlans DEF Left, Opening, Range
<1>2. Ordered(todo[p])'
  BY DEF Ordered, OnlyAfter
<1>3. QED
  BY <1>1, <1>2 DEF PlanInv

\* What somebody is sure to do stays to be done while the file is not upgraded.
LEMMA PromisesKept ==
  ASSUME IInv, disk'.meta = disk.meta, disk'.project = disk.project,
         disk'.objects = disk.objects,
         disk.project /\ disk.fts = Indexed(disk.rows) => disk'.fts = Indexed(disk'.rows),
         ~disk.project => disk' = disk,
         crashes' = 0 => crashes = 0 /\ \A q \in Procs :
           \/ ~Sure(q)
           \/ Left(q) = {}
           \/ Left(q)' = Left(q)
  PROVE  SeedInv' /\ IndexInv'
<1>1. ASSUME crashes' = 0, NEW q \in Procs, Sure(q), NEW x \in Left(q)
      PROVE  Sure(q)' /\ x \in Left(q)'
  BY <1>1 DEF Sure
<1>2. SeedInv'
  <2>1. SUFFICES ASSUME crashes' = 0, Version' = Current
                 PROVE  /\ \A k \in MetaKeys : disk'.meta[k] # 0
                             \/ \E q \in Procs : Sure(q)' /\ \E v \in 1..Current : Set(k, v) \in Left(q)'
                        /\ \A o \in Objects : o \in disk'.objects
                             \/ \E q \in Procs : Sure(q)' /\ Create(o) \in Left(q)'
    BY DEF SeedInv
  <2>2. /\ \A k \in MetaKeys : disk.meta[k] # 0
             \/ \E q \in Procs : Sure(q) /\ \E v \in 1..Current : Set(k, v) \in Left(q)
        /\ \A o \in Objects : o \in disk.objects
             \/ \E q \in Procs : Sure(q) /\ Create(o) \in Left(q)
    BY <2>1 DEF IInv, SeedInv, Version
  <2>3. QED
    BY <1>1, <2>1, <2>2
<1>3. IndexInv'
  <2>1. SUFFICES ASSUME crashes' = 0, Version' <= Current, disk'.project
                 PROVE  \/ disk'.fts = Indexed(disk'.rows)
                        \/ \E q \in Procs : Sure(q)' /\ RebuildIndex \in Left(q)'
    BY DEF IndexInv
  <2>2. \/ disk.fts = Indexed(disk.rows)
        \/ \E q \in Procs : Sure(q) /\ RebuildIndex \in Left(q)
    BY <2>1 DEF IInv, IndexInv, Version
  <2>3. QED
    BY <1>1, <2>1, <2>2
<1>4. QED
  BY <1>2, <1>3

LEMMA OpenKeeps ==
  ASSUME IInv, NEW p \in Procs, Open(p)
  PROVE  IInv'
<1>1. mode[p] = "closed" /\ todo[p] = <<>> /\ disk' = disk /\ crashes' = crashes
  BY DEF Open, IInv, TypeOK
<1>2. disk \in Disk
  BY TypedDisk DEF IInv
<1>3. DiskInv'
  BY <1>1 DEF IInv, DiskInv, NoTable, Version
<1>4. PICK s : s = Statements(disk.meta)
  OBVIOUS
<1>5. PICK v : v = disk.meta["schema_version"]
  OBVIOUS
<1>6. /\ v \in Nat /\ s \in Seq(Stmts) /\ Ordered(s) /\ Creates \subseteq Range(s)
      /\ AddProject \in Range(s) <=> v \in 1..2
      /\ RebuildTable \in Range(s) <=> v \in 1..3
      /\ RebuildIndex \in Range(s) <=> v \in 1..3
      /\ \A w \in 1..5 : SetVersion(w) \in Range(s) => v \in 1..5
      /\ v \notin 0..6 => Range(s) \subseteq Creates
      /\ \A w \in 5..6 : SetVersion(w) \in Range(s) => v \in 0..5
      /\ v \in 0..4 => \A k \in MetaKeys : \E w \in 1..Current : Set(k, w) \in Range(s)
      /\ v \in 1..5 => LabelsFirst(s)
  BY <1>2, <1>4, <1>5, PlanFacts DEF Disk
<1>7. /\ mode' \in [Procs -> {"closed", "opening", "opening_read_only",
                              "ready", "read_only", "refused"}]
      /\ \A q \in Procs : q # p => mode'[q] = mode[q]
      /\ \/ mode'[p] = "refused" /\ todo' = todo
         \/ mode'[p] \in {"opening", "opening_read_only"} /\ todo' = [todo EXCEPT ![p] = s]
      /\ mode'[p] = "opening" => ~Refused(disk.meta) /\ ~ReadOnly(disk.meta)
      /\ mode'[p] = "opening_read_only" => ReadOnly(disk.meta)
  BY <1>4 DEF Open, Goto, IInv, TypeOK
<1>8. /\ todo' \in [Procs -> Seq(Stmts)]
      /\ \A q \in Procs : q # p => todo'[q] = todo[q]
      /\ mode'[p] = "refused" => todo'[p] = <<>>
      /\ mode'[p] # "refused" => todo'[p] = s
  BY <1>1, <1>6, <1>7 DEF IInv
<1>9. /\ \A q \in Procs : q # p => Left(q)' = Left(q)
      /\ Left(p) = {}
      /\ mode'[p] = "refused" => Left(p)' = {}
      /\ mode'[p] # "refused" => Left(p)' = Range(s)
  BY <1>1, <1>8 DEF Left, Range
<1>10. \A q \in Procs : mode'[q] \notin {"opening", "opening_read_only"} => todo'[q] = <<>>
  BY <1>7, <1>8 DEF IInv, TypeOK
<1>11. TypeOK'
  BY <1>1, <1>7, <1>10 DEF IInv, TypeOK
<1>12. ASSUME NEW q \in Procs, q # p
       PROVE  PlanInv(q)'
  <2>1. PlanInv(q) /\ Grows(disk, disk')
    BY <1>1 DEF IInv, Grows
  <2>2. QED
    BY <1>1, <1>2, <1>7, <1>8, <1>12, <2>1, PlanKept
<1>13. PlanInv(p)'
  <2>1. CASE mode'[p] = "refused"
    BY <1>8, <2>1, PlanOfIdle
  <2>2. CASE mode'[p] # "refused"
    <3>1. Left(p)' = Range(s) /\ todo'[p] = s /\ Opening(p)' /\ mode'[p] # "ready"
      BY <1>7, <1>8, <1>9, <2>2 DEF Opening
    <3>2. DiskInv /\ v = Version
      BY <1>5 DEF IInv, Version
    <3>3. Ordered(todo[p])'
      BY <1>6, <3>1 DEF Ordered, OnlyAfter
    <3>4. ~NoTable /\ ~disk.project => AddProject \in Range(s)
      BY <1>6, <3>2 DEF DiskInv
    <3>5. ~NoTable /\ ~disk.fleet => RebuildTable \in Range(s)
      BY <1>6, <3>2 DEF DiskInv
    <3>6. \A o \in Objects : Create(o) \in Range(s)
      BY <1>6 DEF Creates
    <3>7. NoTable => AddProject \notin Range(s) /\ RebuildTable \notin Range(s)
                     /\ \A w \in 1..5 : SetVersion(w) \notin Range(s)
      BY <1>6, <3>2 DEF DiskInv, Current
    <3>8. AddProject \in Range(s) \/ RebuildTable \in Range(s) => RebuildIndex \in Range(s)
      BY <1>6
    <3>9. \A w \in 5..Current : SetVersion(w) \in Range(s) =>
            \A k \in MetaKeys : disk.meta[k] # 0 \/ \E x \in 1..Current : Set(k, x) \in Range(s)
      BY <1>6, <3>2 DEF DiskInv, Current
    <3>10. NoTable' <=> NoTable
      BY <1>1 DEF NoTable
    <3>11. SetVersion(Current) \in Range(s) =>
             "memory_labels" \in disk.objects \/ disk.rows = {} \/ LabelsFirst(s)
      <4>1. SUFFICES ASSUME SetVersion(Current) \in Range(s)
                     PROVE  "memory_labels" \in disk.objects \/ disk.rows = {} \/ LabelsFirst(s)
        OBVIOUS
      <4>2. v \in 0..5
        BY <1>6, <4>1 DEF Current
      <4>3. QED
        BY <1>6, <3>2, <4>2 DEF DiskInv
    <3>12. LabelsFirst(todo[p])' <=> LabelsFirst(s)
      BY <3>1 DEF LabelsFirst
    <3>13. QED
      BY <1>1, <3>1, <3>3, <3>4, <3>5, <3>6, <3>7, <3>8, <3>9, <3>10, <3>11, <3>12 DEF PlanInv
  <2>3. QED
    BY <2>1, <2>2
<1>14. NewerInv'
  <2>1. NewerInv /\ Version' = Version /\ Version = v /\ Demands(disk.meta)' = Demands(disk.meta)
    BY <1>1, <1>5 DEF IInv, Version, Demands
  <2>2. Version > Current => \A q \in Procs : Left(q)' \subseteq Creates
    BY <1>6, <1>9, <2>1 DEF NewerInv, Current
  <2>3. Version > Current /\ Demands(disk.meta).writer > Current =>
          Refused(disk.meta) \/ ReadOnly(disk.meta)
    <3>1. Demands(disk.meta).writer \in Nat /\ Demands(disk.meta).reader \in Nat
      BY <1>2 DEF Demands, Disk, MetaKeys
    <3>2. QED
      BY <3>1 DEF Refused, ReadOnly, Version, Current
  <2>4. \A q \in Procs : mode'[q] = "opening_read_only" => Version > Current
    BY <1>7, <2>1 DEF NewerInv, ReadOnly, Version
  <2>5. Version > Current /\ Demands(disk.meta).writer > Current =>
          \A q \in Procs : mode'[q] \notin {"opening", "ready"}
    BY <1>7, <2>1, <2>3 DEF NewerInv
  <2>6. QED
    BY <1>1, <2>1, <2>2, <2>4, <2>5 DEF NewerInv
<1>15. SeedInv' /\ IndexInv'
  BY <1>1, <1>9, PromisesKept
<1>16. QED
  BY <1>3, <1>8, <1>11, <1>12, <1>13, <1>14, <1>15 DEF IInv

\* Fail and Crash: what was planned is forgotten.
LEMMA DroppedKeeps ==
  ASSUME IInv, NEW p \in Procs, mode' = [mode EXCEPT ![p] = "closed"],
         todo' = [todo EXCEPT ![p] = <<>>], disk' = disk, crashes' \in 0..MaxCrashes,
         crashes' = 0 => crashes = 0 /\ (~Sure(p) \/ Left(p) = {})
  PROVE  IInv'
<1>1. mode'[p] = "closed" /\ todo'[p] = <<>>
      /\ \A q \in Procs : q # p => mode'[q] = mode[q] /\ todo'[q] = todo[q]
  BY DEF IInv, TypeOK
<1>2. todo' \in [Procs -> Seq(Stmts)]
  BY PartsOfPlans DEF IInv
<1>3. TypeOK'
  BY <1>1 DEF IInv, TypeOK
<1>4. DiskInv'
  BY DEF IInv, DiskInv, NoTable, Version
<1>5. \A q \in Procs : PlanInv(q)'
  <2>1. ASSUME NEW q \in Procs, q # p
        PROVE  PlanInv(q)'
    <3>1. PlanInv(q) /\ Grows(disk, disk') /\ disk' \in Disk
      BY TypedDisk DEF IInv, Grows
    <3>2. QED
      BY <1>1, <2>1, <3>1, PlanKept
  <2>2. PlanInv(p)'
    BY <1>1, PlanOfIdle
  <2>3. QED
    BY <2>1, <2>2
<1>6. Left(p)' = {} /\ \A q \in Procs : q # p => Left(q)' = Left(q)
  BY <1>1 DEF Left, Range
<1>7. NewerInv'
  <2>1. NewerInv /\ Version' = Version /\ Demands(disk.meta)' = Demands(disk.meta)
    BY DEF IInv, Version, Demands
  <2>2. \A q \in Procs : Left(q)' \subseteq Left(q)
    BY <1>6
  <2>3. QED
    BY <1>1, <2>1, <2>2 DEF NewerInv
<1>8. SeedInv' /\ IndexInv'
  BY <1>6, PromisesKept
<1>9. QED
  BY <1>2, <1>3, <1>4, <1>5, <1>7, <1>8 DEF IInv

LEMMA FailKeeps ==
  ASSUME IInv, NEW p \in Procs, Fail(p)
  PROVE  IInv'
<1>1. AddProject \in Left(p)
  <2>1. todo[p] # <<>> /\ Raises(disk, Head(todo[p]))
    BY DEF Fail
  <2>2. Head(todo[p]) = AddProject
    BY <2>1, OnlyTwiceRaises
  <2>3. QED
    BY <2>1, <2>2, NextStatement
<1>2. QED
  BY <1>1, DroppedKeeps DEF Fail, Goto, Sure, IInv, TypeOK

LEMMA CrashKeeps ==
  ASSUME IInv, NEW p \in Procs, Crash(p)
  PROVE  IInv'
<1>1. crashes' \in 0..MaxCrashes /\ crashes' # 0
  BY UpgradeAssumption DEF Crash, IInv, TypeOK
<1>2. QED
  BY <1>1, DroppedKeeps DEF Crash, Goto

\* Opened and Close: only the mode changes.
LEMMA ModeKeeps ==
  ASSUME IInv, NEW p \in Procs, Opened(p) \/ Close(p)
  PROVE  IInv'
<1>1. /\ disk' = disk /\ todo' = todo /\ crashes' = crashes /\ todo[p] = <<>>
      /\ \A q \in Procs : q # p => mode'[q] = mode[q]
      /\ mode' \in [Procs -> {"closed", "opening", "opening_read_only",
                              "ready", "read_only", "refused"}]
      /\ mode'[p] \in {"ready", "read_only", "closed"}
      /\ mode'[p] = "ready" => mode[p] = "opening"
  BY DEF IInv, TypeOK, Opened, Close, Goto
<1>2. todo' \in [Procs -> Seq(Stmts)] /\ TypeOK'
  BY <1>1 DEF IInv, TypeOK
<1>3. DiskInv'
  BY <1>1 DEF IInv, DiskInv, NoTable, Version
<1>4. Left(p) = {} /\ \A q \in Procs : Left(q)' = Left(q)
  BY <1>1 DEF Left, Range
<1>5. ASSUME mode'[p] = "ready"
      PROVE  disk.project /\ disk.fleet /\ disk.objects = Objects
  <2>1. PlanInv(p) /\ Opening(p) /\ disk \in Disk
    BY <1>1, <1>5, TypedDisk DEF IInv, Opening
  <2>2. disk.objects = Objects
    BY <1>4, <2>1 DEF PlanInv, Disk
  <2>3. ~NoTable
    BY <2>2 DEF NoTable, Objects
  <2>4. QED
    BY <1>4, <2>1, <2>2, <2>3 DEF PlanInv
<1>6. \A q \in Procs : PlanInv(q)'
  <2>1. ASSUME NEW q \in Procs, q # p
        PROVE  PlanInv(q)'
    <3>1. PlanInv(q) /\ Grows(disk, disk') /\ disk' \in Disk
      BY <1>1, TypedDisk DEF IInv, Grows
    <3>2. QED
      BY <1>1, <2>1, <3>1, PlanKept
  <2>2. CASE mode'[p] = "ready"
    <3>1. Left(p)' = {} /\ ~Opening(p)' /\ Ordered(todo[p])'
      BY <1>1, <1>4, <2>2 DEF Opening, Ordered, OnlyAfter
    <3>2. PlanInv(p)'
      BY <1>1, <1>5, <2>2, <3>1 DEF PlanInv
    <3>3. QED
      BY <2>1, <3>2
  <2>3. CASE mode'[p] # "ready"
    <3>1. PlanInv(p)'
      BY <1>1, <2>3, PlanOfIdle
    <3>2. QED
      BY <2>1, <3>1
  <2>4. QED
    BY <2>2, <2>3
<1>7. NewerInv'
  <2>1. NewerInv /\ Version' = Version /\ Demands(disk.meta)' = Demands(disk.meta)
    BY <1>1 DEF IInv, Version, Demands
  <2>2. QED
    BY <1>1, <1>4, <2>1 DEF NewerInv
<1>8. SeedInv' /\ IndexInv'
  BY <1>1, <1>4, PromisesKept
<1>9. QED
  BY <1>2, <1>3, <1>6, <1>7, <1>8 DEF IInv

\* Insert and Delete: only rows and index change, together.
LEMMA RowsKeep ==
  ASSUME IInv, NEW p \in Procs, mode[p] = "ready", disk' \in Disk,
         disk'.meta = disk.meta, disk'.objects = disk.objects,
         disk'.project = disk.project, disk'.fleet = disk.fleet,
         IsFiniteSet(disk'.rows), Unique(disk'.rows),
         disk.fts = Indexed(disk.rows) => disk'.fts = Indexed(disk'.rows),
         mode' = mode, todo' = todo, crashes' = crashes
  PROVE  IInv'
<1>1. disk.project /\ disk.fleet /\ disk.objects = Objects
  BY DEF IInv, PlanInv
<1>2. ~NoTable /\ ~NoTable' /\ "memory_labels" \in disk'.objects
  BY <1>1 DEF NoTable, Objects
<1>3. todo' \in [Procs -> Seq(Stmts)] /\ TypeOK'
  BY DEF IInv, TypeOK, Disk, Row
<1>4. DiskInv'
  <2>1. DiskInv /\ Version' = Version
    BY DEF IInv, Version
  <2>2. QED
    BY <1>1, <1>2, <2>1 DEF DiskInv, Unique
<1>5. ASSUME NEW q \in Procs
      PROVE  PlanInv(q)'
  <2>1. PlanInv(q) /\ Grows(disk, disk')
    BY <1>2 DEF IInv, Grows
  <2>2. QED
    BY <2>1, PlanKept
<1>6. \A q \in Procs : Left(q)' = Left(q)
  BY DEF Left, Range
<1>7. NewerInv'
  <2>1. NewerInv /\ Version' = Version /\ Demands(disk.meta)' = Demands(disk.meta)
    BY DEF IInv, Version, Demands
  <2>2. QED
    BY <1>6, <2>1 DEF NewerInv
<1>8. SeedInv' /\ IndexInv'
  BY <1>1, <1>6, PromisesKept
<1>9. QED
  BY <1>3, <1>4, <1>5, <1>7, <1>8 DEF IInv

LEMMA InsertKeeps ==
  ASSUME IInv, NEW p \in Procs, NEW m \in Mems, Insert(p, m)
  PROVE  IInv'
<1>1. PICK r : r = NextRowid(disk.rows)
  OBVIOUS
<1>2. PICK n : n = [rowid |-> r, mem |-> m, project |-> "own"]
  OBVIOUS
<1>3. /\ mode[p] = "ready" /\ mode' = mode /\ todo' = todo /\ crashes' = crashes
      /\ disk' = [disk EXCEPT !.rows = disk.rows \union {n}, !.fts = disk.fts \union {<<r, m>>}]
  BY <1>1, <1>2 DEF Insert, NextRowid
<1>4. disk \in Disk /\ disk.rows \in SUBSET Row /\ IsFiniteSet(disk.rows) /\ Unique(disk.rows)
  BY TypedDisk DEF IInv, DiskInv, Unique, Disk
<1>5. r \in Nat /\ \A o \in disk.rows : o.rowid # r
  BY <1>1, <1>4, RowidsGrow
<1>6. n \in Row /\ n.rowid = r /\ n.mem = m
  BY <1>2, <1>5 DEF Row, ProjectIds
<1>7. PICK rows, fts : rows = disk.rows \union {n} /\ fts = disk.fts \union {<<r, m>>}
  OBVIOUS
<1>8. rows \in SUBSET Row /\ fts \in SUBSET (Nat \X Mems)
  BY <1>4, <1>5, <1>6, <1>7 DEF Disk
<1>9. /\ disk' \in Disk /\ disk'.meta = disk.meta /\ disk'.objects = disk.objects
      /\ disk'.project = disk.project /\ disk'.fleet = disk.fleet
      /\ disk'.rows = rows /\ disk'.fts = fts
  BY <1>3, <1>4, <1>7, <1>8 DEF Disk
<1>10. IsFiniteSet(rows)
  BY <1>4, <1>7, FS_AddElement
<1>11. Unique(rows)
  BY <1>4, <1>5, <1>6, <1>7 DEF Unique
<1>12. disk.fts = Indexed(disk.rows) => fts = Indexed(rows)
  BY <1>6, <1>7 DEF Indexed
<1>13. QED
  BY <1>3, <1>9, <1>10, <1>11, <1>12, RowsKeep

LEMMA DeleteKeeps ==
  ASSUME IInv, NEW p \in Procs, NEW m \in disk.rows, Delete(p, m)
  PROVE  IInv'
<1>1. /\ mode[p] = "ready" /\ mode' = mode /\ todo' = todo /\ crashes' = crashes
      /\ disk' = [disk EXCEPT !.rows = disk.rows \ {m}, !.fts = disk.fts \ {<<m.rowid, m.mem>>}]
  BY DEF Delete
<1>2. disk \in Disk /\ disk.rows \in SUBSET Row /\ IsFiniteSet(disk.rows) /\ Unique(disk.rows)
  BY TypedDisk DEF IInv, DiskInv, Unique, Disk
<1>3. PICK rows, fts : rows = disk.rows \ {m} /\ fts = disk.fts \ {<<m.rowid, m.mem>>}
  OBVIOUS
<1>4. rows \in SUBSET Row /\ fts \in SUBSET (Nat \X Mems)
  BY <1>2, <1>3 DEF Disk
<1>5. /\ disk' \in Disk /\ disk'.meta = disk.meta /\ disk'.objects = disk.objects
      /\ disk'.project = disk.project /\ disk'.fleet = disk.fleet
      /\ disk'.rows = rows /\ disk'.fts = fts
  BY <1>1, <1>2, <1>3, <1>4 DEF Disk
<1>6. IsFiniteSet(rows)
  BY <1>2, <1>3, FS_RemoveElement
<1>7. Unique(rows)
  BY <1>2, <1>3 DEF Unique
<1>8. disk.fts = Indexed(disk.rows) => fts = Indexed(rows)
  <2>1. SUFFICES ASSUME disk.fts = Indexed(disk.rows) PROVE fts = Indexed(rows)
    OBVIOUS
  <2>2. \A o \in disk.rows : <<o.rowid, o.mem>> = <<m.rowid, m.mem>> => o = m
    BY <1>2 DEF Unique
  <2>3. QED
    BY <1>3, <2>1, <2>2 DEF Indexed
<1>9. QED
  BY <1>1, <1>5, <1>6, <1>7, <1>8, RowsKeep

LEMMA NextKeepsIInv ==
  ASSUME IInv, [Next]_vars
  PROVE  IInv'
<1>1. CASE UNCHANGED vars
  <2>1. disk' = disk /\ mode' = mode /\ todo' = todo /\ crashes' = crashes
    BY <1>1 DEF vars
  <2>2. \A q \in Procs : Left(q)' = Left(q) /\ (Opening(q)' <=> Opening(q))
    BY <2>1 DEF Left, Range, Opening
  <2>3. (NoTable' <=> NoTable) /\ Version' = Version /\ Demands(disk.meta)' = Demands(disk.meta)
    BY <2>1 DEF NoTable, Version, Demands
  <2>4. TypeOK' /\ todo' \in [Procs -> Seq(Stmts)]
    BY <2>1 DEF IInv, TypeOK
  <2>5. DiskInv'
    BY <2>1, <2>3 DEF IInv, DiskInv
  <2>6. \A q \in Procs : PlanInv(q)'
    <3>1. SUFFICES ASSUME NEW q \in Procs PROVE PlanInv(q)'
      OBVIOUS
    <3>2. PlanInv(q) /\ Grows(disk, disk') /\ disk' \in Disk
      BY <2>1, TypedDisk DEF IInv, Grows
    <3>3. QED
      BY <2>1, <3>2, PlanKept
  <2>7. NewerInv'
    BY <2>1, <2>2, <2>3 DEF IInv, NewerInv
  <2>8. SeedInv' /\ IndexInv'
    BY <2>1, <2>2, PromisesKept
  <2>9. QED
    BY <2>4, <2>5, <2>6, <2>7, <2>8 DEF IInv
<1>2. CASE Next
  <2>1. PICK p \in Procs : \/ Progress(p)
                           \/ Close(p)
                           \/ Crash(p)
                           \/ \E m \in Mems : Insert(p, m)
                           \/ \E m \in disk.rows : Delete(p, m)
    BY <1>2 DEF Next
  <2>2. CASE Open(p)
    BY <2>2, OpenKeeps
  <2>3. CASE Fail(p)
    BY <2>3, FailKeeps
  <2>4. CASE Execute(p)
    BY <2>4, ExecuteKeeps
  <2>5. CASE Opened(p) \/ Close(p)
    BY <2>5, ModeKeeps
  <2>6. CASE Crash(p)
    BY <2>6, CrashKeeps
  <2>7. CASE \E m \in Mems : Insert(p, m)
    BY <2>7, InsertKeeps
  <2>8. CASE \E m \in disk.rows : Delete(p, m)
    BY <2>8, DeleteKeeps
  <2>9. QED
    BY <2>1, <2>2, <2>3, <2>4, <2>5, <2>6, <2>7, <2>8 DEF Progress
<1>3. QED
  BY <1>1, <1>2

-----------------------------------------------------------------------------
(***************************************************************************)
(* The databases connect() may find.                                       *)
(***************************************************************************)

\* Each is one of those an earlier version or this one left, or a newer one.
LEMMA DatabasesAre ==
  ASSUME NEW d \in Databases
  PROVE  \/ \E v \in 0..6, r \in Nat, w \in Nat :
              d = OldDatabase(v, r, w) /\ (v \in 5..6 => r = 1 /\ w # 0)
         \/ \E r \in Nat, w \in Nat, objects \in NewerObjects : d = NewerDatabase(r, w, objects)
<1>1. PICK v \in Starts : d \in LeftBy(v)
  BY DEF Databases
<1>2. v \in 0..7
  BY UpgradeAssumption
<1>3. CASE v \in 0..4
  <2>1. d = OldDatabase(v, 0, 0)
    BY <1>1, <1>3 DEF LeftBy
  <2>2. QED
    BY <1>3, <2>1
<1>4. CASE v = 5
  <2>1. d = OldDatabase(5, 1, 5)
    BY <1>1, <1>4 DEF LeftBy
  <2>2. QED
    BY <2>1
<1>5. CASE v = 6
  <2>1. d \in {OldDatabase(6, 1, w) : w \in {5, 6}}
    BY <1>1, <1>5 DEF LeftBy
  <2>2. PICK w \in {5, 6} : d = OldDatabase(6, 1, w)
    BY <2>1
  <2>3. QED
    BY <2>2
<1>6. CASE v = 7
  <2>1. d \in {NewerDatabase(r, w, o) : r \in {0, 1, 7}, w \in {0, 5, 7}, o \in NewerObjects}
    BY <1>1, <1>6 DEF LeftBy
  <2>2. PICK r \in {0, 1, 7}, w \in {0, 5, 7}, o \in NewerObjects : d = NewerDatabase(r, w, o)
    BY <2>1
  <2>3. QED
    BY <2>2
<1>7. QED
  BY <1>2, <1>3, <1>4, <1>5, <1>6

LEMMA OldRowsAre ==
  ASSUME NEW v \in 0..7, NEW rows, rows = OldRows(v)
  PROVE  /\ rows \in SUBSET Row /\ IsFiniteSet(rows) /\ Unique(rows)
         /\ v < 3 => \A m \in rows : m.project = "none"
<1> DEFINE Made(i) == [rowid |-> 2 * i, mem |-> Old[i],
                       project |-> IF v < 3 THEN "none" ELSE "own"]
<1>1. rows = {Made(i) : i \in DOMAIN Old}
  BY DEF OldRows
<1>2. Old \in Seq(Mems) /\ DOMAIN Old = 1..Len(Old) /\ Len(Old) \in Nat
  BY UpgradeAssumption
<1>3. ASSUME NEW i \in DOMAIN Old
      PROVE  /\ Made(i) \in Row /\ Made(i).rowid = 2 * i
             /\ v < 3 => Made(i).project = "none"
  BY <1>2 DEF Row, ProjectIds
<1>4. IsFiniteSet(rows)
  <2>1. IsFiniteSet(DOMAIN Old)
    BY <1>2, FS_Interval
  <2>2. [i \in DOMAIN Old |-> Made(i)] \in Surjection(DOMAIN Old, rows)
    BY <1>1 DEF Surjection
  <2>3. QED
    BY <2>1, <2>2, FS_Surjection
<1> HIDE DEF Made
<1>5. Unique(rows)
  <2>1. SUFFICES ASSUME NEW i \in DOMAIN Old, NEW j \in DOMAIN Old,
                        Made(i).rowid = Made(j).rowid
                 PROVE  Made(i) = Made(j)
    BY <1>1 DEF Unique
  <2>2. 2 * i = 2 * j /\ i \in Nat /\ j \in Nat
    BY <1>2, <1>3, <2>1
  <2>3. i = j
    BY <2>2
  <2>4. QED
    BY <2>3
<1>6. QED
  BY <1>1, <1>3, <1>4, <1>5

LEMMA KeysAre ==
  ASSUME NEW v \in Nat, NEW r \in Nat, NEW w \in Nat, NEW keys, keys = MetaOf(v, r, w)
  PROVE  /\ keys \in [MetaKeys -> Nat] /\ keys["schema_version"] = v
         /\ v # 0 /\ r # 0 /\ w # 0 => \A k \in MetaKeys : keys[k] # 0
  BY DEF MetaOf, MetaKeys

\* What an earlier version or this one left.
OldFacts(d, v) ==
  /\ d \in Disk /\ IsFiniteSet(d.rows) /\ Unique(d.rows)
  /\ d.meta["schema_version"] = v
  /\ v \in 5..6 => \A k \in MetaKeys : d.meta[k] # 0
  /\ (d.project <=> v >= 3) /\ (d.fleet <=> v >= 4)
  /\ "memories" \in d.objects <=> v # 0
  /\ v = 0 => d.rows = {} /\ d.fts = {}
  /\ v < 3 => \A m \in d.rows : m.project = "none"
  /\ v >= 3 => d.fts = Indexed(d.rows)
  /\ v = 6 => d.objects = Objects

LEMMA OldIs ==
  ASSUME NEW v \in 0..6, NEW r \in Nat, NEW w \in Nat, v \in 5..6 => r = 1 /\ w # 0,
         NEW d, d = OldDatabase(v, r, w)
  PROVE  OldFacts(d, v)
<1>1. PICK old, keys : old = OldRows(v) /\ keys = MetaOf(v, r, w)
  OBVIOUS
<1>2. /\ old \in SUBSET Row /\ IsFiniteSet(old) /\ Unique(old)
      /\ v < 3 => \A m \in old : m.project = "none"
  BY <1>1, OldRowsAre
<1>3. /\ keys \in [MetaKeys -> Nat] /\ keys["schema_version"] = v
      /\ v \in 5..6 => \A k \in MetaKeys : keys[k] # 0
  <2>1. v \in Nat /\ (v \in 5..6 => v # 0 /\ r # 0 /\ w # 0)
    OBVIOUS
  <2>2. QED
    BY <1>1, <2>1, KeysAre
<1>4. PICK objects, rows, fts : objects = d.objects /\ rows = d.rows /\ fts = d.fts
  OBVIOUS
<1>5. /\ d = [meta |-> keys, objects |-> objects, project |-> v >= 3, fleet |-> v >= 4,
              rows |-> rows, fts |-> fts]
      /\ rows = IF v = 0 THEN {} ELSE old
      /\ fts = IF v < 3 THEN {} ELSE Indexed(old)
  BY <1>1, <1>4 DEF OldDatabase
<1>6. /\ objects \subseteq Objects
      /\ "memories" \in objects <=> v # 0
      /\ v = 6 => objects = Objects
  <2>1. objects = CASE v = 0 -> {}
                    [] v \in {1, 2} -> {"memories"}
                    [] v \in 3..5 -> Objects \ {"memory_labels"}
                    [] v = 6 -> Objects
    BY <1>4 DEF OldDatabase
  <2>2. CASE v = 0
    BY <2>1, <2>2
  <2>3. CASE v \in {1, 2}
    BY <2>1, <2>3 DEF Objects
  <2>4. CASE v \in 3..5
    BY <2>1, <2>4 DEF Objects
  <2>5. CASE v = 6
    BY <2>1, <2>5 DEF Objects
  <2>6. QED
    BY <2>2, <2>3, <2>4, <2>5
<1>7. rows \in SUBSET Row /\ fts \in SUBSET (Nat \X Mems)
  BY <1>2, <1>5, IndexedRows
<1>8. d \in Disk
  BY <1>3, <1>5, <1>6, <1>7 DEF Disk
<1>9. IsFiniteSet(rows) /\ Unique(rows)
  BY <1>2, <1>5, FS_EmptySet DEF Unique
<1>10. /\ d.meta = keys /\ d.objects = objects /\ (d.project <=> v >= 3)
       /\ (d.fleet <=> v >= 4) /\ d.rows = rows /\ d.fts = fts
  BY <1>1, <1>4 DEF OldDatabase
<1>11. /\ v = 0 => rows = {} /\ fts = {}
       /\ v < 3 => \A m \in rows : m.project = "none"
       /\ v >= 3 => fts = Indexed(rows)
  BY <1>2, <1>5
<1>12. QED
  BY <1>3, <1>6, <1>8, <1>9, <1>10, <1>11 DEF OldFacts

\* What a newer version left.
LEMMA NewerIs ==
  ASSUME NEW r \in Nat, NEW w \in Nat, NEW o \in NewerObjects,
         NEW d, d = NewerDatabase(r, w, o)
  PROVE  /\ d \in Disk /\ IsFiniteSet(d.rows) /\ Unique(d.rows)
         /\ d.meta["schema_version"] = 7
         /\ "memories" \in d.objects => d.project /\ d.fleet
         /\ "memories" \notin d.objects => d.rows = {} /\ d.fts = {}
<1>1. PICK old, keys : old = OldRows(7) /\ keys = MetaOf(7, r, w)
  OBVIOUS
<1>2. old \in SUBSET Row /\ IsFiniteSet(old) /\ Unique(old)
  BY <1>1, OldRowsAre
<1>3. keys \in [MetaKeys -> Nat] /\ keys["schema_version"] = 7
  BY <1>1, KeysAre
<1>4. PICK rows, fts : rows = d.rows /\ fts = d.fts
  OBVIOUS
<1>5. /\ d = [meta |-> keys, objects |-> o, project |-> "memories" \in o,
              fleet |-> "memories" \in o, rows |-> rows, fts |-> fts]
      /\ rows = IF "memories" \in o THEN old ELSE {}
      /\ fts = IF "memories_fts" \in o THEN Indexed(rows) ELSE {}
  BY <1>1, <1>4 DEF NewerDatabase
<1>6. rows \in SUBSET Row /\ fts \in SUBSET (Nat \X Mems)
  BY <1>2, <1>5, IndexedRows
<1>7. o \in SUBSET Objects
  BY DEF NewerObjects
<1>8. d \in Disk
  BY <1>3, <1>5, <1>6, <1>7 DEF Disk
<1>9. IsFiniteSet(rows) /\ Unique(rows)
  BY <1>2, <1>5, FS_EmptySet DEF Unique
<1>10. "memories" \notin o => fts = {}
  BY <1>5 DEF Indexed
<1>11. /\ d.meta = keys /\ d.objects = o /\ d.rows = rows /\ d.fts = fts
       /\ "memories" \in o => d.project /\ d.fleet
       /\ "memories" \notin o => rows = {}
  BY <1>1, <1>4, <1>5 DEF NewerDatabase
<1>12. QED
  BY <1>3, <1>8, <1>9, <1>10, <1>11

LEMMA InitIInv ==
  ASSUME Init
  PROVE  IInv
<1>1. disk \in Databases /\ crashes = 0
      /\ mode = [p \in Procs |-> "closed"] /\ todo = [p \in Procs |-> <<>>]
  BY DEF Init
<1>2. /\ disk \in Disk /\ IsFiniteSet(disk.rows) /\ Unique(disk.rows)
      /\ Version \in 0..7
      /\ Version \in 5..6 => \A k \in MetaKeys : disk.meta[k] # 0
      /\ NoTable => Version \in {0, 7} /\ disk.rows = {} /\ disk.fts = {}
      /\ Version = 0 => NoTable
      /\ Version = 6 => disk.objects = Objects
      /\ Version <= 6 => (disk.project <=> Version >= 3) /\ (disk.fleet <=> Version >= 4)
      /\ Version = 7 /\ ~NoTable => disk.project /\ disk.fleet
      /\ Version < 3 => \A m \in disk.rows : m.project = "none"
      /\ Version \in 3..6 => disk.fts = Indexed(disk.rows)
  <2>1. CASE \E v \in 0..6, r \in Nat, w \in Nat :
               disk = OldDatabase(v, r, w) /\ (v \in 5..6 => r = 1 /\ w # 0)
    <3>1. PICK v \in 0..6, r \in Nat, w \in Nat :
                 disk = OldDatabase(v, r, w) /\ (v \in 5..6 => r = 1 /\ w # 0)
      BY <2>1
    <3>2. OldFacts(disk, v)
      BY <3>1, OldIs
    <3>3. Version = v
      BY <3>2 DEF Version, OldFacts
    <3>4. QED
      BY <3>2, <3>3 DEF NoTable, OldFacts
  <2>2. CASE \E r \in Nat, w \in Nat, o \in NewerObjects : disk = NewerDatabase(r, w, o)
    <3>1. /\ disk \in Disk /\ IsFiniteSet(disk.rows) /\ Unique(disk.rows)
          /\ disk.meta["schema_version"] = 7
          /\ "memories" \in disk.objects => disk.project /\ disk.fleet
          /\ "memories" \notin disk.objects => disk.rows = {} /\ disk.fts = {}
      BY <2>2, NewerIs
    <3>2. Version = 7
      BY <3>1 DEF Version
    <3>3. QED
      BY <3>1, <3>2 DEF NoTable
  <2>3. QED
    BY <1>1, <2>1, <2>2, DatabasesAre
<1>3. todo \in [Procs -> Seq(Stmts)]
  BY <1>1, PartsOfPlans
<1>4. TypeOK
  BY <1>1, <1>2, UpgradeAssumption DEF TypeOK, Disk, Row
<1>5. DiskInv
  <2>1. ~disk.project => \A m \in disk.rows : m.project = "none"
    BY <1>2
  <2>2. Version \in {0, Current} => "memory_labels" \in disk.objects \/ disk.rows = {}
    BY <1>2 DEF Current, Objects
  <2>3. QED
    BY <1>2, <2>1, <2>2 DEF DiskInv, Unique
<1>6. \A p \in Procs : Left(p) = {} /\ ~Opening(p) /\ mode[p] = "closed"
  BY <1>1 DEF Left, Opening, Range
<1>7. \A p \in Procs : PlanInv(p)
  <2>1. \A p \in Procs : Ordered(todo[p])
    BY <1>1 DEF Ordered, OnlyAfter
  <2>2. QED
    BY <1>6, <2>1 DEF PlanInv
<1>8. NewerInv
  BY <1>6 DEF NewerInv
<1>9. SeedInv
  BY <1>2 DEF SeedInv, Current
<1>10. IndexInv
  BY <1>2 DEF IndexInv, Current
<1>11. QED
  BY <1>3, <1>4, <1>5, <1>7, <1>8, <1>9, <1>10 DEF IInv

-----------------------------------------------------------------------------
(***************************************************************************)
(* The theorems.                                                           *)
(***************************************************************************)
\* The invariant of every process that opens the database, and of the file.
THEOREM UpgradeInvariance == Spec => []IInv
<1>1. Init => IInv
  BY InitIInv
<1>2. IInv /\ [Next]_vars => IInv'
  BY NextKeepsIInv
<1>3. QED
  BY <1>1, <1>2, PTL DEF Spec

\* The variables have their types.
THEOREM TypeCorrect == Spec => []TypeOK
<1>1. IInv => TypeOK
  BY DEF IInv
<1>2. QED
  BY <1>1, UpgradeInvariance, PTL

\* Somebody who still has a statement to execute while nobody opens the database to
\* write is looking at a newer one.
LEMMA WorkIsOpening ==
  ASSUME IInv, NobodyOpens, NEW p \in Procs, NEW x \in Left(p)
  PROVE  Version > Current /\ x \in Creates
<1>1. todo[p] # <<>>
  BY DEF Left, Range
<1>2. mode[p] = "opening_read_only"
  BY <1>1 DEF IInv, TypeOK, NobodyOpens
<1>3. QED
  BY <1>2 DEF IInv, NewerInv

\* The version on disk promises no table and no column that the file lacks, unless
\* the database is being created and empty; and an up-to-date database has all its
\* tables and the keys that other versions need, unless somebody died.
THEOREM VersionsAreTrue == Spec => []VersionTruthful
<1>1. ASSUME IInv PROVE VersionTruthful
  <2>1. DiskInv /\ disk \in Disk /\ Version \in Nat
    BY <1>1, TypedDisk DEF IInv, Version, Disk, MetaKeys
  <2>2. ASSUME Version <= Current, ~BeingCreated
        PROVE  /\ Version >= 1 => "memories" \in disk.objects
               /\ Version >= 3 => disk.project
               /\ Version >= 4 => disk.fleet
               /\ Version >= 6 => "memory_labels" \in disk.objects
    <3>1. Version = Current => disk.rows # {} \/ disk.objects = Objects
      BY <2>2 DEF BeingCreated
    <3>2. Version >= 1 => ~NoTable
      BY <2>1, <2>2, <3>1 DEF DiskInv, NoTable, Current, Objects
    <3>3. Version >= 6 => "memory_labels" \in disk.objects
      BY <2>1, <2>2, <3>1 DEF DiskInv, Current, Objects
    <3>4. QED
      BY <2>1, <3>2, <3>3 DEF DiskInv, NoTable
  <2>3. UpgradeFinished
    <3>1. SUFFICES ASSUME crashes = 0, NobodyOpens, Version = Current
                   PROVE  disk.objects = Objects /\ \A k \in MetaKeys : disk.meta[k] # 0
      BY DEF UpgradeFinished
    <3>2. \A p \in Procs : Left(p) = {}
      BY <1>1, <3>1, WorkIsOpening DEF Current
    <3>3. (\A k \in MetaKeys : disk.meta[k] # 0) /\ \A o \in Objects : o \in disk.objects
      BY <1>1, <3>1, <3>2 DEF IInv, SeedInv
    <3>4. QED
      BY <2>1, <3>3 DEF Disk
  <2>4. QED
    BY <2>2, <2>3 DEF VersionTruthful
<1>2. QED
  BY <1>1, UpgradeInvariance, PTL

\* Whoever has got through connect() finds the whole schema.
THEOREM ReadyMeansComplete == Spec => []ReadyComplete
<1>1. IInv => ReadyComplete
  BY DEF IInv, PlanInv, ReadyComplete
<1>2. QED
  BY <1>1, UpgradeInvariance, PTL

\* The full-text index is right once the upgrades are through, unless somebody died.
THEOREM IndexEndsAligned == Spec => []IndexAligned
<1>1. ASSUME IInv PROVE IndexAligned
  <2>1. SUFFICES ASSUME crashes = 0, NobodyOpens, Version <= Current,
                        NEW q \in Procs, mode[q] = "ready"
                 PROVE  disk.fts = Indexed(disk.rows)
    BY DEF IndexAligned
  <2>2. disk.project
    BY <1>1, <2>1 DEF IInv, PlanInv
  <2>3. \A p \in Procs : RebuildIndex \notin Left(p)
    <3>1. RebuildIndex \notin Creates
      BY StatementsDiffer DEF Creates
    <3>2. QED
      BY <1>1, <2>1, <3>1, WorkIsOpening
  <2>4. QED
    BY <1>1, <2>1, <2>2, <2>3 DEF IInv, IndexInv
<1>2. QED
  BY <1>1, UpgradeInvariance, PTL

\* No statement of an upgrade, be it repeated or executed beside another process's,
\* loses a memory, makes two of one or one of two, or moves its project.
THEOREM UpgradesKeepRows == Spec => UpgradeKeepsRows
<1> DEFINE Kept == todo' # todo =>
             \E f \in Bijection(disk.rows, disk'.rows) :
               \A o \in disk.rows : SameMemory(o, f[o])
<1>1. ASSUME NEW d, NEW e, e = d
      PROVE  \E f \in Bijection(d, e) : \A o \in d : SameMemory(o, f[o])
  <2>1. PICK f : f = [o \in d |-> o]
    OBVIOUS
  <2>2. f \in [d -> e] /\ \A o \in d : f[o] = o
    BY <1>1, <2>1
  <2>3. f \in Bijection(d, e)
    <3>1. (\A a, b \in d : f[a] = f[b] => a = b) /\ \A t \in e : \E a \in d : f[a] = t
      BY <1>1, <2>2
    <3>2. QED
      BY <2>2, <3>1, BijectionOf
  <2>4. QED
    BY <2>2, <2>3 DEF SameMemory
<1>2. ASSUME IInv, [Next]_vars PROVE [Kept]_vars
  <2>1. CASE disk' = disk
    <3>1. disk'.rows = disk.rows
      BY <2>1
    <3>2. QED
      BY <1>1, <3>1
  <2>2. CASE todo' = todo
    BY <2>2
  <2>3. ASSUME NEW p \in Procs, Execute(p)
        PROVE  Kept
    <3>1. PICK h : h = Head(todo[p])
      OBVIOUS
    <3>2. PICK e : e = Effect(disk, h)
      OBVIOUS
    <3>3. /\ h \in Stmts /\ disk \in Disk /\ IsFiniteSet(disk.rows) /\ Unique(disk.rows)
          /\ disk' = e /\ ~Raises(disk, h)
      BY <1>2, <2>3, <3>1, <3>2, ExecuteIs
    <3>4. /\ h \notin {AddProject, RebuildTable} => e.rows = disk.rows
          /\ h = AddProject =>
               \E f \in Bijection(disk.rows, e.rows) :
                 \A m \in disk.rows : f[m].mem = m.mem /\ f[m].project = "default"
          /\ h = RebuildTable =>
               \E f \in Bijection(disk.rows, e.rows) :
                 \A m \in disk.rows : f[m].mem = m.mem /\ f[m].project = m.project
      BY <3>2, <3>3, Effects
    <3>5. h = AddProject => \A m \in disk.rows : m.project = "none"
      BY <1>2, <3>3, RaisesWhen DEF IInv, DiskInv
    <3>6. CASE h = AddProject
      BY <3>3, <3>4, <3>5, <3>6 DEF SameMemory
    <3>7. CASE h = RebuildTable
      BY <3>3, <3>4, <3>7 DEF SameMemory
    <3>8. CASE h \notin {AddProject, RebuildTable}
      <4>1. disk'.rows = disk.rows
        BY <3>3, <3>4, <3>8
      <4>2. QED
        BY <1>1, <4>1
    <3>9. QED
      BY <3>6, <3>7, <3>8
  <2>4. disk' = disk \/ todo' = todo \/ \E p \in Procs : Execute(p)
    <3>1. CASE UNCHANGED vars
      BY <3>1 DEF vars
    <3>2. CASE Next
      BY <3>2 DEF Next, Progress, Open, Fail, Opened, Close, Crash, Insert, Delete
    <3>3. QED
      BY <1>2, <3>1, <3>2
  <2>5. QED
    BY <2>1, <2>2, <2>3, <2>4
<1>3. QED
  BY <1>2, UpgradeInvariance, PTL DEF Spec, UpgradeKeepsRows

\* A database that asks for a newer writer keeps its memories, its index, its columns
\* and its _meta, whatever processes that open it create in it.
THEOREM NewerIsKept == Spec => NewerKept
<1> DEFINE Kept == AsksForNewer =>
       /\ disk'.meta = disk.meta /\ disk'.rows = disk.rows /\ disk'.fts = disk.fts
       /\ disk.objects \subseteq disk'.objects
       /\ "memories" \in disk.objects =>
            disk'.project = disk.project /\ disk'.fleet = disk.fleet
<1>1. ASSUME IInv, [Next]_vars PROVE [Kept]_vars
  <2>1. SUFFICES ASSUME AsksForNewer, Next
                 PROVE  Kept
    BY <1>1 DEF vars
  <2>2. \A p \in Procs : mode[p] # "ready"
    BY <1>1, <2>1 DEF IInv, NewerInv, AsksForNewer
  <2>3. ASSUME NEW p \in Procs, Execute(p)
        PROVE  Kept
    <3>1. disk \in Disk
      BY <1>1, TypedDisk DEF IInv
    <3>2. PICK o \in Objects : disk' = EffectOfCreate(disk, o)
      BY <1>1, <2>1, <2>3, ExecuteNewer DEF AsksForNewer
    <3>3. CASE o = "memories" /\ o \notin disk.objects
      <4>1. disk' = [disk EXCEPT !.objects = disk.objects \union {o},
                                 !.project = TRUE, !.fleet = TRUE]
        BY <3>2, <3>3 DEF EffectOfCreate
      <4>2. QED
        BY <3>1, <3>3, <4>1 DEF Disk
    <3>4. CASE ~(o = "memories" /\ o \notin disk.objects)
      <4>1. disk' = [disk EXCEPT !.objects = disk.objects \union {o}]
        BY <3>2, <3>4 DEF EffectOfCreate
      <4>2. QED
        BY <3>1, <4>1 DEF Disk
    <3>5. QED
      BY <3>3, <3>4
  <2>4. disk' = disk \/ \E p \in Procs : Execute(p)
    BY <2>1, <2>2 DEF Next, Progress, Open, Fail, Opened, Close, Crash, Insert, Delete
  <2>5. QED
    BY <2>3, <2>4
<1>2. QED
  BY <1>1, UpgradeInvariance, PTL DEF Spec, NewerKept
=============================================================================
