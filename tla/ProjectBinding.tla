--------------------------- MODULE ProjectBinding ---------------------------
(***************************************************************************)
(* Which directory a process works in, for which project.  A process has   *)
(* REMAGRAPH_STATE_DIR or not; a directory may have a project.json, which  *)
(* `init` writes; the shared registry says where each project was last     *)
(* seen.  The safety valve compares them before a database is opened and   *)
(* again before a memory is stored; what it refuses is itself recorded as  *)
(* a memory.  Commands, servers and migrations run side by side, and every *)
(* file is read and written in a step of its own.                          *)
(*                                                                         *)
(* A memory is its project and how it came: by a store, as the record of a *)
(* refusal, or by a migration.                                             *)
(***************************************************************************)
EXTENDS Naturals, FiniteSets

CONSTANTS
  Callers,      \* commands, servers, migrations
  Projects,     \* project ids other than "default"
  Restricted,   \* those with a prefix in REMAGRAPH_RESTRICTED_PREFIXES
  Default,      \* DEFAULT_PROJECT_ID; also the content of no project.json
  Dirs,         \* state directories
  Shared,       \* DEFAULT_STATE_DIR, which holds the registry, too
  Conv,         \* ~/.local/state/remagraph-<project>
  None,         \* no directory, no project
  Envs,         \* values of REMAGRAPH_STATE_DIR in new processes
  Poisoned,     \* projects an earlier version registered at Shared
  Routes,       \* the <<source, target>> pairs migrations are called with
  MaxMemories,  \* bound: no call begins once this many memories are held
  MaxMigrations \* bound: calls of migrate_project_memories

Names == Projects \union {Default}

ASSUME BindingAssumption ==
  /\ Default \notin Projects /\ None \notin Names \union Dirs
  /\ Restricted \subseteq Projects /\ Poisoned \subseteq Projects
  /\ Shared \in Dirs
  /\ Conv \in [Projects -> Dirs \ {Shared}]
  /\ \A a, b \in Projects : Conv[a] = Conv[b] => a = b
  /\ Envs \subseteq Dirs \union {None}
  /\ Routes \subseteq (Names \X Projects) \ {<<q, q>> : q \in Projects}
  /\ MaxMemories \in Nat /\ MaxMigrations \in Nat

VARIABLES
  meta,        \* the project each directory's project.json names
  exists,      \* the directories there are
  registry,    \* project_registry: where each project was last seen
  held,        \* the memories in the database of each directory
  pc, env,     \* each process, and its REMAGRAPH_STATE_DIR
  server,      \* the project it serves, if it is a server
  call,        \* the arguments and locals of its present call
  migrations   \* calls of migrate_project_memories so far

files == <<meta, exists, registry, held>>
bvars == <<meta, exists, registry, held, pc, env, server, call, migrations>>

Memory == [project : Names, via : {"store", "violation", "migration"}]

\* began is what the project.json files said when the call began (history).
NoCall == [project |-> None, from |-> None, dir |-> None, reason |-> "none",
           began |-> [d \in Dirs |-> Default]]

Reasons == {"none", "missing_remagraph_state_dir", "project_metadata_mismatch",
            "restricted_prefix_using_default_db"}

Steps == {"idle", "connect_valve", "connect_register", "connect", "serving",
          "store_valve", "store_register", "insert", "violation",
          "migrate_resolve", "migrate_register", "migrate", "refused"}

BTypeOK ==
  /\ meta \in [Dirs -> Names] /\ exists \subseteq Dirs
  /\ registry \in [Names -> Dirs \union {None}]
  /\ held \in [Dirs -> SUBSET Memory]
  /\ pc \in [Callers -> Steps]
  /\ env \in [Callers -> Dirs \union {None}]
  /\ server \in [Callers -> Names \union {None}]
  /\ call \in [Callers -> [project : Names \union {None}, from : Names \union {None},
                         dir : Dirs \union {None}, reason : Reasons,
                         began : [Dirs -> Names]]]
  /\ migrations \in 0..MaxMigrations

BInit ==
  /\ meta = [d \in Dirs |-> Default] /\ exists = {Shared}
  /\ registry = [q \in Names |-> IF q \in Poisoned THEN Shared ELSE None]
  /\ held = [d \in Dirs |-> {}]
  /\ pc = [p \in Callers |-> "idle"] /\ env = [p \in Callers |-> None]
  /\ server = [p \in Callers |-> None] /\ call = [p \in Callers |-> NoCall]
  /\ migrations = 0

-----------------------------------------------------------------------------
\* Resolution of directories and the checks on them.

\* get_state_dir: the environment comes before the argument.
StateDir(e, dir) == IF e # None THEN e ELSE IF dir # None THEN dir ELSE Shared

ResolveProjectStateDir(q, e) ==
  IF e # None THEN e ELSE IF meta[Shared] = q THEN Shared ELSE Conv[q]

\* validate_project_metadata
MetadataAgrees(q, dir) == meta[dir] \in {q, Default}

\* Mutant: an entry that points at the shared directory is believed.
PoisonIgnored(q) == FALSE

IsPoisoned(q) == q # Default /\ registry[q] = Shared

\* _resolve_migration_target_state_dir
MigrationTarget(q) ==
  IF Conv[q] \in exists /\ meta[Conv[q]] = q THEN Conv[q]
  ELSE IF registry[q] # None /\ ~IsPoisoned(q) THEN registry[q]
  ELSE Conv[q]

\* _resolve_migration_source_state_dir
MigrationSource(q, e) == IF q = Default THEN StateDir(e, None) ELSE registry[q]

\* safety_validate_project
Verdict(q, e) ==
  CASE e = None -> "missing_remagraph_state_dir"
    [] e # None /\ ~MetadataAgrees(q, e) -> "project_metadata_mismatch"
    [] e # None /\ MetadataAgrees(q, e) /\ q \in Restricted /\ e = Shared ->
         "restricted_prefix_using_default_db"
    [] OTHER -> "none"

-----------------------------------------------------------------------------
GoOn(p, step) == pc' = [pc EXCEPT ![p] = step]

\* A server waits for the next call; any other process ends.
Done(p) ==
  /\ GoOn(p, IF server[p] # None THEN "serving" ELSE "idle")
  /\ env' = IF server[p] # None THEN env ELSE [env EXCEPT ![p] = None]
  /\ call' = [call EXCEPT ![p] = NoCall]

Room == Cardinality(UNION {{d} \X held[d] : d \in Dirs}) < MaxMemories

CallOf(q) == [NoCall EXCEPT !.project = q, !.began = meta]

\* remagraph init
CmdInit(q) ==
  /\ meta' = [meta EXCEPT ![Conv[q]] = q] /\ exists' = exists \union {Conv[q]}
  /\ UNCHANGED <<registry, held, pc, env, server, call, migrations>>

\* remagraph store: main() looks at project.json when a project is named, then
\* cmd_store adopts the conventional directory.
CmdStore(p, q, e) ==
  /\ pc[p] = "idle" /\ Room
  /\ exists' = exists \union {StateDir(e, None)}
  /\ IF q # Default /\ ~MetadataAgrees(q, StateDir(e, None))
     THEN /\ call' = [call EXCEPT ![p] = [CallOf(q) EXCEPT !.dir = StateDir(e, None),
                                            !.reason = "project_metadata_mismatch"]]
          /\ env' = [env EXCEPT ![p] = e]
          /\ GoOn(p, "violation")
     ELSE /\ call' = [call EXCEPT ![p] = CallOf(q)]
          /\ env' = [env EXCEPT ![p] = IF e = None /\ q # Default /\ Conv[q] \in exists
                                       THEN Conv[q] ELSE e]
          /\ GoOn(p, IF q = Default THEN "connect" ELSE "connect_valve")
  /\ UNCHANGED <<meta, registry, held, server, migrations>>

\* remagraph serve --project
BindProject(p, q, e) ==
  /\ pc[p] = "idle" /\ Room
  /\ env' = [env EXCEPT ![p] = e]
  /\ server' = [server EXCEPT ![p] = q]
  /\ call' = [call EXCEPT ![p] = CallOf(q)]
  /\ GoOn(p, "connect_valve")
  /\ UNCHANGED <<meta, exists, registry, held, migrations>>

\* The remagraph_store tool; a call for another project is turned down.
RemagraphStore(p) ==
  /\ pc[p] = "serving" /\ Room
  /\ call' = [call EXCEPT ![p] = CallOf(server[p])]
  /\ GoOn(p, "store_valve")
  /\ UNCHANGED <<meta, exists, registry, held, env, server, migrations>>

Stop(p) ==
  /\ pc[p] = "serving"
  /\ server' = [server EXCEPT ![p] = None]
  /\ env' = [env EXCEPT ![p] = None]
  /\ GoOn(p, "idle")
  /\ UNCHANGED <<meta, exists, registry, held, call, migrations>>

\* safety_validate_project, when it agrees.
Validate(p) ==
  /\ pc[p] \in {"connect_valve", "store_valve"}
  /\ Verdict(call[p].project, env[p]) = "none"
  /\ call' = [call EXCEPT ![p].dir = env[p]]
  /\ exists' = exists \union {env[p]}
  /\ GoOn(p, IF pc[p] = "connect_valve" THEN "connect_register" ELSE "store_register")
  /\ UNCHANGED <<meta, registry, held, env, server, migrations>>

\* Mutant: the directory is registered before it is validated.
RegisterThenRefuse(p) ==
  /\ pc[p] \in {"connect_valve", "store_valve"}
  /\ Verdict(call[p].project, env[p]) # "none"
  /\ LET dir == ResolveProjectStateDir(call[p].project, env[p]) IN
       /\ call' = [call EXCEPT ![p].dir = dir,
                               ![p].reason = Verdict(call[p].project, env[p])]
       /\ exists' = exists \union {dir}
  /\ server' = IF pc[p] = "connect_valve" THEN [server EXCEPT ![p] = None] ELSE server
  /\ GoOn(p, "violation")
  /\ registry' = [registry EXCEPT ![call[p].project] =
                     ResolveProjectStateDir(call[p].project, env[p])]
  /\ UNCHANGED <<meta, held, env, migrations>>

\* safety_validate_project, when it raises; a server that cannot bind ends.
Refuse(p) ==
  /\ pc[p] \in {"connect_valve", "store_valve"}
  /\ Verdict(call[p].project, env[p]) # "none"
  /\ LET dir == ResolveProjectStateDir(call[p].project, env[p]) IN
       /\ call' = [call EXCEPT ![p].dir = dir,
                               ![p].reason = Verdict(call[p].project, env[p])]
       /\ exists' = exists \union {dir}
  /\ server' = IF pc[p] = "connect_valve" THEN [server EXCEPT ![p] = None] ELSE server
  /\ GoOn(p, "violation")
  /\ UNCHANGED <<meta, registry, held, env, migrations>>

Registered == [connect_register |-> "connect", store_register |-> "insert",
               migrate_register |-> "migrate"]

\* The upsert; what fails is swallowed.
RegisterKnownProject(p) ==
  /\ pc[p] \in {"connect_register", "store_register", "migrate_register"}
  /\ registry' \in {registry, [registry EXCEPT ![call[p].project] = call[p].dir]}
  /\ GoOn(p, Registered[pc[p]])
  /\ UNCHANGED <<meta, exists, held, env, server, call, migrations>>

\* The database is opened; process_store validates once more.
Connect(p) ==
  /\ pc[p] = "connect"
  /\ exists' = exists \union {StateDir(env[p], None)}
  /\ GoOn(p, IF server[p] # None THEN "serving" ELSE "store_valve")
  /\ call' = IF server[p] # None THEN [call EXCEPT ![p] = NoCall] ELSE call
  /\ UNCHANGED <<meta, registry, held, env, server, migrations>>

\* The insertion at the end of process_store, on the connection's database.
InsertMemory(p) ==
  /\ pc[p] = "insert"
  /\ held' = [held EXCEPT ![StateDir(env[p], None)] =
                @ \union {[project |-> call[p].project, via |-> "store"]}]
  /\ Done(p)
  /\ UNCHANGED <<meta, exists, registry, server, migrations>>

\* Mutant: a refusal is recorded wherever the environment points.
RecordAnywhere(p) ==
  /\ pc[p] = "violation"
  /\ held' = [held EXCEPT ![call[p].dir] =
                @ \union {[project |-> call[p].project, via |-> "violation"]}]
  /\ Done(p)
  /\ UNCHANGED <<meta, exists, registry, server, migrations>>

\* _record_violation: best effort, and not in a directory of another project.
RecordViolation(p) ==
  /\ pc[p] = "violation"
  /\ \/ /\ MetadataAgrees(call[p].project, call[p].dir)
        /\ held' = [held EXCEPT ![call[p].dir] =
                      @ \union {[project |-> call[p].project, via |-> "violation"]}]
     \/ UNCHANGED held
  /\ Done(p)
  /\ UNCHANGED <<meta, exists, registry, server, migrations>>

-----------------------------------------------------------------------------
\* migrate_project_memories, from the command line or in a server.

MigrateProject(p, from, to, e) ==
  /\ pc[p] \in {"idle", "serving"} /\ Room /\ migrations < MaxMigrations
  /\ env' = IF pc[p] = "idle" THEN [env EXCEPT ![p] = e] ELSE env
  /\ call' = [call EXCEPT ![p] = [CallOf(to) EXCEPT !.from = from]]
  /\ migrations' = migrations + 1
  /\ GoOn(p, "migrate_resolve")
  /\ UNCHANGED <<meta, exists, registry, held, server>>

\* The candidate is found without the environment and then validated by
\* validate_project_metadata, which looks at the environment first.
ResolveMigrationTarget(p) ==
  /\ pc[p] = "migrate_resolve"
  /\ LET to == call[p].project
         candidate == MigrationTarget(to)
         looked == StateDir(env[p], candidate) IN
       /\ exists' = exists \union {looked}
       /\ IF MetadataAgrees(to, looked)
          THEN /\ call' = [call EXCEPT ![p].dir = candidate]
               /\ GoOn(p, "migrate_register")
          ELSE /\ call' = [call EXCEPT ![p].dir = candidate,
                                      ![p].reason = "project_metadata_mismatch"]
               /\ GoOn(p, "refused")
  /\ UNCHANGED <<meta, registry, held, env, server, migrations>>

\* From here on a migration is Migration.tla's; any of the source's memories, or
\* none, may match the target's name.
Migrate(p) ==
  /\ pc[p] = "migrate"
  /\ LET source == MigrationSource(call[p].from, env[p])
         target == call[p].dir IN
       /\ source \notin {None, target}
       /\ exists' = exists \union {source, target}
       /\ \/ /\ held[source] # {}
             /\ held' = [held EXCEPT ![target] =
                           @ \union {[project |-> call[p].project, via |-> "migration"]}]
          \/ UNCHANGED held
  /\ Done(p)
  /\ UNCHANGED <<meta, registry, server, migrations>>

\* The source is not registered, is the target under another name, or has no
\* database.
RefuseSource(p) ==
  /\ pc[p] = "migrate"
  /\ MigrationSource(call[p].from, env[p]) \notin
       {d \in Dirs \ {call[p].dir} : held[d] # {}}
  /\ Done(p)
  /\ UNCHANGED <<meta, exists, registry, held, server, migrations>>

ReportRefusal(p) ==
  /\ pc[p] = "refused"
  /\ Done(p)
  /\ UNCHANGED <<meta, exists, registry, held, server, migrations>>

-----------------------------------------------------------------------------
Begin(p) ==
  \/ \E q \in Names, e \in Envs : CmdStore(p, q, e) \/ BindProject(p, q, e)
  \/ RemagraphStore(p) \/ Stop(p)
  \/ \E route \in Routes, e \in Envs : MigrateProject(p, route[1], route[2], e)

Continue(p) ==
  \/ Validate(p) \/ Refuse(p) \/ RegisterKnownProject(p) \/ Connect(p)
  \/ InsertMemory(p) \/ RecordViolation(p)
  \/ ResolveMigrationTarget(p) \/ Migrate(p) \/ RefuseSource(p) \/ ReportRefusal(p)

BNext ==
  \/ \E q \in Projects : CmdInit(q)
  \/ \E p \in Callers : Begin(p) \/ Continue(p)

BSpec == BInit /\ [][BNext]_bvars

-----------------------------------------------------------------------------
\* What is promised.

Added(d) == held'[d] \ held[d]

\* No call writes a memory of its project, not even the record of its own
\* refusal, into a directory that project.json gave to another project when the
\* call began (safety_validate_project and _record_violation).
AddsUnclaimed ==
  \A d \in Dirs : \A m \in Added(d) :
    m.via # "migration" =>
      \E p \in Callers : /\ call[p].project = m.project
                      /\ call[p].began[d] \in {m.project, Default}
ClaimRespected == [][AddsUnclaimed]_bvars

\* A store or a server registers its project only at a directory that was
\* unclaimed or the project's own when the call began; what the valve refuses
\* leaves the registry as it was; and nothing, not even a migration, registers a
\* restricted project at the shared directory.
RegistersValidated ==
  \A q \in Names : registry'[q] # registry[q] =>
    /\ \E p \in Callers : /\ call[p].project = q
                       /\ \/ pc[p] = "migrate_register"
                          \/ call[p].began[registry'[q]] \in {q, Default}
    /\ q \in Restricted => registry'[q] # Shared
RegistryValidated == [][RegistersValidated]_bvars

\* Neither stores nor migrations put a memory of a restricted project into the
\* shared database, although the registry may say that it lives there.
RestrictedElsewhere ==
  \A m \in held[Shared] : m.project \in Restricted => m.via = "violation"
=============================================================================
