----------------------------- MODULE ServeProcess -----------------------------
(***************************************************************************)
(* `remagraph serve`: a process bound to one project, with one connection  *)
(* that it keeps, and a limiter of the calls each key may make.  Its tools *)
(* run one after the other; between their steps other processes remove the *)
(* database files and make new ones at the same paths, which the kept      *)
(* connection does not follow.                                             *)
(*                                                                         *)
(* Of the memories in a file only their projects are told apart; what a    *)
(* tool does inside a database is left to MemoryStore, Migration and       *)
(* Maintenance.                                                            *)
(***************************************************************************)
EXTENDS Integers, FiniteSets

CONSTANTS
  Projects,
  NoProject,    \* no project named, or no file's project
  Keys,         \* what the limiter counts by: agents, and the tools' own keys
  Requests,     \* what clients ask for
  Window,       \* _RATE_LIMIT_WINDOW, in ticks of the clock
  Max,          \* _RATE_LIMIT_MAX
  Threshold,    \* _RATE_LIMIT_SWEEP_THRESHOLD
  MaxClock,     \* bound: ticks of time.monotonic()
  MaxCalls,     \* bound: calls made
  MaxFiles      \* bound: database files ever made

Tools == {"store", "search", "status", "maintain", "migrate"}

\* `project` is to_project for a migration, and from is its from_project.
Request == [tool : Tools, project : Projects \union {NoProject},
            from : Projects \union {NoProject}, key : Keys]

ASSUME ProjectsAssumption == NoProject \notin Projects
ASSUME RequestsAssumption ==
  /\ Requests \subseteq Request /\ Requests # {}
  /\ \A r \in Requests : r.project = NoProject => r.tool \in {"search", "status"}
  /\ \A r \in Requests : r.tool = "migrate" => r.from \in Projects \ {r.project}
ASSUME LimitsAssumption ==
  /\ Window \in Nat \ {0} /\ Max \in Nat \ {0} /\ Threshold \in Nat
  /\ MaxClock \in Nat /\ MaxCalls \in Nat /\ MaxFiles \in Nat
  /\ IsFiniteSet(Keys)

VARIABLES
  clock,      \* time.monotonic()
  buckets,    \* _buckets; a key that is not in the table has none
  admitted,   \* history: the calls let through, by this process, for each key
  calls,      \* calls made so far
  at,         \* the file at the path of each project's database
  home,       \* the project at whose path each file was made
  held,       \* the projects of the memories in each file
  pc,         \* where the server is
  bound,      \* _bound_project_id
  conn,       \* the file that _conn has open
  call,       \* the request being served
  seen,       \* history: the file at the path when the call looked there
  replaced,   \* history: a file was made at the bound path since the binding
  answer      \* the answer to the last call

limiter == <<clock, buckets, admitted, calls>>
files == <<at, home, held>>
server == <<pc, bound, conn, call, seen, answer>>
vars == <<limiter, files, server, replaced>>

NoFile == 0
Files == 1..MaxFiles
Made == {f \in Files : home[f] # NoProject}
Answers == {"none", "rate_limited", "project_mismatch", "error", "stored", "ok"}

TypeOK ==
  /\ clock \in 0..MaxClock /\ calls \in 0..MaxCalls
  /\ buckets \in [Keys -> SUBSET ((0..clock) \X (1..calls))]
  /\ admitted \in [Keys -> SUBSET ((0..clock) \X (1..calls))]
  /\ home \in [Files -> Projects \union {NoProject}]
  /\ at \in [Projects -> Made \union {NoFile}]
  /\ \A q \in Projects : at[q] # NoFile => home[at[q]] = q
  /\ held \in [Files -> SUBSET Projects]
  /\ pc \in {"down", "ready", "conn", "run", "maintain", "migrate"}
  /\ bound \in Projects \union {NoProject} /\ conn \in Made \union {NoFile}
  /\ pc = "down" <=> bound = NoProject
  /\ pc # "down" => conn \in Made /\ home[conn] = bound
  /\ call \in Requests /\ seen \in Made \union {NoFile}
  /\ replaced \in BOOLEAN /\ answer \in Answers

Init ==
  /\ clock = 0 /\ calls = 0
  /\ buckets = [k \in Keys |-> {}] /\ admitted = [k \in Keys |-> {}]
  /\ at = [q \in Projects |-> NoFile]
  /\ home = [f \in Files |-> NoProject] /\ held = [f \in Files |-> {}]
  /\ pc = "down" /\ bound = NoProject /\ conn = NoFile
  /\ call = (CHOOSE r \in Requests : TRUE) /\ seen = NoFile
  /\ replaced = FALSE /\ answer = "none"

-----------------------------------------------------------------------------
(***************************************************************************)
(* The limiter.  A timestamp is paired with the number of its call, for    *)
(* two calls may read the same time.                                       *)
(***************************************************************************)
Live(stamps, now) == {s \in stamps : s[1] > now - Window}

\* The keys in the table.
Table == {k \in Keys : buckets[k] # {}}

\* Mutant: the table is never swept.
NeverSwept(key) == buckets

\* When the table has grown too large, the keys that are quiet are dropped.
Swept(key) ==
  IF Cardinality(Table) <= Threshold THEN buckets
  ELSE [k \in Keys |-> IF k # key /\ Live(buckets[k], clock) = {} THEN {} ELSE buckets[k]]

\* Mutant: stamps are counted whatever their age.
AllowedOnce(key) == Cardinality(buckets[key]) < Max

Allowed(key) == Cardinality(Live(buckets[key], clock)) < Max

\* check(): the key's own stale stamps go, and its new one comes.
Check(key) ==
  LET live == Live(Swept(key)[key], clock)
      new  == IF Allowed(key) THEN {<<clock, calls + 1>>} ELSE {}
  IN /\ buckets' = [Swept(key) EXCEPT ![key] = live \union new]
     /\ admitted' = [admitted EXCEPT ![key] = @ \union new]

-----------------------------------------------------------------------------
(***************************************************************************)
(* Files.                                                                  *)
(***************************************************************************)

\* f is a file that does not exist yet, or there is no room for another one.
Fresh(f) == f \in Files \ Made /\ \A g \in Files \ Made : f <= g

\* connect() opens what is at the path of q, or makes it.
Connected(q, f) ==
  \/ at[q] # NoFile /\ f = at[q] /\ UNCHANGED <<at, home, replaced>>
  \/ /\ at[q] = NoFile /\ Fresh(f)
     /\ at' = [at EXCEPT ![q] = f]
     /\ home' = [home EXCEPT ![f] = q]
     /\ replaced' = (replaced \/ q = bound)

-----------------------------------------------------------------------------
(***************************************************************************)
(* The server.                                                             *)
(***************************************************************************)

\* Without a project, or when connect() raises, the process ends at once.
RefuseToServe == pc = "down" /\ UNCHANGED vars

\* The connection is made before the first call, with the project's own file.
BindProject(q) ==
  /\ pc = "down"
  /\ \E f \in Files : Connected(q, f) /\ conn' = f
  /\ pc' = "ready" /\ bound' = q /\ answer' = "none"
  /\ buckets' = [k \in Keys |-> {}] /\ admitted' = [k \in Keys |-> {}]
  /\ UNCHANGED <<clock, calls, held, call, seen>>

\* The end of the process, also in the middle of a call.
Exit ==
  /\ pc # "down"
  /\ pc' = "down" /\ bound' = NoProject /\ conn' = NoFile
  /\ replaced' = FALSE /\ seen' = NoFile /\ answer' = "none"
  /\ UNCHANGED <<limiter, files, call>>

Answer(a) == answer' = a /\ pc' = "ready"

\* Mutant: only memories are checked, as before the repair of maintain.
MismatchOfStores(r) == r.tool # "maintain" /\ r.project \notin {bound, NoProject}

\* _check_project_binding; a migration is not checked.
Mismatch(r) == r.tool # "migrate" /\ r.project \notin {bound, NoProject}

\* A tool is called: the limiter comes first, then the binding.
CallTool(r) ==
  /\ pc = "ready" /\ calls < MaxCalls
  /\ calls' = calls + 1
  /\ Check(r.key)
  /\ call' = r
  /\ \/ ~Allowed(r.key) /\ Answer("rate_limited")
     \/ Allowed(r.key) /\ Mismatch(r) /\ Answer("project_mismatch")
     \/ /\ Allowed(r.key) /\ ~Mismatch(r)
        /\ pc' = IF r.tool \in {"maintain", "migrate"} THEN r.tool ELSE "conn"
        /\ answer' = "none"
  /\ UNCHANGED <<clock, files, bound, conn, seen, replaced>>

\* Mutant: SELECT 1 alone, which an unlinked file answers too.
GetConnAlive ==
  /\ pc = "conn"
  /\ seen' = at[bound]
  /\ pc' = "run"
  /\ UNCHANGED <<limiter, files, bound, conn, call, replaced, answer>>

\* The connection is handed out if there is a file at its path, be it another.
GetConn ==
  /\ pc = "conn"
  /\ seen' = at[bound]
  /\ \/ at[bound] = NoFile /\ Answer("error")
     \/ at[bound] # NoFile /\ pc' = "run" /\ UNCHANGED answer
  /\ UNCHANGED <<limiter, files, bound, conn, call, replaced>>

\* process_store on the kept connection, unless it rejects the memory.
Store ==
  /\ pc = "run" /\ call.tool = "store"
  /\ \/ /\ Answer("stored")
        /\ held' = [held EXCEPT ![conn] = @ \union {call.project}]
     \/ Answer("error") /\ UNCHANGED held
  /\ seen' = NoFile
  /\ UNCHANGED <<limiter, at, home, bound, conn, call, replaced>>

\* search_memories and get_status only read.
Read ==
  /\ pc = "run" /\ call.tool \in {"search", "status"}
  /\ Answer("ok") \/ Answer("error")
  /\ seen' = NoFile
  /\ UNCHANGED <<limiter, files, bound, conn, call, replaced>>

\* run_maintenance opens a connection of its own at the path, and prunes there.
Prune(f) ==
  \E old \in SUBSET (held[f] \intersect {call.project}) :
    held' = [held EXCEPT ![f] = @ \ old]

Maintain ==
  /\ pc = "maintain"
  /\ Answer("ok") \/ Answer("error")
  /\ \/ answer' = "error" /\ UNCHANGED <<files, replaced>>
     \/ \E f \in Files : Connected(call.project, f) /\ Prune(f)
  /\ UNCHANGED <<limiter, bound, conn, call, seen>>

\* migrate_project_memories: the target's database is made if there is none;
\* any of the source's memories, or none, go there.
Copy(f) ==
  \/ /\ held[at[call.from]] # {}
     /\ held' = [held EXCEPT ![f] = @ \union {call.project}]
  \/ UNCHANGED held

Migrate ==
  /\ pc = "migrate"
  /\ Answer("ok") \/ Answer("error")
  /\ \/ answer' = "error" /\ UNCHANGED <<files, replaced>>
     \/ /\ at[call.from] # NoFile
        /\ \E f \in Files : Connected(call.project, f) /\ Copy(f)
  /\ UNCHANGED <<limiter, bound, conn, call, seen>>

-----------------------------------------------------------------------------
(***************************************************************************)
(* Time, and other processes.                                              *)
(***************************************************************************)
\* Time passes between calls: nothing but the limiter looks at the clock.
Tick ==
  /\ pc = "ready" /\ clock < MaxClock
  /\ clock' = clock + 1
  /\ UNCHANGED <<buckets, admitted, calls, files, server, replaced>>

\* The database is removed, or moved elsewhere; who has it open keeps it.
Remove(q) ==
  /\ at[q] # NoFile
  /\ at' = [at EXCEPT ![q] = NoFile]
  /\ UNCHANGED <<limiter, home, held, server, replaced>>

\* Another process of the project makes its database anew.
Remake(q) ==
  /\ at[q] = NoFile
  /\ \E f \in Files : Connected(q, f)
  /\ UNCHANGED <<limiter, held, server>>

Next ==
  \/ \E q \in Projects : BindProject(q) \/ Remove(q) \/ Remake(q)
  \/ \E r \in Requests : CallTool(r)
  \/ RefuseToServe \/ GetConn \/ Store \/ Read \/ Maintain \/ Migrate
  \/ Exit \/ Tick

Spec == Init /\ [][Next]_vars

-----------------------------------------------------------------------------
(***************************************************************************)
(* Properties.                                                             *)
(***************************************************************************)

\* In no interval of the window's length, whenever it ends, are more than Max
\* calls of one key let through, although stamps are dropped from the table.
WindowRespected ==
  \A k \in Keys, now \in 0..clock :
    Cardinality({s \in Live(admitted[k], now) : s[1] <= now}) <= Max

\* A call is turned down exactly when Max calls of its key were let through in
\* the window that ends now: what was swept or has gone stale never counts, and
\* nothing that counts was swept.
LimiterExact ==
  [][calls' # calls =>
       (answer' = "rate_limited" <=> Cardinality(Live(admitted[call'.key], clock)) >= Max)]_vars

\* The table does not grow with the number of callers a long-lived server has
\* seen: after a call it has one key more than the threshold at most, or only
\* keys that were used within the window.
TableBounded ==
  [][calls' # calls =>
       \/ Cardinality(Table') <= Threshold + 1
       \/ \A k \in Table' : Live(buckets'[k], clock) # {}]_vars

\* A server changes no database but that of the project it is bound to, and
\* stores nothing there for another project (migrations name both of theirs).
BoundProjectOnly ==
  [][\A f \in Files : held'[f] # held[f] /\ call.tool # "migrate" =>
       /\ home[f] = bound
       /\ held'[f] \subseteq held[f] \union {bound}]_vars

\* A memory that is reported stored is in the database at the project's path,
\* unless the path changed during that very call or a new database was made
\* there since the server bound itself.
StoredReachable ==
  [][answer' = "stored" /\ pc = "run" =>
       conn = at[bound] \/ at[bound] # seen \/ replaced]_vars
=============================================================================
