----------------------------- MODULE CrossSearch -----------------------------
(***************************************************************************)
(* Searching other projects: _cross_project_fanout and its two callers,    *)
(* the search by label over every known project and the search over the    *)
(* projects that recall_related reaches through the declared edges.        *)
(*                                                                         *)
(* The registry, the edges and the other projects' files belong to other   *)
(* processes.  Every read of them is a connection of its own in the code   *)
(* and a step of its own here: a project may move, be linked, lose its     *)
(* file or get a new one between any two of them, and any read of the      *)
(* registry may fail, which the code takes for an empty answer.            *)
(***************************************************************************)
EXTENDS Integers, FiniteSets, FiniteSetsExt

CONSTANTS
  Projects,     \* project ids, numbered in their sorting order
  NoProject,    \* the request names no project
  Files,        \* database files
  NoFile,       \* "not in the registry"
  Own,          \* the file of the connection that searches
  Memories,     \* the rows of each file that match the query
  Requests,     \* what callers ask
  CapDefault,   \* _CROSS_PROJECT_FANOUT_CAP
  CapOfEnv,     \* REMAGRAPH_FANOUT_CAP, or NoCap
  HardCap,      \* _resolve_fanout_hard_cap
  NoCap,        \* no cap given
  Second,       \* ticks of created_at in a second, the unit of `timestamp`
  FirstRegistry, FirstEdges, FirstDisk,  \* what the others start from
  Links,        \* bound: edges that may be declared meanwhile
  MaxChanges    \* bound: changes others make

Modes == {"label", "recent", "text"}  \* by label; related, empty query; related, full text
Row == [id : Nat, project : Projects, rank : Nat]
Request == [by : Modes, project : Projects \union {NoProject},
            hops : Nat \ {0}, top_k : Nat \ {0}, cap : Int \union {NoCap}]
DiskStates == {"ok", "corrupt", "gone"}

ASSUME ProjectsAssumption ==
  Projects \subseteq Nat \ {0} /\ IsFiniteSet(Projects) /\ NoProject \notin Projects
ASSUME FilesAssumption == Own \in Files /\ NoFile \notin Files /\ IsFiniteSet(Files)
ASSUME MemoriesAssumption ==
  /\ Memories \in [Files -> SUBSET Row]
  /\ \A f \in Files : IsFiniteSet(Memories[f])
  /\ \A f \in Files : \A m, o \in Memories[f] : m.id = o.id => m = o
ASSUME RequestsAssumption ==
  /\ Requests \subseteq Request /\ Requests # {}
  /\ \A r \in Requests : r.by # "label" => r.project # NoProject
ASSUME CapsAssumption ==
  /\ NoCap \notin Int /\ CapDefault \in Nat \ {0} /\ HardCap \in Nat \ {0}
  /\ CapOfEnv \in Int \union {NoCap} /\ Second \in Nat \ {0} /\ MaxChanges \in Nat
ASSUME WorldAssumption ==
  /\ FirstRegistry \in [Projects -> Files \union {NoFile}]
  /\ FirstEdges \subseteq Projects \X Projects /\ Links \subseteq Projects \X Projects
  /\ FirstDisk \in [Files -> DiskStates]

VARIABLES
  registry,      \* project_registry: the file of each known project
  edges,         \* project_edges, without their relation
  disk,          \* what is at the path of each file
  changes,       \* changes made by others
  pc,            \* where the search is
  req,           \* its request
  frontier, next_frontier, visited, layer,  \* recall_related
  todo,          \* candidates not yet examined
  target,        \* the file the registry has named for the next candidate
  opened,        \* <<project, file>> of the candidates opened (fanned_out)
  found,         \* the rows collected, each with the query it came from
  answer,        \* the SearchResponse
  edges_then,    \* history: the edges when the call began
  moved,         \* history: projects whose file or entry has changed since
  failed,        \* history: a read of the registry has failed
  read           \* history: <<query, file>> that gave rows

world == <<registry, edges, disk, changes>>
walk == <<frontier, next_frontier, visited, layer>>
history == <<edges_then, moved, failed, read>>
vars == <<world, pc, req, walk, todo, target, opened, found, answer, history>>

\* A row found by the n-th candidate's query, or by the caller's own (n = 0).
Hits == [from : Projects \union {0}, file : Files, row : Row]
Nothing == [results |-> {}, more |-> FALSE, capped |-> FALSE, total |-> 0, searched |-> 0]

TypeOK ==
  /\ registry \in [Projects -> Files \union {NoFile}]
  /\ edges \subseteq Projects \X Projects /\ edges_then \subseteq edges
  /\ disk \in [Files -> DiskStates]
  /\ changes \in 0..MaxChanges
  /\ pc \in {"idle", "list", "expand", "own", "next", "lookup", "open", "merge", "done"}
  /\ req \in Requests
  /\ frontier \subseteq visited /\ next_frontier \subseteq visited
  /\ visited \subseteq Projects /\ layer \in Nat
  /\ todo \subseteq Projects /\ moved \subseteq Projects
  /\ target \in Files \union {NoFile}
  /\ opened \subseteq Projects \X Files
  /\ found \subseteq Hits
  /\ failed \in BOOLEAN
  /\ read \subseteq {<<0, Own>>} \union opened

Init ==
  /\ registry = FirstRegistry /\ edges = FirstEdges /\ disk = FirstDisk
  /\ changes = 0
  /\ pc = "idle" /\ req = CHOOSE r \in Requests : TRUE
  /\ frontier = {} /\ next_frontier = {} /\ visited = {} /\ layer = 0
  /\ todo = {} /\ target = NoFile /\ opened = {} /\ found = {} /\ answer = Nothing
  /\ edges_then = {} /\ moved = {} /\ failed = FALSE /\ read = {}

-----------------------------------------------------------------------------
(***************************************************************************)
(* Pure parts.                                                             *)
(***************************************************************************)

\* Mutant: the hard cap is forgotten.
CapUnclamped(explicit) ==
  LET asked == IF explicit # NoCap THEN explicit
               ELSE IF CapOfEnv # NoCap THEN CapOfEnv ELSE CapDefault
  IN IF asked <= 0 THEN CapDefault ELSE asked

\* The caller's cap, else the environment's, else the default; nonsense falls
\* back to the default, and the hard cap bounds them all.
ResolveFanoutCap(explicit) ==
  LET asked == IF explicit # NoCap THEN explicit
               ELSE IF CapOfEnv # NoCap THEN CapOfEnv ELSE CapDefault
      cap   == IF asked <= 0 THEN CapDefault ELSE asked
  IN IF cap <= HardCap THEN cap ELSE HardCap

\* Mutant: edges are walked in the direction they were declared.
DeclaredNeighbours(es, pid) == {q \in Projects : <<pid, q>> \in es}

\* Edges are walked in both directions, whatever their relation.
Neighbours(es, pid) == {q \in Projects : <<pid, q>> \in es \/ <<q, pid>> \in es}

\* What one query orders its rows by before it cuts them: an empty query lists
\* by `timestamp`, which is created_at without its fraction.
LimitRank(r, m) == IF r.by = "recent" THEN m.rank \div Second ELSE m.rank

\* The caller's own file is filtered by project, unless it is asked for a label.
Matching(r, n, f) ==
  {m \in Memories[f] : n = 0 /\ r.by # "label" => m.project = r.project}

\* The rows one query may return: LIMIT top_k + 1.
QueryRows(r, n, f) ==
  LET rows == Matching(r, n, f) IN
  {top \in kSubset(Min({r.top_k + 1, Cardinality(rows)}), rows) :
     \A m \in top, o \in rows \ top : LimitRank(r, m) >= LimitRank(r, o)}

\* Mutant: hits are told apart by the candidate that was asked for them.
KeyByCandidate(h) == <<h.from, h.row.id>>

\* (source_project_id, id): the project the row itself names.
Key(h) == <<h.row.project, h.row.id>>

\* Of several hits with one key the first is kept.
Deduped(hits) == {h \in hits : \A o \in hits : Key(o) = Key(h) => h.from <= o.from}

\* Mutant: cut before sorting, in the order of the queries.
OwnFirst(hits, n) ==
  {top \in kSubset(Min({n, Cardinality(hits)}), hits) :
     \A h \in top, o \in hits \ top : h.from <= o.from}

BestOf(hits, n) ==
  {top \in kSubset(Min({n, Cardinality(hits)}), hits) :
     \A h \in top, o \in hits \ top : h.row.rank >= o.row.rank}

\* The candidates in question: not the caller's own project.
Others == {pid \in visited : pid # req.project}
Candidate == CHOOSE pid \in todo : \A o \in todo : pid <= o

-----------------------------------------------------------------------------
Goto(step) == pc' = step

\* A read of the registry that may fail gives `value`, or `otherwise`.
Reads(x, value, otherwise) ==
  \/ x = value /\ UNCHANGED failed
  \/ x = otherwise /\ failed' = TRUE

Search(r) ==
  /\ pc \in {"idle", "done"}
  /\ Goto(IF r.by = "label" THEN "list" ELSE "expand")
  /\ req' = r
  /\ frontier' = {r.project} \ {NoProject} /\ visited' = frontier'
  /\ next_frontier' = {} /\ layer' = 1
  /\ todo' = {} /\ target' = NoFile /\ opened' = {} /\ found' = {} /\ answer' = Nothing
  /\ edges_then' = edges /\ moved' = {} /\ failed' = FALSE /\ read' = {}
  /\ UNCHANGED world

\* list_known_projects: every entry of the registry, or nothing.
ListKnownProjects ==
  /\ pc = "list"
  /\ Goto("own")
  /\ \E known \in SUBSET Projects :
       /\ Reads(known, {pid \in Projects : registry[pid] # NoFile}, {})
       /\ visited' = visited \union known
  /\ UNCHANGED <<world, req, frontier, next_frontier, layer, todo, target, opened,
                 found, answer, edges_then, moved, read>>

\* recall_related asks for the edges of one project of the layer at a time.
Expand(pid) ==
  /\ pc = "expand" /\ pid \in frontier
  /\ \E near \in SUBSET Projects :
       /\ Reads(near, Neighbours(edges, pid), {})
       /\ next_frontier' = next_frontier \union (near \ visited)
       /\ visited' = visited \union near
  /\ frontier' = frontier \ {pid}
  /\ UNCHANGED <<world, pc, req, layer, todo, target, opened, found, answer,
                 edges_then, moved, read>>

\* Mutant: one layer too many.
NextLayerLate ==
  /\ pc = "expand" /\ frontier = {}
  /\ IF next_frontier = {} \/ layer > req.hops
     THEN Goto("own") /\ UNCHANGED <<frontier, next_frontier, layer>>
     ELSE /\ frontier' = next_frontier /\ next_frontier' = {} /\ layer' = layer + 1
          /\ UNCHANGED pc
  /\ UNCHANGED <<world, req, visited, todo, target, opened, found, answer, history>>

NextLayer ==
  /\ pc = "expand" /\ frontier = {}
  /\ IF next_frontier = {} \/ layer = req.hops
     THEN Goto("own") /\ UNCHANGED <<frontier, next_frontier, layer>>
     ELSE /\ frontier' = next_frontier /\ next_frontier' = {} /\ layer' = layer + 1
          /\ UNCHANGED pc
  /\ UNCHANGED <<world, req, visited, todo, target, opened, found, answer, history>>

\* The connection keeps its file, also when it is no longer at its path.
QueryOwn ==
  /\ pc = "own"
  /\ IF disk[Own] = "corrupt"
     THEN Goto("idle") /\ UNCHANGED <<todo, found, read>>   \* raises
     ELSE /\ Goto("next")
          /\ todo' = Others
          /\ \E rows \in QueryRows(req, 0, Own) :
               found' = {[from |-> 0, file |-> Own, row |-> m] : m \in rows}
          /\ read' = {<<0, Own>>}
  /\ UNCHANGED <<world, req, walk, target, opened, answer, edges_then, moved, failed>>

Skip ==
  /\ Goto("next")
  /\ todo' = todo \ {Candidate}

\* get_registered_state_dir: the caller's own file under another name is
\* passed over; at the cap the loop is left.
CheckAlias ==
  /\ pc = "next" /\ todo # {}
  /\ \E f \in Files \union {NoFile} :
       /\ Reads(f, registry[Candidate], NoFile)
       /\ \/ f = Own /\ Skip
          \/ /\ f # Own /\ Cardinality(opened) < ResolveFanoutCap(req.cap)
             /\ Goto("lookup") /\ UNCHANGED todo
          \/ /\ f # Own /\ Cardinality(opened) >= ResolveFanoutCap(req.cap)
             /\ Goto("merge") /\ UNCHANGED todo
  /\ UNCHANGED <<world, req, walk, target, opened, found, answer, edges_then, moved, read>>

\* connect_foreign_project_readonly reads the entry again, and looks whether
\* the file exists.
Lookup ==
  /\ pc = "lookup"
  /\ \E f \in Files \union {NoFile} :
       /\ Reads(f, registry[Candidate], NoFile)
       /\ target' = f
       /\ IF f = NoFile THEN Skip
          ELSE IF disk[f] = "gone" THEN Skip
          ELSE Goto("open") /\ UNCHANGED todo
  /\ UNCHANGED <<world, req, walk, opened, found, answer, edges_then, moved, read>>

\* Mutant: an ordinary connection, which creates the file that is missing.
OpenForeignCreating ==
  /\ pc = "open"
  /\ Skip
  /\ opened' = opened \union {<<Candidate, target>>}
  /\ disk' = [disk EXCEPT ![target] = IF @ = "gone" THEN "ok" ELSE @]
  /\ IF disk[target] = "ok"
     THEN /\ \E rows \in QueryRows(req, Candidate, target) :
               found' = found \union {[from |-> Candidate, file |-> target, row |-> m] : m \in rows}
          /\ read' = read \union {<<Candidate, target>>}
     ELSE UNCHANGED <<found, read>>
  /\ UNCHANGED <<registry, edges, changes, req, walk, target, answer, edges_then, moved, failed>>

\* mode=ro fails on a missing file; a damaged one is opened, counted, and gives
\* no rows.
OpenForeign ==
  /\ pc = "open"
  /\ Skip
  /\ opened' = IF disk[target] = "gone" THEN opened ELSE opened \union {<<Candidate, target>>}
  /\ IF disk[target] = "ok"
     THEN /\ \E rows \in QueryRows(req, Candidate, target) :
               found' = found \union {[from |-> Candidate, file |-> target, row |-> m] : m \in rows}
          /\ read' = read \union {<<Candidate, target>>}
     ELSE UNCHANGED <<found, read>>
  /\ UNCHANGED <<world, req, walk, target, answer, edges_then, moved, failed>>

\* Deduplicate, sort, cut, count.
Merge ==
  /\ pc = "merge" \/ (pc = "next" /\ todo = {})
  /\ Goto("done")
  /\ \E top \in BestOf(Deduped(found), req.top_k) :
       answer' = [results |-> {[file |-> h.file, row |-> h.row] : h \in top},
                  more |-> Cardinality(Deduped(found)) > req.top_k,
                  capped |-> pc = "merge",
                  total |-> Cardinality(Others),
                  searched |-> Cardinality(opened)]
  /\ UNCHANGED <<world, req, walk, todo, target, opened, found, history>>

-----------------------------------------------------------------------------
(***************************************************************************)
(* What other processes do meanwhile.                                      *)
(***************************************************************************)
Change ==
  /\ changes < MaxChanges
  /\ changes' = changes + 1
  /\ UNCHANGED <<pc, req, walk, todo, target, opened, found, answer, edges_then, failed, read>>

\* register_known_project: a new project, or one that has moved.
Register(pid, f) ==
  /\ registry[pid] # f
  /\ registry' = [registry EXCEPT ![pid] = f]
  /\ moved' = moved \union {pid}
  /\ Change
  /\ UNCHANGED <<edges, disk>>

\* declare_project_edge: INSERT OR IGNORE; edges are never deleted.
Link(e) ==
  /\ e \notin edges
  /\ edges' = edges \union {e}
  /\ Change
  /\ UNCHANGED <<registry, disk, moved>>

\* A file is removed, damaged, or created anew by its own project.
Touch(f, state) ==
  /\ disk[f] # state
  /\ state = "corrupt" => disk[f] = "ok"
  /\ disk' = [disk EXCEPT ![f] = state]
  /\ moved' = moved \union {pid \in Projects : registry[pid] = f}
  /\ Change
  /\ UNCHANGED <<registry, edges>>

Environment ==
  \/ \E pid \in Projects, f \in Files : Register(pid, f)
  \/ \E e \in Links : Link(e)
  \/ \E f \in Files, state \in DiskStates : Touch(f, state)

SearchStep ==
  \/ ListKnownProjects
  \/ \E pid \in Projects : Expand(pid)
  \/ NextLayer
  \/ QueryOwn
  \/ CheckAlias
  \/ Lookup
  \/ OpenForeign
  \/ Merge

Next ==
  \/ \E r \in Requests : Search(r)
  \/ SearchStep
  \/ Environment

Spec == Init /\ [][Next]_vars

-----------------------------------------------------------------------------
(***************************************************************************)
(* Properties.                                                             *)
(***************************************************************************)

\* The reference for recall_related: the projects that a walk of n edges, taken
\* in either direction, or of fewer reaches from pid.
Linked(es, p, q) == <<p, q>> \in es \/ <<q, p>> \in es
Within(es, pid, n) ==
  {q \in Projects : \E route \in [0..n -> Projects] :
     /\ route[0] = pid /\ route[n] = q
     /\ \A i \in 0..n - 1 : route[i + 1] = route[i] \/ Linked(es, route[i], route[i + 1])}

\* Which projects a search must consider, had nothing changed since it began.
Expected ==
  IF req.by = "label" THEN {pid \in Projects : registry[pid] # NoFile}
  ELSE Within(edges_then, req.project, req.hops)

\* A search that says it was not capped has left out no project that it could
\* have read throughout the call: everything known, or everything within the
\* hops, was opened, or is the caller's own file, or has no file -- although
\* the walk and the loop read the registry one entry at a time while it changes.
SearchComplete ==
  pc = "done" /\ ~answer.capped /\ ~failed =>
    \A pid \in Expected \ ({req.project} \union moved) :
      \/ registry[pid] \in {NoFile, Own}
      \/ disk[registry[pid]] = "gone"
      \/ <<pid, registry[pid]>> \in opened

\* A search over related projects opens only projects within the hops by the
\* edges there are, although the edges it has walked were read at different times.
OnlyRelatedOpened ==
  req.by # "label" =>
    \A o \in opened : o[1] \in Within(edges, req.project, req.hops) \ {req.project}

\* Never more than the allowed number of foreign databases are opened, whatever
\* the caller asks for; and a search that says it was capped has used them up
\* and left somebody out.
CapRespected ==
  /\ Cardinality(opened) <= ResolveFanoutCap(req.cap)
  /\ Cardinality(opened) <= HardCap
  /\ pc = "done" /\ answer.capped =>
       Cardinality(opened) = ResolveFanoutCap(req.cap) /\ answer.searched < answer.total

\* No memory is reported twice, although two projects may share one file, and
\* although the caller's own file may be opened a second time under the name of
\* a project that moved between the two reads of its entry.
NoMemoryTwice ==
  pc = "done" =>
    \A x, y \in answer.results : x.row.project = y.row.project /\ x.row.id = y.row.id => x = y

\* The caller's own file is opened a second time only when its name changed
\* during the call.
OwnReadOnce ==
  \A o \in opened : o[2] = Own /\ ~failed => o[1] \in moved

\* The memories of the databases that were read, unless two of them gave the
\* same id to different memories of one project.
AllRead ==
  UNION {{[file |-> q[2], row |-> m] : m \in Matching(req, q[1], q[2])} : q \in read}
IdsClash ==
  \E x, y \in AllRead : x # y /\ x.row.project = y.row.project /\ x.row.id = y.row.id

\* Cutting each database to top_k + 1 rows loses nothing: what is not reported
\* ranks below everything that is (an empty query compares whole seconds), and
\* `more` says exactly whether something is missing.
NewestReported ==
  pc = "done" /\ ~IdsClash =>
    /\ answer.results \subseteq AllRead /\ Cardinality(answer.results) <= req.top_k
    /\ answer.more <=> answer.results # AllRead
    /\ \A x \in AllRead \ answer.results :
         /\ Cardinality(answer.results) = req.top_k
         /\ \A y \in answer.results : LimitRank(req, y.row) >= LimitRank(req, x.row)

\* A search never brings a database file into being, also not when the file
\* disappears between the test for its existence and the opening.
NeverCreates ==
  [][pc' # pc => \A f \in Files : disk[f] = "gone" => disk'[f] = "gone"]_vars
=============================================================================
