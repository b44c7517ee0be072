-------------------------- MODULE CrossSearchProofs --------------------------
(***************************************************************************)
(* For any projects, files, edges and requests, and however often others   *)
(* change them during a search: the cap holds, no memory is reported       *)
(* twice, no file is created, and the caller's own file is opened again    *)
(* only when its name has moved; only related projects are opened, and     *)
(* all that could be are, unless the search says it was capped; and what   *)
(* is reported is the newest of what was read.                             *)
(***************************************************************************)
EXTENDS CrossSearch, FiniteSetTheorems, WellFoundedInduction, TLAPS

(***************************************************************************)
(* The inductive invariant.  The loop goes through the other projects it   *)
(* has met; every candidate is opened at most once, and never again once   *)
(* it has left `todo`; what one query gave comes from one file.            *)
(***************************************************************************)
LoopInv ==
  /\ pc \in {"list", "expand", "own"} => todo = {} /\ opened = {} /\ found = {}
  /\ pc \in {"lookup", "open", "merge"} => todo # {}
  /\ pc = "open" => target \in Files
  /\ todo \subseteq Others
  /\ \A o \in opened : o[1] \in Others \ todo
  /\ \A o, p \in opened : o[1] = p[1] => o = p

CapInv ==
  /\ Cardinality(opened) <= ResolveFanoutCap(req.cap)
  /\ pc \in {"lookup", "open"} => Cardinality(opened) < ResolveFanoutCap(req.cap)
  /\ pc = "merge" => Cardinality(opened) = ResolveFanoutCap(req.cap)

FoundInv ==
  /\ \A h \in found : h.row \in Memories[h.file] /\ h.from \in {0} \union (Others \ todo)
  /\ \A h, o \in found : h.from = o.from => h.file = o.file

OwnInv ==
  /\ pc = "lookup" /\ ~failed => registry[Candidate] # Own \/ Candidate \in moved
  /\ pc = "open" /\ ~failed => target # Own \/ Candidate \in moved
  /\ OwnReadOnce

IInv == TypeOK /\ LoopInv /\ CapInv /\ FoundInv /\ OwnInv /\ CapRespected /\ NoMemoryTwice

-----------------------------------------------------------------------------
\* A cap is a positive number within the hard cap.
LEMMA CapIsBounded ==
  ASSUME NEW cap \in Int \union {NoCap}
  PROVE  ResolveFanoutCap(cap) \in Nat \ {0} /\ ResolveFanoutCap(cap) <= HardCap
  BY CapsAssumption DEF ResolveFanoutCap

\* The next candidate is one of those left.
LEMMA CandidateIsLeft ==
  ASSUME todo \subseteq Projects, todo # {}
  PROVE  Candidate \in todo
<1> DEFINE R == {ss \in Nat \X Nat : ss[1] < ss[2]}
<1>1. IsWellFoundedOn(R, Nat)
  BY NatLessThanWellFounded, Zenon DEF OpToRel
<1>2. todo \subseteq Nat
  BY ProjectsAssumption
<1>3. PICK x \in todo : \A y \in todo : ~ (<<y, x>> \in R)
  <2> HIDE DEF R
  <2> QED
    BY <1>1, <1>2, WFMin, Zenon
<1>4. ASSUME NEW y \in todo
      PROVE  x <= y
  <2>1. ~ (y < x)
    BY <1>2, <1>3
  <2>2. QED
    BY <1>2, <2>1
<1>5. QED
  BY <1>4 DEF Candidate

\* A query gives rows of the file it is asked of.
LEMMA QueryGivesRows ==
  ASSUME NEW r, NEW n, NEW f \in Files, NEW rows \in QueryRows(r, n, f)
  PROVE  rows \subseteq Memories[f]
  BY DEF QueryRows, kSubset, Matching

\* Rows are rows.
LEMMA RowsAreRows ==
  ASSUME NEW f \in Files
  PROVE  Memories[f] \subseteq Row
  BY MemoriesAssumption

-----------------------------------------------------------------------------
(***************************************************************************)
(* The invariant holds initially, and every step preserves it.             *)
(***************************************************************************)

LEMMA InitIInv == Init => IInv
<1> SUFFICES ASSUME Init
             PROVE  IInv
  OBVIOUS
<1> USE DEF Init
<1>1. req \in Requests
  BY RequestsAssumption
<1>2. TypeOK
  <2>1. /\ registry \in [Projects -> Files \union {NoFile}]
        /\ edges \subseteq Projects \X Projects /\ edges_then \subseteq edges
        /\ disk \in [Files -> DiskStates]
    BY WorldAssumption
  <2>2. changes \in 0..MaxChanges
    BY CapsAssumption
  <2>3. QED
    BY <1>1, <2>1, <2>2 DEF TypeOK
<1>3. LoopInv /\ FoundInv /\ OwnInv /\ NoMemoryTwice
  BY DEF LoopInv, FoundInv, OwnInv, OwnReadOnce, NoMemoryTwice
<1>4. CapInv /\ CapRespected
  <2>1. Cardinality(opened) = 0
    BY FS_EmptySet
  <2>2. ResolveFanoutCap(req.cap) \in Nat \ {0} /\ ResolveFanoutCap(req.cap) <= HardCap
    BY <1>1, RequestsAssumption, CapIsBounded DEF Request
  <2>3. QED
    BY <2>1, <2>2, CapsAssumption DEF CapInv, CapRespected
<1>5. QED
  BY <1>2, <1>3, <1>4 DEF IInv

\* A new search forgets the last one.
LEMMA SearchKeeps == ASSUME IInv, NEW r \in Requests, Search(r) PROVE IInv'
<1> USE DEF Search, Goto, world
<1>1. r.project \in Projects \union {NoProject} /\ r.cap \in Int \union {NoCap}
  BY RequestsAssumption DEF Request
<1>2. TypeOK'
  BY <1>1 DEF IInv, TypeOK
<1>3. LoopInv' /\ FoundInv' /\ OwnInv' /\ NoMemoryTwice'
  BY DEF LoopInv, FoundInv, OwnInv, OwnReadOnce, NoMemoryTwice
<1>4. CapInv' /\ CapRespected'
  <2>1. Cardinality(opened') = 0
    BY FS_EmptySet
  <2>2. ResolveFanoutCap(req.cap)' \in Nat \ {0} /\ ResolveFanoutCap(req.cap)' <= HardCap
    <3>1. ResolveFanoutCap(r.cap) \in Nat \ {0} /\ ResolveFanoutCap(r.cap) <= HardCap
      BY <1>1, CapIsBounded
    <3>2. req' = r
      OBVIOUS
    <3>3. QED
      BY <3>1, <3>2 DEF ResolveFanoutCap
  <2>3. QED
    BY <2>1, <2>2, CapsAssumption DEF CapInv, CapRespected
<1>5. QED
  BY <1>2, <1>3, <1>4 DEF IInv

\* The walk opens nothing.
LEMMA WalkKeeps ==
  ASSUME IInv, ListKnownProjects \/ (\E pid \in Projects : Expand(pid)) \/ NextLayer
  PROVE  IInv'
<1> USE DEF Goto, world, Reads, history
<1>1. /\ todo = {} /\ opened = {} /\ found = {}
      /\ UNCHANGED <<registry, edges, disk, changes, req, todo, target, opened, found,
                     answer, edges_then, moved, read>>
      /\ pc' \in {"expand", "own"}
  BY DEF IInv, LoopInv, ListKnownProjects, Expand, NextLayer
<1>2. TypeOK'
  <2>1. CASE ListKnownProjects
    BY <2>1 DEF IInv, TypeOK, ListKnownProjects
  <2>2. CASE \E pid \in Projects : Expand(pid)
    BY <2>2 DEF IInv, TypeOK, Expand
  <2>3. CASE NextLayer
    BY <2>3 DEF IInv, TypeOK, NextLayer
  <2>4. QED
    BY <2>1, <2>2, <2>3
<1>3. LoopInv' /\ FoundInv' /\ OwnInv' /\ NoMemoryTwice'
  BY <1>1 DEF LoopInv, FoundInv, OwnInv, OwnReadOnce, NoMemoryTwice
<1>4. CapInv' /\ CapRespected'
  BY <1>1 DEF IInv, CapInv, CapRespected, ResolveFanoutCap
<1>5. QED
  BY <1>2, <1>3, <1>4 DEF IInv

\* The caller's own rows are the first.
LEMMA QueryOwnKeeps == ASSUME IInv, QueryOwn PROVE IInv'
<1> USE DEF QueryOwn, Goto, world, walk
<1>1. CASE disk[Own] = "corrupt"
  BY <1>1 DEF IInv, TypeOK, LoopInv, CapInv, FoundInv, OwnInv, OwnReadOnce, CapRespected,
     NoMemoryTwice, Others, Candidate, ResolveFanoutCap
<1>2. CASE disk[Own] # "corrupt"
  <2>1. PICK rows \in QueryRows(req, 0, Own) :
          found' = {[from |-> 0, file |-> Own, row |-> m] : m \in rows}
    BY <1>2
  <2>2. rows \subseteq Memories[Own] /\ rows \subseteq Row
    BY FilesAssumption, QueryGivesRows, RowsAreRows
  <2>3. /\ opened = {} /\ opened' = {} /\ todo' = Others /\ pc' = "next"
        /\ UNCHANGED <<registry, edges, disk, changes, req, visited, failed, moved, answer>>
    BY <1>2 DEF IInv, LoopInv
  <2>4. TypeOK'
    <3>1. found' \subseteq Hits
      BY <2>1, <2>2, FilesAssumption DEF Hits
    <3>2. QED
      BY <1>2, <2>3, <3>1 DEF IInv, TypeOK, Others
  <2>5. LoopInv'
    BY <2>3 DEF LoopInv, Others
  <2>6. FoundInv'
    BY <2>1, <2>2 DEF FoundInv
  <2>7. OwnInv' /\ NoMemoryTwice'
    BY <2>3 DEF OwnInv, OwnReadOnce, NoMemoryTwice
  <2>8. CapInv' /\ CapRespected'
    BY <2>3 DEF IInv, CapInv, CapRespected, ResolveFanoutCap
  <2>9. QED
    BY <2>4, <2>5, <2>6, <2>7, <2>8 DEF IInv
<1>3. QED
  BY <1>1, <1>2

-----------------------------------------------------------------------------
(***************************************************************************)
(* The loop.                                                               *)
(***************************************************************************)

\* What was opened is finite, and with a candidate left smaller than what there is.
LEMMA OpenedIsFinite ==
  ASSUME TypeOK, LoopInv
  PROVE  /\ IsFiniteSet(opened) /\ Cardinality(opened) \in Nat
         /\ IsFiniteSet(Others) /\ Cardinality(Others) \in Nat
         /\ todo # {} => Cardinality(opened) < Cardinality(Others)
<1> DEFINE names == [o \in opened |-> o[1]]
<1>1. IsFiniteSet(Others) /\ Cardinality(Others) \in Nat
  <2>1. Others \in SUBSET Projects
    BY DEF TypeOK, Others
  <2>2. IsFiniteSet(Projects)
    BY ProjectsAssumption
  <2>3. QED
    BY <2>1, <2>2, FS_Subset, FS_CardinalityType
<1>2. names \in Injection(opened, Others \ todo)
  <2>1. names \in [opened -> Others \ todo]
    BY DEF LoopInv
  <2>2. \A o, p \in opened : names[o] = names[p] => o = p
    BY DEF LoopInv
  <2>3. QED
    BY <2>1, <2>2 DEF Injection, IsInjective
<1>3. /\ IsFiniteSet(Others \ todo) /\ Cardinality(Others \ todo) \in Nat
      /\ Cardinality(Others \ todo) <= Cardinality(Others)
      /\ Cardinality(Others \ todo) = Cardinality(Others) => Others \ todo = Others
  BY <1>1, FS_Subset, FS_CardinalityType
<1>4. /\ IsFiniteSet(opened) /\ Cardinality(opened) \in Nat
      /\ Cardinality(opened) <= Cardinality(Others \ todo)
  <2> HIDE DEF names
  <2> QED
    BY <1>2, <1>3, FS_Injection, FS_CardinalityType
<1>5. todo # {} => Others \ todo # Others
  BY DEF LoopInv
<1>6. QED
  BY <1>1, <1>3, <1>4, <1>5

\* A candidate is left behind.
LEMMA SkipLoop ==
  ASSUME IInv, Skip, todo # {}, req' = req, visited' = visited
  PROVE  /\ Candidate \in todo /\ Candidate \in Projects \ {0}
         /\ todo' \subseteq Projects /\ todo' \subseteq Others'
         /\ Others' = Others /\ Candidate \in Others \ todo'
         /\ Others \ todo \subseteq Others \ todo'
         /\ \A o \in opened : o[1] # Candidate
<1>1. Candidate \in todo
  BY CandidateIsLeft DEF IInv, TypeOK
<1>2. Others' = Others
  BY DEF Others
<1>3. todo' = todo \ {Candidate}
  BY DEF Skip
<1>4. todo \subseteq Others /\ todo \subseteq Projects /\ \A o \in opened : o[1] \in Others \ todo
  BY DEF IInv, LoopInv, TypeOK
<1>5. Candidate \in Projects \ {0}
  BY <1>1, <1>4, ProjectsAssumption
<1>6. QED
  BY <1>1, <1>2, <1>3, <1>4, <1>5

LEMMA CheckAliasKeeps == ASSUME IInv, CheckAlias PROVE IInv'
<1> USE DEF CheckAlias, Goto, world, walk
<1>1. PICK f \in Files \union {NoFile} :
        /\ Reads(f, registry[Candidate], NoFile)
        /\ \/ f = Own /\ Skip
           \/ /\ f # Own /\ Cardinality(opened) < ResolveFanoutCap(req.cap)
              /\ Goto("lookup") /\ UNCHANGED todo
           \/ /\ f # Own /\ Cardinality(opened) >= ResolveFanoutCap(req.cap)
              /\ Goto("merge") /\ UNCHANGED todo
  OBVIOUS
<1>2. /\ todo # {} /\ pc = "next" /\ failed \in BOOLEAN
      /\ UNCHANGED <<registry, edges, disk, changes, req, visited, frontier, next_frontier,
                     layer, target, opened, found, answer, edges_then, moved, read>>
  BY DEF IInv, TypeOK
<1>3. failed' \in BOOLEAN /\ (~failed' => ~failed /\ f = registry[Candidate])
  BY <1>1, <1>2 DEF Reads
<1>4. CASE f = Own /\ Skip
  <2>1. pc' = "next"
    BY <1>4 DEF Skip
  <2>2. TypeOK'
    BY <1>2, <1>3, <1>4, <2>1, SkipLoop DEF IInv, TypeOK
  <2>3. LoopInv' /\ FoundInv'
    BY <1>2, <1>4, <2>1, SkipLoop DEF IInv, LoopInv, FoundInv
  <2>4. OwnInv' /\ NoMemoryTwice'
    BY <1>2, <1>3, <2>1 DEF IInv, OwnInv, OwnReadOnce, NoMemoryTwice
  <2>5. CapInv' /\ CapRespected'
    BY <1>2, <2>1 DEF IInv, CapInv, CapRespected, ResolveFanoutCap
  <2>6. QED
    BY <2>2, <2>3, <2>4, <2>5 DEF IInv
<1>5. ASSUME f # Own, todo' = todo, pc' \in {"lookup", "merge"},
             pc' = "lookup" => Cardinality(opened) < ResolveFanoutCap(req.cap),
             pc' = "merge" => Cardinality(opened) >= ResolveFanoutCap(req.cap)
      PROVE  IInv'
  <2>1. Others' = Others /\ Candidate' = Candidate
    BY <1>2, <1>5 DEF Others, Candidate
  <2>2. TypeOK'
    BY <1>2, <1>3, <1>5 DEF IInv, TypeOK
  <2>3. LoopInv' /\ FoundInv'
    BY <1>2, <1>5, <2>1 DEF IInv, LoopInv, FoundInv
  <2>4. OwnInv' /\ NoMemoryTwice'
    BY <1>2, <1>3, <1>5, <2>1 DEF IInv, OwnInv, OwnReadOnce, NoMemoryTwice
  <2>5. CapInv' /\ CapRespected'
    <3>1. ResolveFanoutCap(req.cap) \in Nat
      BY CapIsBounded, RequestsAssumption DEF IInv, TypeOK, Request
    <3>2. IsFiniteSet(opened) => Cardinality(opened) \in Nat
      BY FS_CardinalityType
    <3>3. IsFiniteSet(opened)
      BY OpenedIsFinite DEF IInv
    <3>4. QED
      BY <1>2, <1>5, <3>1, <3>2, <3>3 DEF IInv, CapInv, CapRespected, ResolveFanoutCap
  <2>6. QED
    BY <2>2, <2>3, <2>4, <2>5 DEF IInv
<1>6. QED
  BY <1>1, <1>4, <1>5

\* A candidate without a file is passed over.
LEMMA LookupKeeps == ASSUME IInv, Lookup PROVE IInv'
<1> USE DEF Lookup, Goto, world, walk
<1>1. PICK f \in Files \union {NoFile} :
        /\ Reads(f, registry[Candidate], NoFile)
        /\ target' = f
        /\ IF f = NoFile THEN Skip
           ELSE IF disk[f] = "gone" THEN Skip
           ELSE Goto("open") /\ UNCHANGED todo
  OBVIOUS
<1>2. /\ todo # {} /\ pc = "lookup" /\ failed \in BOOLEAN
      /\ UNCHANGED <<registry, edges, disk, changes, req, visited, frontier, next_frontier,
                     layer, opened, found, answer, edges_then, moved, read>>
  BY DEF IInv, TypeOK, LoopInv
<1>3. failed' \in BOOLEAN /\ (~failed' => ~failed /\ f = registry[Candidate])
  BY <1>1, <1>2 DEF Reads
<1>4. CapInv' /\ CapRespected' /\ pc' \in {"next", "open"}
  BY <1>1, <1>2 DEF IInv, CapInv, CapRespected, ResolveFanoutCap, Skip
<1>5. CASE Skip
  <2>1. pc' = "next"
    BY <1>5 DEF Skip
  <2>2. TypeOK'
    BY <1>1, <1>2, <1>3, <1>5, <2>1, SkipLoop DEF IInv, TypeOK
  <2>3. LoopInv' /\ FoundInv'
    BY <1>2, <1>5, <2>1, SkipLoop DEF IInv, LoopInv, FoundInv
  <2>4. OwnInv' /\ NoMemoryTwice'
    BY <1>2, <1>3, <2>1 DEF IInv, OwnInv, OwnReadOnce, NoMemoryTwice
  <2>5. QED
    BY <1>4, <2>2, <2>3, <2>4 DEF IInv
<1>6. ASSUME f # NoFile, pc' = "open", todo' = todo
      PROVE  IInv'
  <2>1. Others' = Others /\ Candidate' = Candidate
    BY <1>2, <1>6 DEF Others, Candidate
  <2>2. TypeOK'
    BY <1>1, <1>2, <1>3, <1>6 DEF IInv, TypeOK
  <2>3. LoopInv' /\ FoundInv'
    BY <1>1, <1>2, <1>6, <2>1 DEF IInv, LoopInv, FoundInv
  <2>4. OwnInv' /\ NoMemoryTwice'
    BY <1>1, <1>2, <1>3, <1>6, <2>1 DEF IInv, OwnInv, OwnReadOnce, NoMemoryTwice
  <2>5. QED
    BY <1>4, <2>2, <2>3, <2>4 DEF IInv
<1>7. QED
  BY <1>1, <1>5, <1>6

\* A file that is opened is counted, once, and its rows bear the name that was
\* asked for.
LEMMA OpenForeignKeeps == ASSUME IInv, OpenForeign PROVE IInv'
<1> USE DEF OpenForeign, Goto, world, walk
<1> DEFINE c == Candidate
<1>1. /\ todo # {} /\ pc = "open" /\ pc' = "next" /\ target \in Files
      /\ UNCHANGED <<registry, edges, disk, changes, req, visited, frontier, next_frontier,
                     layer, target, answer, edges_then, moved, failed>>
  BY DEF IInv, LoopInv, Skip
<1>2. /\ c \in Projects \ {0} /\ c \in Others \ todo' /\ todo' \subseteq Projects
      /\ todo' \subseteq Others' /\ Others' = Others /\ Others \ todo \subseteq Others \ todo'
      /\ c \in todo /\ \A o \in opened : o[1] # c
  BY <1>1, SkipLoop
<1> HIDE DEF c
<1>3. opened' = opened \/ opened' = opened \union {<<c, target>>}
  BY DEF c
<1>4. \/ found' = found /\ read' = read
      \/ \E rows \in QueryRows(req, c, target) :
           /\ found' = found \union {[from |-> c, file |-> target, row |-> m] : m \in rows}
           /\ read' = read \union {<<c, target>>}
           /\ opened' = opened \union {<<c, target>>}
  BY DEF c
<1>5. \/ found' = found /\ read' = read
      \/ \E rows \in SUBSET Memories[target] :
           /\ found' = found \union {[from |-> c, file |-> target, row |-> m] : m \in rows}
           /\ read' = read \union {<<c, target>>}
           /\ opened' = opened \union {<<c, target>>}
  BY <1>1, <1>4, QueryGivesRows
<1>6. TypeOK'
  <2>1. found' \subseteq Hits
    BY <1>1, <1>2, <1>5, RowsAreRows DEF IInv, TypeOK, Hits
  <2>2. opened' \subseteq Projects \X Files
    BY <1>1, <1>2, <1>3 DEF IInv, TypeOK
  <2>3. read' \subseteq {<<0, Own>>} \union opened'
    BY <1>3, <1>5 DEF IInv, TypeOK
  <2>4. QED
    BY <1>1, <1>2, <2>1, <2>2, <2>3 DEF IInv, TypeOK
<1>7. LoopInv'
  BY <1>1, <1>2, <1>3 DEF IInv, LoopInv
<1>8. FoundInv'
  <2>1. \A h \in found : h.from # c
    BY <1>2 DEF IInv, FoundInv
  <2>2. CASE found' = found
    BY <1>2, <2>2 DEF IInv, FoundInv
  <2>3. CASE \E rows \in SUBSET Memories[target] :
               found' = found \union {[from |-> c, file |-> target, row |-> m] : m \in rows}
    BY <1>2, <2>1, <2>3 DEF IInv, FoundInv
  <2>4. QED
    BY <1>5, <2>2, <2>3
<1>9. OwnInv' /\ NoMemoryTwice'
  BY <1>1, <1>3 DEF IInv, OwnInv, OwnReadOnce, NoMemoryTwice, c
<1>10. CapInv' /\ CapRespected'
  <2>1. IsFiniteSet(opened) /\ Cardinality(opened) \in Nat
    BY OpenedIsFinite DEF IInv
  <2>2. Cardinality(opened') \in {Cardinality(opened), Cardinality(opened) + 1}
    BY <1>3, <2>1, FS_AddElement
  <2>3. ResolveFanoutCap(req.cap) \in Nat /\ ResolveFanoutCap(req.cap) <= HardCap
    BY CapIsBounded, RequestsAssumption DEF IInv, TypeOK, Request
  <2>4. Cardinality(opened) < ResolveFanoutCap(req.cap)
    BY <1>1 DEF IInv, CapInv
  <2>5. ResolveFanoutCap(req.cap)' = ResolveFanoutCap(req.cap)
    BY <1>1 DEF ResolveFanoutCap
  <2>6. QED
    BY <1>1, <2>1, <2>2, <2>3, <2>4, <2>5, CapsAssumption DEF CapInv, CapRespected
<1>11. QED
  BY <1>6, <1>7, <1>8, <1>9, <1>10 DEF IInv

\* Of two hits with one key only the one of the earlier query is kept, and a
\* file gives a row to one query once.
LEMMA MergeKeeps == ASSUME IInv, Merge PROVE IInv'
<1> USE DEF Merge, Goto, world, walk, history
<1>1. PICK top \in BestOf(Deduped(found), req.top_k) :
        answer' = [results |-> {[file |-> h.file, row |-> h.row] : h \in top},
                   more |-> Cardinality(Deduped(found)) > req.top_k,
                   capped |-> pc = "merge",
                   total |-> Cardinality(Others),
                   searched |-> Cardinality(opened)]
  OBVIOUS
<1>2. /\ pc' = "done"
      /\ UNCHANGED <<registry, edges, disk, changes, req, visited, frontier, next_frontier,
                     layer, todo, target, opened, found, edges_then, moved, failed, read>>
  OBVIOUS
<1>3. TypeOK' /\ LoopInv' /\ FoundInv'
  BY <1>2 DEF IInv, TypeOK, LoopInv, FoundInv, Others
<1>4. OwnInv'
  BY <1>2 DEF IInv, OwnInv, OwnReadOnce
<1>5. NoMemoryTwice'
  <2>1. top \subseteq Deduped(found)
    BY DEF BestOf, kSubset
  <2> SUFFICES ASSUME NEW g \in top, NEW h \in top, g.row.project = h.row.project,
                      g.row.id = h.row.id
               PROVE  g.file = h.file /\ g.row = h.row
    BY <1>1 DEF NoMemoryTwice
  <2>2. g \in found /\ h \in found /\ g \in Hits /\ h \in Hits
    BY <2>1 DEF Deduped, IInv, TypeOK
  <2>3. g.from <= h.from /\ h.from <= g.from
    BY <2>1, <2>2 DEF Deduped, Key
  <2>4. g.from \in Int /\ h.from \in Int
    <3>1. g.from \in Projects \union {0} /\ h.from \in Projects \union {0}
      BY <2>2 DEF Hits
    <3>2. Projects \union {0} \subseteq Int
      BY ProjectsAssumption
    <3>3. QED
      BY <3>1, <3>2, Zenon
  <2>5. g.from = h.from
    BY <2>3, <2>4
  <2>6. g.file = h.file /\ g.row \in Memories[g.file] /\ h.row \in Memories[h.file]
        /\ g.file \in Files
    BY <2>2, <2>5 DEF IInv, FoundInv, Hits
  <2>7. QED
    BY <2>6, MemoriesAssumption
<1>6. CapInv' /\ CapRespected'
  <2>1. CapInv' /\ Cardinality(opened') <= HardCap
    BY <1>2 DEF IInv, CapInv, CapRespected, ResolveFanoutCap
  <2>2. ASSUME answer'.capped
        PROVE  /\ Cardinality(opened') = ResolveFanoutCap(req.cap)'
               /\ answer'.searched < answer'.total
    <3>1. pc = "merge" /\ todo # {}
      BY <1>1, <2>2 DEF IInv, LoopInv
    <3>2. Cardinality(opened) = ResolveFanoutCap(req.cap)
      BY <3>1 DEF IInv, CapInv
    <3>3. Cardinality(opened) < Cardinality(Others)
      BY <3>1, OpenedIsFinite DEF IInv
    <3>4. QED
      BY <1>1, <1>2, <3>2, <3>3 DEF ResolveFanoutCap
  <2>3. QED
    BY <2>1, <2>2 DEF CapInv, CapRespected
<1>7. QED
  BY <1>3, <1>4, <1>5, <1>6 DEF IInv

\* What others do: an entry that changes is one of those that moved.
LEMMA EnvironmentKeeps == ASSUME IInv, Environment PROVE IInv'
<1> USE DEF Change, walk
<1>1. /\ UNCHANGED <<pc, req, frontier, next_frontier, visited, layer, todo, target, opened,
                     found, read, answer, edges_then, failed>>
      /\ changes < MaxChanges /\ changes' = changes + 1
      /\ moved \subseteq moved' /\ moved' \subseteq Projects
      /\ edges \subseteq edges' /\ edges' \subseteq Projects \X Projects
      /\ disk' \in [Files -> DiskStates]
  BY WorldAssumption DEF Environment, Register, Link, Touch, IInv, TypeOK
<1>2. /\ registry' \in [Projects -> Files \union {NoFile}]
      /\ \A pid \in Projects : registry'[pid] # registry[pid] => pid \in moved'
  BY DEF Environment, Register, Link, Touch, IInv, TypeOK
<1>3. Others' = Others /\ Candidate' = Candidate /\ ResolveFanoutCap(req.cap)' = ResolveFanoutCap(req.cap)
  BY <1>1 DEF Others, Candidate, ResolveFanoutCap
<1>4. TypeOK'
  <2>1. changes' \in 0..MaxChanges
    BY <1>1, CapsAssumption DEF IInv, TypeOK
  <2>2. QED
    BY <1>1, <1>2, <2>1 DEF IInv, TypeOK
<1>5. LoopInv' /\ FoundInv' /\ CapInv' /\ CapRespected' /\ NoMemoryTwice'
  BY <1>1, <1>3 DEF IInv, LoopInv, FoundInv, CapInv, CapRespected, NoMemoryTwice
<1>6. OwnInv'
  <2>1. pc \in {"lookup", "open"} => Candidate \in Projects
    BY CandidateIsLeft DEF IInv, LoopInv, TypeOK
  <2>2. QED
    BY <1>1, <1>2, <1>3, <2>1 DEF IInv, OwnInv, OwnReadOnce
<1>7. QED
  BY <1>4, <1>5, <1>6 DEF IInv

LEMMA NextIInv == IInv /\ [Next]_vars => IInv'
<1> SUFFICES ASSUME IInv, [Next]_vars
             PROVE  IInv'
  OBVIOUS
<1>1. CASE \E r \in Requests : Search(r)
  BY <1>1, SearchKeeps
<1>2. CASE ListKnownProjects \/ (\E pid \in Projects : Expand(pid)) \/ NextLayer
  BY <1>2, WalkKeeps
<1>3. CASE QueryOwn
  BY <1>3, QueryOwnKeeps
<1>4. CASE CheckAlias
  BY <1>4, CheckAliasKeeps
<1>5. CASE Lookup
  BY <1>5, LookupKeeps
<1>6. CASE OpenForeign
  BY <1>6, OpenForeignKeeps
<1>7. CASE Merge
  BY <1>7, MergeKeeps
<1>8. CASE Environment
  BY <1>8, EnvironmentKeeps
<1>9. CASE UNCHANGED vars
  BY <1>9 DEF vars, world, walk, history, IInv, TypeOK, LoopInv, CapInv, FoundInv, OwnInv,
     OwnReadOnce, CapRespected, NoMemoryTwice, Others, Candidate, ResolveFanoutCap
<1>10. QED
  BY <1>1, <1>2, <1>3, <1>4, <1>5, <1>6, <1>7, <1>8, <1>9 DEF Next, SearchStep

-----------------------------------------------------------------------------
(***************************************************************************)
(* Theorems.                                                               *)
(***************************************************************************)

\* The invariant of the search and of the changes made meanwhile.
THEOREM Invariance == Spec => []IInv
<1>1. Init => IInv
  BY InitIInv
<1>2. IInv /\ [Next]_vars => IInv'
  BY NextIInv
<1>3. QED
  BY <1>1, <1>2, PTL DEF Spec

\* Every variable of the search keeps its type.
THEOREM TypeCorrect == Spec => []TypeOK
<1>1. IInv => TypeOK
  BY DEF IInv
<1>2. QED
  BY <1>1, Invariance, PTL

\* _cross_project_fanout opens no more foreign databases than allowed, and says
\* it was capped only when it has opened them all and left somebody out.
THEOREM CapHolds == Spec => []CapRespected
<1>1. IInv => CapRespected
  BY DEF IInv
<1>2. QED
  BY <1>1, Invariance, PTL

\* No search reports one memory twice, whichever names lead to its file.
THEOREM ReportedOnce == Spec => []NoMemoryTwice
<1>1. IInv => NoMemoryTwice
  BY DEF IInv
<1>2. QED
  BY <1>1, Invariance, PTL

\* The alias check keeps the caller's own file from being searched twice, but
\* for a project whose entry changes between the two reads of it.
THEOREM OwnFileOnce == Spec => []OwnReadOnce
<1>1. IInv => OwnReadOnce
  BY DEF IInv, OwnInv
<1>2. QED
  BY <1>1, Invariance, PTL

\* A search never creates a database file: only its owner does.
THEOREM CreatesNothing == Spec => NeverCreates
<1> DEFINE Creates == \A f \in Files : disk[f] = "gone" => disk'[f] = "gone"
<1>1. ASSUME [Next]_vars, pc' # pc
      PROVE  Creates
  <2>1. ~ Environment
    BY <1>1 DEF Environment, Register, Link, Touch, Change
  <2>2. disk' = disk
    BY <1>1, <2>1 DEF Next, SearchStep, vars, world, Search, ListKnownProjects, Expand,
       NextLayer, QueryOwn, CheckAlias, Lookup, OpenForeign, Merge
  <2>3. QED
    BY <2>2
<1>2. [Next]_vars => [pc' # pc => Creates]_vars
  BY <1>1
<1>3. QED
  BY <1>2, PTL DEF Spec, NeverCreates

-----------------------------------------------------------------------------
(***************************************************************************)
(* The reference for recall_related, by what its walks do.                 *)
(***************************************************************************)
Walk(es, pid, n, q, steps) ==
  /\ steps \in [0..n -> Projects]
  /\ steps[0] = pid /\ steps[n] = q
  /\ \A i \in 0..n - 1 : steps[i + 1] = steps[i] \/ Linked(es, steps[i], steps[i + 1])

LEMMA WithinWalk ==
  ASSUME NEW es, NEW pid, NEW n, NEW q
  PROVE  q \in Within(es, pid, n) <=> q \in Projects /\ \E steps : Walk(es, pid, n, q, steps)
BY DEF Within, Walk

LEMMA WithinZero ==
  ASSUME NEW es, NEW pid \in Projects
  PROVE  Within(es, pid, 0) = {pid}
<1>1. Walk(es, pid, 0, pid, [i \in 0..0 |-> pid])
  BY DEF Walk
<1>2. \A q, steps : Walk(es, pid, 0, q, steps) => q = pid
  BY DEF Walk
<1>3. QED
  BY <1>1, <1>2, WithinWalk

\* One edge further, one walk longer.
LEMMA WithinExtends ==
  ASSUME NEW es, NEW pid, NEW n \in Nat, NEW q \in Within(es, pid, n), NEW t \in Projects,
         t = q \/ Linked(es, q, t)
  PROVE  t \in Within(es, pid, n + 1)
<1>1. PICK steps : Walk(es, pid, n, q, steps)
  BY WithinWalk
<1> DEFINE more == [i \in 0..n + 1 |-> IF i = n + 1 THEN t ELSE steps[i]]
<1>2. more \in [0..n + 1 -> Projects] /\ more[0] = pid /\ more[n + 1] = t
  BY <1>1 DEF Walk
<1>3. ASSUME NEW i \in 0..(n + 1) - 1
      PROVE  more[i + 1] = more[i] \/ Linked(es, more[i], more[i + 1])
  <2>1. CASE i = n
    <3>1. more[i] = q /\ more[i + 1] = t
      BY <1>1, <2>1 DEF Walk
    <3>2. QED
      BY <3>1
  <2>2. CASE i # n
    <3>1. i \in 0..n - 1 /\ more[i] = steps[i] /\ more[i + 1] = steps[i + 1]
      BY <2>2
    <3>2. steps[i + 1] = steps[i] \/ Linked(es, steps[i], steps[i + 1])
      BY <1>1, <3>1 DEF Walk
    <3>3. QED
      BY <3>1, <3>2
  <2>3. QED
    BY <2>1, <2>2
<1> HIDE DEF more
<1>4. Walk(es, pid, n + 1, t, more)
  BY <1>2, <1>3 DEF Walk
<1>5. QED
  BY <1>4, WithinWalk

\* A walk is a shorter one and its last edge.
LEMMA WithinShrinks ==
  ASSUME NEW es, NEW pid, NEW n \in Nat, NEW t \in Within(es, pid, n + 1)
  PROVE  \E q \in Within(es, pid, n) : t = q \/ Linked(es, q, t)
<1>1. PICK steps : Walk(es, pid, n + 1, t, steps)
  BY WithinWalk
<1> DEFINE less == [i \in 0..n |-> steps[i]]
<1>2. steps[n] \in Projects /\ less \in [0..n -> Projects] /\ less[0] = pid /\ less[n] = steps[n]
  BY <1>1 DEF Walk
<1>3. \A i \in 0..n - 1 : less[i + 1] = less[i] \/ Linked(es, less[i], less[i + 1])
  <2>1. ASSUME NEW i \in 0..n - 1
        PROVE  less[i + 1] = less[i] \/ Linked(es, less[i], less[i + 1])
    <3>1. i \in 0..(n + 1) - 1 /\ less[i] = steps[i] /\ less[i + 1] = steps[i + 1]
      OBVIOUS
    <3>2. steps[i + 1] = steps[i] \/ Linked(es, steps[i], steps[i + 1])
      BY <1>1, <3>1 DEF Walk
    <3>3. QED
      BY <3>1, <3>2
  <2>2. QED
    BY <2>1
<1> HIDE DEF less
<1>4. Walk(es, pid, n, steps[n], less)
  BY <1>2, <1>3 DEF Walk
<1>5. steps[n] \in Within(es, pid, n)
  BY <1>2, <1>4, WithinWalk
<1>6. t = steps[n] \/ Linked(es, steps[n], t)
  <2>1. n \in 0..(n + 1) - 1
    OBVIOUS
  <2>2. steps[n + 1] = steps[n] \/ Linked(es, steps[n], steps[n + 1])
    BY <1>1, <2>1 DEF Walk
  <2>3. QED
    BY <1>1, <2>2 DEF Walk
<1>7. QED
  BY <1>5, <1>6

\* Edges that are added take nothing away.
LEMMA WithinGrows ==
  ASSUME NEW es, NEW fs, es \subseteq fs, NEW pid, NEW n
  PROVE  Within(es, pid, n) \subseteq Within(fs, pid, n)
<1>1. \A q, steps : Walk(es, pid, n, q, steps) => Walk(fs, pid, n, q, steps)
  BY DEF Walk, Linked
<1>2. QED
  BY <1>1, WithinWalk

\* A walk may stand still.
LEMMA WithinLonger ==
  ASSUME NEW es, NEW pid, NEW n \in Nat, NEW k \in Nat, n <= k
  PROVE  Within(es, pid, n) \subseteq Within(es, pid, k)
<1> SUFFICES ASSUME NEW q \in Within(es, pid, n)
             PROVE  q \in Within(es, pid, k)
  OBVIOUS
<1>1. PICK steps : Walk(es, pid, n, q, steps)
  BY WithinWalk
<1> DEFINE more == [i \in 0..k |-> IF i <= n THEN steps[i] ELSE q]
<1>2. q \in Projects /\ more \in [0..k -> Projects] /\ more[0] = pid /\ more[k] = q
  BY <1>1, WithinWalk DEF Walk
<1>3. ASSUME NEW i \in 0..k - 1
      PROVE  more[i + 1] = more[i] \/ Linked(es, more[i], more[i + 1])
  <2>1. CASE i < n
    <3>1. i \in 0..n - 1 /\ more[i] = steps[i] /\ more[i + 1] = steps[i + 1]
      BY <2>1
    <3>2. steps[i + 1] = steps[i] \/ Linked(es, steps[i], steps[i + 1])
      BY <1>1, <3>1 DEF Walk
    <3>3. QED
      BY <3>1, <3>2
  <2>2. CASE i >= n
    <3>1. more[i] = q /\ more[i + 1] = q
      BY <1>1, <2>2 DEF Walk
    <3>2. QED
      BY <3>1
  <2>3. QED
    BY <2>1, <2>2
<1> HIDE DEF more
<1>4. Walk(es, pid, k, q, more)
  BY <1>2, <1>3 DEF Walk
<1>5. QED
  BY <1>2, <1>4, WithinWalk

\* No walk leaves a set that no edge leaves: there is no first step outside.
LEMMA WithinClosed ==
  ASSUME NEW es, NEW pid, NEW n \in Nat, NEW inside, pid \in inside,
         \A q \in inside, t \in Projects : Linked(es, q, t) => t \in inside
  PROVE  Within(es, pid, n) \subseteq inside
<1> SUFFICES ASSUME NEW q \in Within(es, pid, n), q \notin inside
             PROVE  FALSE
  OBVIOUS
<1>1. PICK steps : Walk(es, pid, n, q, steps)
  BY WithinWalk
<1> DEFINE outside == {i \in 0..n : steps[i] \notin inside}
           R == {ss \in Nat \X Nat : ss[1] < ss[2]}
<1>2. n \in outside
  BY <1>1 DEF Walk
<1>3. PICK i \in outside : \A j \in outside : ~ (<<j, i>> \in R)
  <2>1. IsWellFoundedOn(R, Nat)
    BY NatLessThanWellFounded, Zenon DEF OpToRel
  <2>2. outside \subseteq Nat
    OBVIOUS
  <2> HIDE DEF R, outside
  <2>3. QED
    BY <1>2, <2>1, <2>2, WFMin, Zenon
<1>4. i \in 0..n /\ steps[i] \notin inside /\ i # 0
  BY <1>1 DEF Walk
<1>5. i - 1 \in 0..n - 1 /\ i - 1 \in 0..n /\ <<i - 1, i>> \in R /\ (i - 1) + 1 = i
  BY <1>4
<1>6. steps[i - 1] \in inside
  BY <1>3, <1>5
<1>7. steps[i] = steps[i - 1] \/ Linked(es, steps[i - 1], steps[i])
  BY <1>1, <1>5 DEF Walk
<1>8. steps[i] \in Projects
  BY <1>1, <1>4 DEF Walk
<1>9. QED
  BY <1>4, <1>6, <1>7, <1>8

-----------------------------------------------------------------------------
(***************************************************************************)
(* The walk over the edges.  While it is at a layer, all it has visited is *)
(* within the layers it has left, or is the next one; what is within them  *)
(* by the edges of the beginning is visited; and the neighbours of what    *)
(* it has done with are visited too, so that a layer without successors    *)
(* ends the walk.                                                          *)
(***************************************************************************)
AfterWalk == {"own", "next", "lookup", "open", "merge", "done"}

WalkPlace ==
  /\ pc = "list" => req.by = "label"
  /\ pc = "expand" => req.by # "label" /\ layer \in 1..req.hops
  /\ pc = "idle" => opened = {}

OnlyRelated ==
  req.by # "label" =>
    /\ pc = "expand" =>
         /\ frontier \subseteq Within(edges, req.project, layer - 1)
         /\ visited \subseteq Within(edges, req.project, layer - 1) \union next_frontier
         /\ next_frontier \subseteq Within(edges, req.project, layer)
    /\ pc \in AfterWalk => visited \subseteq Within(edges, req.project, req.hops)

AllRelated ==
  req.by # "label" /\ ~failed =>
    /\ pc = "expand" =>
         /\ req.project \in visited
         /\ Within(edges_then, req.project, layer - 1) \subseteq visited
         /\ next_frontier \intersect Within(edges_then, req.project, layer - 1) = {}
         /\ \A q \in visited \ (frontier \union next_frontier) :
              Neighbours(edges_then, q) \subseteq visited
    /\ pc \in AfterWalk => Within(edges_then, req.project, req.hops) \subseteq visited

\* A search by label considers every project that was known when it listed them.
AllKnown ==
  req.by = "label" /\ ~failed /\ pc \in AfterWalk =>
    \A pid \in Projects \ moved : registry[pid] # NoFile => pid \in visited

WalkInv == WalkPlace /\ OnlyRelated /\ AllRelated /\ AllKnown

LEMMA InitWalkInv == Init => WalkInv
BY DEF Init, WalkInv, WalkPlace, OnlyRelated, AllRelated, AllKnown, AfterWalk

LEMMA SearchWalk ==
  ASSUME IInv, NEW r \in Requests, Search(r)
  PROVE  WalkInv'
<1>1. /\ req' = r /\ pc' = (IF r.by = "label" THEN "list" ELSE "expand")
      /\ visited' = {r.project} \ {NoProject} /\ frontier' = {r.project} \ {NoProject}
      /\ next_frontier' = {} /\ layer' = 1 /\ edges' = edges /\ edges_then' = edges
  BY DEF Search, Goto, world
<1>2. r.hops \in Nat \ {0} /\ (r.by # "label" => r.project \in Projects /\ r.project # NoProject)
  BY RequestsAssumption DEF Request
<1>3. CASE r.by = "label"
  BY <1>1, <1>3 DEF WalkInv, WalkPlace, OnlyRelated, AllRelated, AllKnown, AfterWalk
<1>4. CASE r.by # "label"
  <2>1. visited' = {r.project} /\ frontier' = {r.project}
    BY <1>1, <1>2, <1>4
  <2>2. Within(edges, r.project, 0) = {r.project}
    BY <1>2, <1>4, WithinZero
  <2>3. layer' - 1 = 0 /\ layer' \in 1..r.hops
    BY <1>1, <1>2
  <2>4. WalkPlace' /\ AllKnown'
    BY <1>1, <1>4, <2>3 DEF WalkPlace, AllKnown
  <2>5. OnlyRelated' /\ AllRelated'
    BY <1>1, <2>1, <2>2, <2>3 DEF OnlyRelated, AllRelated, AfterWalk
  <2>6. QED
    BY <2>4, <2>5 DEF WalkInv
<1>5. QED
  BY <1>3, <1>4

LEMMA ListWalk ==
  ASSUME IInv, WalkInv, ListKnownProjects
  PROVE  WalkInv'
<1>1. pc = "list" /\ pc' = "own" /\ req' = req /\ req.by = "label" /\ UNCHANGED <<registry, moved>>
  BY DEF ListKnownProjects, Goto, WalkInv, WalkPlace, world
<1>2. PICK known \in SUBSET Projects :
        /\ Reads(known, {pid \in Projects : registry[pid] # NoFile}, {})
        /\ visited' = visited \union known
  BY DEF ListKnownProjects
<1>3. ~failed' => known = {pid \in Projects : registry[pid] # NoFile}
  BY <1>2 DEF Reads, IInv, TypeOK
<1>4. AllKnown'
  BY <1>1, <1>2, <1>3 DEF AllKnown
<1>5. QED
  BY <1>1, <1>4 DEF WalkInv, WalkPlace, OnlyRelated, AllRelated

LEMMA ExpandWalk ==
  ASSUME IInv, WalkInv, NEW pid \in Projects, Expand(pid)
  PROVE  WalkInv'
<1>1. /\ pc = "expand" /\ pc' = pc /\ pid \in frontier /\ frontier' = frontier \ {pid}
      /\ UNCHANGED <<req, layer, edges, edges_then, opened>>
  BY DEF Expand, world
<1>2. req.by # "label" /\ layer \in 1..req.hops /\ layer - 1 \in Nat /\ (layer - 1) + 1 = layer
  <2>1. req.hops \in Nat
    BY RequestsAssumption DEF IInv, TypeOK, Request
  <2>2. layer \in 1..req.hops /\ req.by # "label"
    BY <1>1 DEF WalkInv, WalkPlace
  <2>3. QED
    BY <2>1, <2>2
<1>3. PICK near \in SUBSET Projects :
        /\ Reads(near, Neighbours(edges, pid), {})
        /\ next_frontier' = next_frontier \union (near \ visited)
        /\ visited' = visited \union near
  BY DEF Expand
<1>4. near \subseteq Neighbours(edges, pid)
      /\ (~failed' => ~failed /\ near = Neighbours(edges, pid))
  BY <1>3 DEF Reads, IInv, TypeOK
<1> DEFINE p == req.project
<1>5. OnlyRelated'
  <2>1. /\ frontier \subseteq Within(edges, p, layer - 1)
        /\ visited \subseteq Within(edges, p, layer - 1) \union next_frontier
        /\ next_frontier \subseteq Within(edges, p, layer)
    BY <1>1, <1>2 DEF WalkInv, OnlyRelated
  <2>2. near \subseteq Within(edges, p, layer)
    <3>1. SUFFICES ASSUME NEW q \in near PROVE q \in Within(edges, p, layer)
      OBVIOUS
    <3>2. Linked(edges, pid, q)
      BY <1>4 DEF Neighbours, Linked
    <3>3. QED
      BY <1>1, <1>2, <2>1, <3>2, WithinExtends
  <2>3. QED
    BY <1>1, <1>3, <2>1, <2>2 DEF OnlyRelated, AfterWalk
<1>6. AllRelated'
  <2>1. SUFFICES ASSUME ~failed'
                 PROVE  /\ p \in visited'
                        /\ Within(edges_then, p, layer - 1) \subseteq visited'
                        /\ next_frontier' \intersect Within(edges_then, p, layer - 1) = {}
                        /\ \A q \in visited' \ (frontier' \union next_frontier') :
                             Neighbours(edges_then, q) \subseteq visited'
    BY <1>1 DEF AllRelated, AfterWalk
  <2>2. /\ p \in visited
        /\ Within(edges_then, p, layer - 1) \subseteq visited
        /\ next_frontier \intersect Within(edges_then, p, layer - 1) = {}
        /\ \A q \in visited \ (frontier \union next_frontier) :
             Neighbours(edges_then, q) \subseteq visited
    BY <1>1, <1>2, <1>4, <2>1 DEF WalkInv, AllRelated
  <2>3. Neighbours(edges_then, pid) \subseteq visited'
    BY <1>3, <1>4, <2>1 DEF Neighbours, IInv, TypeOK
  <2>4. QED
    BY <1>1, <1>3, <2>2, <2>3
<1>7. WalkPlace' /\ AllKnown'
  BY <1>1, <1>2 DEF WalkPlace, AllKnown, AfterWalk
<1>8. QED
  BY <1>5, <1>6, <1>7 DEF WalkInv

LEMMA NextLayerWalk ==
  ASSUME IInv, WalkInv, NextLayer
  PROVE  WalkInv'
<1> DEFINE p == req.project
<1>1. /\ pc = "expand" /\ frontier = {}
      /\ UNCHANGED <<req, visited, edges, edges_then, failed, opened>>
  BY DEF NextLayer, world, history
<1>2. /\ req.by # "label" /\ layer \in 1..req.hops /\ layer - 1 \in Nat /\ (layer - 1) + 1 = layer
      /\ layer \in Nat /\ req.hops \in Nat
  <2>1. req.hops \in Nat
    BY RequestsAssumption DEF IInv, TypeOK, Request
  <2>2. layer \in 1..req.hops /\ req.by # "label"
    BY <1>1 DEF WalkInv, WalkPlace
  <2>3. QED
    BY <2>1, <2>2
<1>3. /\ visited \subseteq Within(edges, p, layer - 1) \union next_frontier
      /\ next_frontier \subseteq Within(edges, p, layer)
      /\ Within(edges, p, layer - 1) \subseteq Within(edges, p, layer)
      /\ Within(edges, p, layer - 1) \subseteq Within(edges, p, req.hops)
      /\ Within(edges, p, layer) \subseteq Within(edges, p, req.hops)
  BY <1>1, <1>2, WithinLonger DEF WalkInv, OnlyRelated
\* All of the next layer is visited, by the edges of the beginning.
<1>4. ASSUME ~failed
      PROVE  Within(edges_then, p, layer) \subseteq visited
  <2>1. SUFFICES ASSUME NEW t \in Within(edges_then, p, layer) PROVE t \in visited
    OBVIOUS
  <2>2. PICK q \in Within(edges_then, p, layer - 1) : t = q \/ Linked(edges_then, q, t)
    BY <1>2, WithinShrinks
  <2>3. q \in visited /\ q \notin next_frontier
    BY <1>1, <1>2, <1>4 DEF WalkInv, AllRelated
  <2>4. Neighbours(edges_then, q) \subseteq visited
    BY <1>1, <1>2, <1>4, <2>3 DEF WalkInv, AllRelated
  <2>5. t \in Projects
    BY WithinWalk
  <2>6. QED
    BY <2>2, <2>3, <2>4, <2>5 DEF Neighbours, Linked
<1>5. CASE next_frontier = {} \/ layer = req.hops
  <2>1. pc' = "own" /\ UNCHANGED <<frontier, next_frontier, layer>>
    BY <1>5 DEF NextLayer, Goto
  <2>2. visited \subseteq Within(edges, p, req.hops)
    BY <1>3
  <2>3. ASSUME ~failed
        PROVE  Within(edges_then, p, req.hops) \subseteq visited
    <3>1. CASE layer = req.hops
      BY <1>4, <2>3, <3>1
    <3>2. CASE next_frontier = {}
      <4>1. p \in visited /\ \A q \in visited : Neighbours(edges_then, q) \subseteq visited
        BY <1>1, <1>2, <2>3, <3>2 DEF WalkInv, AllRelated
      <4>2. \A q \in visited, t \in Projects : Linked(edges_then, q, t) => t \in visited
        BY <4>1 DEF Neighbours, Linked
      <4>3. QED
        BY <1>2, <4>1, <4>2, WithinClosed
    <3>3. QED
      BY <1>5, <3>1, <3>2
  <2>4. OnlyRelated' /\ AllRelated'
    BY <1>1, <2>1, <2>2, <2>3 DEF OnlyRelated, AllRelated
  <2>5. WalkPlace' /\ AllKnown'
    BY <1>1, <1>2, <2>1 DEF WalkPlace, AllKnown
  <2>6. QED
    BY <2>4, <2>5 DEF WalkInv
<1>6. CASE next_frontier # {} /\ layer # req.hops
  <2>1. pc' = pc /\ frontier' = next_frontier /\ next_frontier' = {} /\ layer' = layer + 1
    BY <1>6 DEF NextLayer
  <2>2. layer' \in 1..req.hops /\ layer' - 1 = layer
    BY <1>2, <1>6, <2>1
  <2>3. OnlyRelated'
    BY <1>1, <1>3, <2>1, <2>2 DEF OnlyRelated, AfterWalk
  <2>4. AllRelated'
    <3>1. ASSUME ~failed
          PROVE  /\ p \in visited
                 /\ \A q \in visited \ next_frontier : Neighbours(edges_then, q) \subseteq visited
      BY <1>1, <1>2, <3>1 DEF WalkInv, AllRelated
    <3>2. QED
      BY <1>1, <1>4, <2>1, <2>2, <3>1 DEF AllRelated, AfterWalk
  <2>5. WalkPlace' /\ AllKnown'
    BY <1>1, <1>2, <2>1, <2>2 DEF WalkPlace, AllKnown, AfterWalk
  <2>6. QED
    BY <2>3, <2>4, <2>5 DEF WalkInv
<1>7. QED
  BY <1>5, <1>6

\* The loop leaves alone what the walk has visited.
LEMMA LoopWalk ==
  ASSUME IInv, WalkInv, QueryOwn \/ CheckAlias \/ Lookup \/ OpenForeign \/ Merge
  PROVE  WalkInv'
<1>1. /\ UNCHANGED <<registry, edges, req, visited, edges_then, moved>>
      /\ failed' \in BOOLEAN /\ (failed => failed')
  BY DEF QueryOwn, CheckAlias, Lookup, OpenForeign, Merge, Reads, world, walk, history,
         IInv, TypeOK
<1>2. pc \in AfterWalk /\ pc' \in {"idle"} \union AfterWalk /\ pc' # "list"
  BY DEF QueryOwn, CheckAlias, Lookup, OpenForeign, Merge, Goto, Skip, AfterWalk
<1>3. pc' = "idle" => opened' = {}
  BY DEF QueryOwn, CheckAlias, Lookup, OpenForeign, Merge, Goto, Skip, IInv, LoopInv
<1>4. QED
  BY <1>1, <1>2, <1>3 DEF WalkInv, WalkPlace, OnlyRelated, AllRelated, AllKnown, AfterWalk

\* Edges are only added, and an entry that changes is one that moved.
LEMMA EnvironmentWalk ==
  ASSUME IInv, WalkInv, Environment
  PROVE  WalkInv'
<1>1. /\ UNCHANGED <<pc, req, frontier, next_frontier, visited, layer, opened, edges_then, failed>>
      /\ edges \subseteq edges' /\ moved \subseteq moved'
  BY DEF Environment, Register, Link, Touch, Change, walk
<1>2. \A pid \in Projects : registry'[pid] # registry[pid] => pid \in moved'
  BY DEF Environment, Register, Link, Touch, IInv, TypeOK
<1>3. \A n : Within(edges, req.project, n) \subseteq Within(edges', req.project, n)
  BY <1>1, WithinGrows
<1>4. OnlyRelated'
  BY <1>1, <1>3 DEF WalkInv, OnlyRelated
<1>5. AllKnown'
  BY <1>1, <1>2 DEF WalkInv, AllKnown
<1>6. QED
  BY <1>1, <1>4, <1>5 DEF WalkInv, WalkPlace, AllRelated

LEMMA NextWalkInv == IInv /\ WalkInv /\ [Next]_vars => WalkInv'
<1> SUFFICES ASSUME IInv, WalkInv, [Next]_vars
             PROVE  WalkInv'
  OBVIOUS
<1>1. CASE UNCHANGED vars
  BY <1>1 DEF vars, world, walk, history, WalkInv, WalkPlace, OnlyRelated, AllRelated, AllKnown
<1>2. CASE Next
  BY <1>2, SearchWalk, ListWalk, ExpandWalk, NextLayerWalk, LoopWalk, EnvironmentWalk
     DEF Next, SearchStep
<1>3. QED
  BY <1>1, <1>2

THEOREM WalkInvariance == Spec => []WalkInv
BY InitWalkInv, NextWalkInv, Invariance, PTL DEF Spec

(***************************************************************************)
(* A search over related projects opens only projects within the hops, by  *)
(* the edges there are: layers read at different times add none.           *)
(***************************************************************************)
THEOREM OpensOnlyRelated == Spec => []OnlyRelatedOpened
<1>1. IInv /\ WalkInv => OnlyRelatedOpened
  <2>1. SUFFICES ASSUME IInv, WalkInv, req.by # "label", NEW o \in opened
                 PROVE  o[1] \in Within(edges, req.project, req.hops) \ {req.project}
    BY DEF OnlyRelatedOpened
  <2>2. pc \in AfterWalk
    BY <2>1 DEF IInv, TypeOK, LoopInv, WalkInv, WalkPlace, AfterWalk
  <2>3. o[1] \in visited /\ o[1] # req.project
    BY <2>1 DEF IInv, LoopInv, Others
  <2>4. QED
    BY <2>1, <2>2, <2>3 DEF WalkInv, OnlyRelated
<1>2. QED
  BY <1>1, Invariance, WalkInvariance, PTL

-----------------------------------------------------------------------------
(***************************************************************************)
(* The loop.  A candidate that has left `todo` was opened where it is now, *)
(* is nowhere to be opened, or has changed during the call; and one that   *)
(* is being opened is opened where the registry says, or has changed.      *)
(***************************************************************************)
AfterOwn == {"next", "lookup", "open", "merge", "done"}

DealtWith(pid) ==
  \/ registry[pid] \in {NoFile, Own}
  \/ disk[registry[pid]] = "gone"
  \/ <<pid, registry[pid]>> \in opened

CompleteInv ==
  /\ ~failed /\ pc \in AfterOwn => \A pid \in Others \ (todo \union moved) : DealtWith(pid)
  /\ ~failed /\ pc = "open" => Candidate \in moved \/ target = registry[Candidate]
  /\ pc = "done" /\ ~answer.capped => todo = {}

\* One candidate more.
LEMMA SkipComplete ==
  ASSUME IInv, CompleteInv, Skip, pc \in AfterOwn, todo # {},
         UNCHANGED <<registry, disk, moved, visited, req>>, opened \subseteq opened',
         NEW c, c = Candidate,
         failed => failed', ~failed' => c \in moved \/ DealtWith(c)'
  PROVE  CompleteInv'
<1>1. pc' = "next" /\ todo' = todo \ {Candidate} /\ Others' = Others
  BY DEF Skip, Goto, Others
<1>2. ASSUME ~failed', NEW pid \in Others \ (todo' \union moved)
      PROVE  DealtWith(pid)'
  <2>1. CASE pid = c
    BY <1>2, <2>1
  <2>2. CASE pid # c
    <3>1. DealtWith(pid)
      BY <1>1, <1>2, <2>2 DEF CompleteInv
    <3>2. QED
      BY <3>1 DEF DealtWith
  <2>3. QED
    BY <2>1, <2>2
<1>3. QED
  BY <1>1, <1>2 DEF CompleteInv

LEMMA QueryOwnComplete ==
  ASSUME IInv, CompleteInv, QueryOwn
  PROVE  CompleteInv'
<1>1. CASE pc' = "idle"
  BY <1>1 DEF CompleteInv, AfterOwn
<1>2. CASE pc' # "idle"
  <2>1. pc' = "next" /\ todo' = Others /\ Others' = Others
    BY <1>2 DEF QueryOwn, Goto, Others, walk
  <2>2. QED
    BY <2>1 DEF CompleteInv
<1>3. QED
  BY <1>1, <1>2

LEMMA CheckAliasComplete ==
  ASSUME IInv, CompleteInv, CheckAlias
  PROVE  CompleteInv'
<1>1. PICK f \in Files \union {NoFile} :
        /\ Reads(f, registry[Candidate], NoFile)
        /\ \/ f = Own /\ Skip
           \/ f # Own /\ Goto("lookup") /\ UNCHANGED todo
           \/ f # Own /\ Goto("merge") /\ UNCHANGED todo
  BY DEF CheckAlias
<1>2. /\ pc = "next" /\ todo # {}
      /\ UNCHANGED <<registry, disk, moved, visited, req, opened, target>>
  BY DEF CheckAlias, world, walk
<1>3. (failed => failed') /\ (~failed' => f = registry[Candidate])
  BY <1>1 DEF Reads, IInv, TypeOK
<1>4. CASE f = Own /\ Skip
  <2>1. PICK c : c = Candidate
    OBVIOUS
  <2>2. ~failed' => DealtWith(c)'
    BY <1>2, <1>3, <1>4, <2>1 DEF DealtWith
  <2>3. QED
    BY <1>2, <1>3, <1>4, <2>1, <2>2, SkipComplete DEF AfterOwn
<1>5. CASE todo' = todo /\ pc' \in {"lookup", "merge"}
  <2>1. Others' = Others
    BY <1>2 DEF Others
  <2>2. QED
    BY <1>2, <1>3, <1>5, <2>1 DEF CompleteInv, AfterOwn, DealtWith
<1>6. QED
  BY <1>1, <1>4, <1>5 DEF Goto

LEMMA LookupComplete ==
  ASSUME IInv, CompleteInv, Lookup
  PROVE  CompleteInv'
<1>1. PICK f \in Files \union {NoFile} :
        /\ Reads(f, registry[Candidate], NoFile)
        /\ target' = f
        /\ IF f = NoFile THEN Skip
           ELSE IF disk[f] = "gone" THEN Skip
           ELSE Goto("open") /\ UNCHANGED todo
  BY DEF Lookup
<1>2. /\ pc = "lookup" /\ todo # {}
      /\ UNCHANGED <<registry, disk, moved, visited, req, opened>>
  BY DEF Lookup, world, walk, IInv, LoopInv
<1>3. (failed => failed') /\ (~failed' => f = registry[Candidate])
  BY <1>1 DEF Reads, IInv, TypeOK
<1>4. CASE Skip
  <2>1. ASSUME f # NoFile, disk[f] # "gone"
        PROVE  CompleteInv'
    <3>1. pc' = "open" /\ pc' = "next"
      BY <1>1, <1>4, <2>1 DEF Skip, Goto
    <3>2. QED
      BY <3>1
  <2>2. ASSUME f = NoFile \/ disk[f] = "gone"
        PROVE  CompleteInv'
    <3>1. PICK c : c = Candidate
      OBVIOUS
    <3>2. ~failed' => DealtWith(c)'
      BY <1>2, <1>3, <2>2, <3>1 DEF DealtWith
    <3>3. QED
      BY <1>2, <1>3, <1>4, <3>1, <3>2, SkipComplete DEF AfterOwn
  <2>3. QED
    BY <2>1, <2>2
<1>5. CASE todo' = todo /\ pc' = "open"
  <2>1. Others' = Others /\ Candidate' = Candidate
    BY <1>2, <1>5 DEF Others, Candidate
  <2>2. ~failed' => target' = registry'[Candidate]
    BY <1>1, <1>2, <1>3
  <2>3. QED
    BY <1>2, <1>3, <1>5, <2>1, <2>2 DEF CompleteInv, AfterOwn, DealtWith
<1>6. QED
  BY <1>1, <1>4, <1>5 DEF Goto

LEMMA OpenForeignComplete ==
  ASSUME IInv, CompleteInv, OpenForeign
  PROVE  CompleteInv'
<1>1. /\ pc = "open" /\ todo # {} /\ Skip
      /\ opened' = (IF disk[target] = "gone" THEN opened ELSE opened \union {<<Candidate, target>>})
      /\ UNCHANGED <<registry, disk, moved, visited, req, failed>>
  BY DEF OpenForeign, world, walk, IInv, LoopInv
<1>2. PICK c : c = Candidate
  OBVIOUS
<1>3. ASSUME ~failed, c \notin moved
      PROVE  DealtWith(c)'
  <2>1. target = registry[c]
    BY <1>1, <1>2, <1>3 DEF CompleteInv
  <2>2. disk[target] = "gone" \/ <<c, target>> \in opened'
    BY <1>1, <1>2
  <2>3. QED
    BY <1>1, <2>1, <2>2 DEF DealtWith
<1>4. QED
  BY <1>1, <1>2, <1>3, SkipComplete DEF AfterOwn

LEMMA MergeComplete ==
  ASSUME IInv, CompleteInv, Merge
  PROVE  CompleteInv'
<1>1. /\ pc \in AfterOwn /\ pc' = "done"
      /\ UNCHANGED <<registry, disk, moved, visited, req, opened, todo, failed>>
  BY DEF Merge, Goto, world, walk, history, AfterOwn
<1>2. PICK top \in BestOf(Deduped(found), req.top_k) :
        answer' = [results |-> {[file |-> h.file, row |-> h.row] : h \in top},
                   more |-> Cardinality(Deduped(found)) > req.top_k,
                   capped |-> pc = "merge",
                   total |-> Cardinality(Others),
                   searched |-> Cardinality(opened)]
  BY DEF Merge
<1>3. answer'.capped = (pc = "merge")
  BY <1>2
<1>4. ~answer'.capped => todo' = {}
  BY <1>1, <1>3 DEF Merge
<1>5. Others' = Others
  BY <1>1 DEF Others
<1>6. QED
  BY <1>1, <1>4, <1>5 DEF CompleteInv, DealtWith

LEMMA EnvironmentComplete ==
  ASSUME IInv, CompleteInv, Environment
  PROVE  CompleteInv'
<1>1. /\ UNCHANGED <<pc, req, visited, todo, target, opened, answer, failed>>
      /\ moved \subseteq moved'
  BY DEF Environment, Register, Link, Touch, Change, walk
<1>2. \A pid \in Projects \ moved' :
        /\ registry'[pid] = registry[pid]
        /\ registry[pid] # NoFile => disk'[registry[pid]] = disk[registry[pid]]
  BY DEF Environment, Register, Link, Touch, IInv, TypeOK
<1>3. Others' = Others /\ Candidate' = Candidate /\ Others \subseteq Projects
  BY <1>1 DEF Others, Candidate, IInv, TypeOK
<1>4. \A pid \in Others \ moved' : DealtWith(pid) => DealtWith(pid)'
  BY <1>1, <1>2, <1>3 DEF DealtWith
<1>5. pc = "open" => Candidate \in Projects
  BY CandidateIsLeft DEF IInv, LoopInv, TypeOK
<1>6. ASSUME ~failed, pc = "open", Candidate \notin moved'
      PROVE  target = registry'[Candidate]
  BY <1>1, <1>2, <1>5, <1>6 DEF CompleteInv
<1>7. ASSUME ~failed, pc \in AfterOwn, NEW pid \in Others \ (todo \union moved')
      PROVE  DealtWith(pid)'
  BY <1>1, <1>4, <1>7 DEF CompleteInv
<1>8. QED
  BY <1>1, <1>3, <1>6, <1>7 DEF CompleteInv

LEMMA NextCompleteInv == IInv /\ CompleteInv /\ [Next]_vars => CompleteInv'
<1> SUFFICES ASSUME IInv, CompleteInv, [Next]_vars
             PROVE  CompleteInv'
  OBVIOUS
<1>1. CASE UNCHANGED vars
  <2>1. Others' = Others /\ Candidate' = Candidate
    BY <1>1 DEF vars, walk, Others, Candidate
  <2>2. QED
    BY <1>1, <2>1 DEF vars, world, walk, history, CompleteInv, DealtWith
<1>2. CASE \E r \in Requests : Search(r)
  BY <1>2 DEF Search, Goto, CompleteInv, AfterOwn
<1>3. CASE ListKnownProjects \/ (\E pid \in Projects : Expand(pid)) \/ NextLayer
  BY <1>3 DEF ListKnownProjects, Expand, NextLayer, Goto, CompleteInv, AfterOwn
<1>4. CASE QueryOwn \/ CheckAlias \/ Lookup \/ OpenForeign \/ Merge
  BY <1>4, QueryOwnComplete, CheckAliasComplete, LookupComplete, OpenForeignComplete,
     MergeComplete
<1>5. CASE Environment
  BY <1>5, EnvironmentComplete
<1>6. QED
  BY <1>1, <1>2, <1>3, <1>4, <1>5 DEF Next, SearchStep

THEOREM CompleteInvariance == Spec => []CompleteInv
<1>1. Init => CompleteInv
  BY DEF Init, CompleteInv, AfterOwn
<1>2. QED
  BY <1>1, NextCompleteInv, Invariance, PTL DEF Spec

(***************************************************************************)
(* A search that says it was not capped has left out no project that it    *)
(* could have read throughout the call, although the walk and the loop     *)
(* read the registry one entry at a time while it changes.                 *)
(***************************************************************************)
THEOREM SearchesAll == Spec => []SearchComplete
<1>1. IInv /\ WalkInv /\ CompleteInv => SearchComplete
  <2>1. SUFFICES ASSUME IInv, WalkInv, CompleteInv, pc = "done", ~answer.capped, ~failed,
                        NEW pid \in Expected \ ({req.project} \union moved)
                 PROVE  DealtWith(pid)
    BY DEF SearchComplete, DealtWith
  <2>2. pid \in visited
    <3>1. CASE req.by = "label"
      BY <2>1, <3>1 DEF Expected, WalkInv, AllKnown, AfterWalk
    <3>2. CASE req.by # "label"
      BY <2>1, <3>2 DEF Expected, WalkInv, AllRelated, AfterWalk
    <3>3. QED
      BY <3>1, <3>2
  <2>3. pid \in Others /\ todo = {}
    BY <2>1, <2>2 DEF Others, CompleteInv
  <2>4. QED
    BY <2>1, <2>3 DEF CompleteInv, AfterOwn
<1>2. QED
  BY <1>1, Invariance, WalkInvariance, CompleteInvariance, PTL

-----------------------------------------------------------------------------
(***************************************************************************)
(* What is cut, and what is left.                                          *)
(***************************************************************************)

\* Whole seconds rise with created_at.
LEMMA SecondsRise ==
  ASSUME NEW a \in Nat, NEW b \in Nat, a >= b, NEW d \in Nat \ {0}
  PROVE  /\ a \div d \in Nat /\ b \div d \in Nat
         /\ a \div d >= b \div d
<1>1. PICK x \in Int : x = a \div d
  BY SMT
<1>2. PICK y \in Int : y = b \div d
  BY SMT
<1>3. x * d <= a /\ a < (x + 1) * d /\ y * d <= b
  BY <1>1, <1>2, SMT
<1>4. x >= 0 /\ y >= 0
  BY <1>1, <1>2, SMT
<1>5. x >= y
  <2>1. SUFFICES ASSUME x + 1 <= y PROVE FALSE
    OBVIOUS
  <2>2. (x + 1) * d <= y * d
    BY <2>1, SMT
  <2>3. QED
    BY <1>3, <2>2, SMT
<1>6. QED
  BY <1>1, <1>2, <1>4, <1>5

\* A later row is not listed after an earlier one.
LEMMA LaterRanksHigher ==
  ASSUME NEW r, NEW m \in Row, NEW o \in Row
  PROVE  /\ LimitRank(r, m) \in Nat /\ LimitRank(r, o) \in Nat
         /\ m.rank >= o.rank => LimitRank(r, m) >= LimitRank(r, o)
<1>1. m.rank \in Nat /\ o.rank \in Nat /\ Second \in Nat \ {0}
  BY CapsAssumption DEF Row
<1>2. m.rank >= o.rank \/ o.rank >= m.rank
  BY <1>1
<1>3. m.rank \div Second \in Nat /\ o.rank \div Second \in Nat
  BY <1>1, <1>2, SecondsRise
<1>4. m.rank >= o.rank => m.rank \div Second >= o.rank \div Second
  BY <1>1, SecondsRise
<1>5. QED
  BY <1>1, <1>3, <1>4 DEF LimitRank

\* LIMIT n leaves everything, or n.
LEMMA CutSize ==
  ASSUME NEW all, IsFiniteSet(all), NEW n \in Nat,
         NEW top \in kSubset(Min({n, Cardinality(all)}), all)
  PROVE  /\ top \subseteq all /\ IsFiniteSet(top)
         /\ Cardinality(top) \in Nat /\ Cardinality(all) \in Nat
         /\ Cardinality(top) <= n
         /\ top = all \/ (Cardinality(top) = n /\ Cardinality(all) > n)
<1>1. top \subseteq all /\ Cardinality(top) = Min({n, Cardinality(all)})
  BY DEF kSubset
<1>2. IsFiniteSet(top) /\ Cardinality(all) \in Nat /\ Cardinality(top) \in Nat
  BY <1>1, FS_Subset, FS_CardinalityType
<1>3. Min({n, Cardinality(all)}) = IF n <= Cardinality(all) THEN n ELSE Cardinality(all)
  <2> DEFINE least == IF n <= Cardinality(all) THEN n ELSE Cardinality(all)
  <2>1. /\ least \in {n, Cardinality(all)}
        /\ \A y \in {n, Cardinality(all)} : least =< y
        /\ \A x \in {n, Cardinality(all)} :
             (\A y \in {n, Cardinality(all)} : x =< y) => x = least
    BY <1>2
  <2>2. QED
    BY <2>1 DEF Min
<1>4. Cardinality(top) = Cardinality(all) => top = all
  BY <1>1, FS_Subset
<1>5. QED
  BY <1>1, <1>2, <1>3, <1>4

\* The rows of one query: all that match, or top_k + 1 of them.
LEMMA QuerySize ==
  ASSUME NEW r \in Requests, NEW n, NEW f \in Files, NEW rows \in QueryRows(r, n, f)
  PROVE  /\ rows \subseteq Matching(r, n, f) /\ Matching(r, n, f) \subseteq Row
         /\ IsFiniteSet(rows)
         /\ rows = Matching(r, n, f) \/ Cardinality(rows) = r.top_k + 1
         /\ \A m \in rows, o \in Matching(r, n, f) \ rows :
              LimitRank(r, m) >= LimitRank(r, o)
<1>1. IsFiniteSet(Matching(r, n, f)) /\ Matching(r, n, f) \subseteq Row
  <2>1. IsFiniteSet(Memories[f]) /\ Memories[f] \subseteq Row
    BY MemoriesAssumption
  <2>2. Matching(r, n, f) \in SUBSET Memories[f]
    BY DEF Matching
  <2>3. QED
    BY <2>1, <2>2, FS_Subset
<1>2. r.top_k + 1 \in Nat
  BY RequestsAssumption DEF Request
<1>3. rows \in kSubset(Min({r.top_k + 1, Cardinality(Matching(r, n, f))}), Matching(r, n, f))
  BY DEF QueryRows
<1>4. QED
  BY <1>1, <1>2, <1>3, CutSize DEF QueryRows

-----------------------------------------------------------------------------
(***************************************************************************)
(* What was found is what the queries that were read gave, each of them    *)
(* complete up to its own LIMIT.                                           *)
(***************************************************************************)
RowsFrom(hits, n) == {h.row : h \in {o \in hits : o.from = n}}

ReadInv ==
  /\ pc \in {"list", "expand", "own"} => read = {}
  /\ IsFiniteSet(found)
  /\ \A h \in found : <<h.from, h.file>> \in read
  /\ \A q \in read : RowsFrom(found, q[1]) \in QueryRows(req, q[1], q[2])

\* One query's rows become hits.
LEMMA HitsOfRows ==
  ASSUME NEW n, NEW rows, IsFiniteSet(rows), NEW hits,
         \A h \in hits : h.from = n /\ h.row \in rows,
         \A h, o \in hits : h.row = o.row => h = o,
         \A m \in rows : \E h \in hits : h.row = m
  PROVE  IsFiniteSet(hits) /\ RowsFrom(hits, n) = rows
<1>1. [h \in hits |-> h.row] \in Injection(hits, rows)
  BY DEF Injection, IsInjective
<1>2. IsFiniteSet(hits)
  BY <1>1, FS_Injection
<1>3. QED
  BY <1>2 DEF RowsFrom

LEMMA QueryOwnRead ==
  ASSUME IInv, ReadInv, QueryOwn
  PROVE  ReadInv'
<1>1. CASE disk[Own] = "corrupt"
  BY <1>1 DEF QueryOwn, Goto, ReadInv
<1>2. CASE disk[Own] # "corrupt"
  <2>1. PICK rows \in QueryRows(req, 0, Own) :
          found' = {[from |-> 0, file |-> Own, row |-> m] : m \in rows}
    BY <1>2 DEF QueryOwn
  <2>2. read' = {<<0, Own>>} /\ req' = req /\ pc' = "next"
    BY <1>2 DEF QueryOwn, Goto
  <2>3. IsFiniteSet(rows)
    BY FilesAssumption, QuerySize DEF IInv, TypeOK
  <2>4. IsFiniteSet(found') /\ RowsFrom(found', 0) = rows
    <3>1. PICK hits : hits = found'
      OBVIOUS
    <3>2. \A h \in hits : h.from = 0 /\ h.row \in rows
      BY <2>1, <3>1
    <3>3. \A h, o \in hits : h.row = o.row => h = o
      BY <2>1, <3>1
    <3>4. ASSUME NEW m \in rows PROVE \E h \in hits : h.row = m
      <4>1. PICK h : h = [from |-> 0, file |-> Own, row |-> m]
        OBVIOUS
      <4>2. QED
        BY <2>1, <3>1, <4>1
    <3>5. QED
      BY <2>3, <3>1, <3>2, <3>3, <3>4, HitsOfRows
  <2>5. \A h \in found' : h.from = 0 /\ h.file = Own
    BY <2>1
  <2>6. \A q \in read' : RowsFrom(found', q[1]) \in QueryRows(req, q[1], q[2])
    BY <2>2, <2>4
  <2>7. QED
    BY <2>2, <2>4, <2>5, <2>6 DEF ReadInv, QueryRows, Matching, LimitRank
<1>3. QED
  BY <1>1, <1>2

LEMMA OpenForeignRead ==
  ASSUME IInv, ReadInv, OpenForeign
  PROVE  ReadInv'
<1>1. /\ pc = "open" /\ todo # {} /\ target \in Files /\ pc' = "next" /\ req' = req
      /\ todo' = todo \ {Candidate} /\ visited' = visited
  BY DEF OpenForeign, IInv, LoopInv, Skip, Goto, walk
<1>2. PICK c : c = Candidate
  OBVIOUS
<1>3. c \in todo /\ \A h \in found : h.from # c
  BY <1>1, <1>2, SkipLoop, ProjectsAssumption DEF IInv, FoundInv, OpenForeign, walk
<1>4. CASE found' = found /\ read' = read
  BY <1>1, <1>4 DEF ReadInv, QueryRows, Matching, LimitRank
<1>5. CASE \E rows \in QueryRows(req, c, target) :
             /\ found' = found \union {[from |-> c, file |-> target, row |-> m] : m \in rows}
             /\ read' = read \union {<<c, target>>}
  <2>1. PICK rows \in QueryRows(req, c, target) :
             /\ found' = found \union {[from |-> c, file |-> target, row |-> m] : m \in rows}
             /\ read' = read \union {<<c, target>>}
    BY <1>5
  <2>2. PICK hits : hits = {[from |-> c, file |-> target, row |-> m] : m \in rows}
    OBVIOUS
  <2>3. IsFiniteSet(hits) /\ RowsFrom(hits, c) = rows
    <3>1. IsFiniteSet(rows)
      BY <1>1, QuerySize DEF IInv, TypeOK
    <3>2. \A h \in hits : h.from = c /\ h.row \in rows
      BY <2>2
    <3>3. \A h, o \in hits : h.row = o.row => h = o
      BY <2>2
    <3>4. ASSUME NEW m \in rows PROVE \E h \in hits : h.row = m
      <4>1. PICK h : h = [from |-> c, file |-> target, row |-> m]
        OBVIOUS
      <4>2. QED
        BY <2>2, <4>1
    <3>5. QED
      BY <3>1, <3>2, <3>3, <3>4, HitsOfRows
  <2>4. found' = found \union hits /\ \A h \in hits : h.from = c /\ h.file = target
    BY <2>1, <2>2
  <2>5. IsFiniteSet(found')
    BY <2>3, <2>4, FS_Union DEF ReadInv
  <2>6. RowsFrom(found', c) = rows
    <3>1. {o \in found' : o.from = c} = {o \in hits : o.from = c}
      BY <1>3, <2>4
    <3>2. QED
      BY <2>3, <3>1 DEF RowsFrom
  <2>7. ASSUME NEW n, n # c
        PROVE  RowsFrom(found', n) = RowsFrom(found, n)
    <3>1. {o \in found' : o.from = n} = {o \in found : o.from = n}
      BY <2>4, <2>7
    <3>2. QED
      BY <3>1 DEF RowsFrom
  <2>8. ASSUME NEW q \in read
        PROVE  q[1] # c
    <3>1. q = <<0, Own>> \/ q \in opened
      BY <2>8 DEF IInv, TypeOK
    <3>2. QED
      BY <1>1, <1>2, <1>3, <3>1, ProjectsAssumption DEF IInv, TypeOK, LoopInv
  <2>9. \A q \in read' : RowsFrom(found', q[1]) \in QueryRows(req, q[1], q[2])
    BY <2>1, <2>6, <2>7, <2>8 DEF ReadInv
  <2>10. \A h \in found' : <<h.from, h.file>> \in read'
    BY <2>1, <2>4 DEF ReadInv
  <2>11. QED
    BY <1>1, <2>5, <2>9, <2>10 DEF ReadInv, QueryRows, Matching, LimitRank
<1>6. QED
  BY <1>2, <1>4, <1>5 DEF OpenForeign

LEMMA NextReadInv == IInv /\ ReadInv /\ [Next]_vars => ReadInv'
<1> SUFFICES ASSUME IInv, ReadInv, [Next]_vars
             PROVE  ReadInv'
  OBVIOUS
<1>1. CASE \E r \in Requests : Search(r)
  BY <1>1, FS_EmptySet DEF Search, ReadInv
<1>2. CASE QueryOwn
  BY <1>2, QueryOwnRead
<1>3. CASE OpenForeign
  BY <1>3, OpenForeignRead
<1>4. ASSUME UNCHANGED <<req, found, read>>,
             pc' \in {"list", "expand", "own"} => pc \in {"list", "expand", "own"}
      PROVE  ReadInv'
  BY <1>4 DEF ReadInv, QueryRows, Matching, LimitRank
<1>5. CASE ListKnownProjects \/ (\E pid \in Projects : Expand(pid)) \/ NextLayer
  BY <1>4, <1>5 DEF ListKnownProjects, Expand, NextLayer, Goto, history
<1>6. CASE CheckAlias \/ Lookup \/ Merge
  BY <1>4, <1>6 DEF CheckAlias, Lookup, Merge, Goto, Skip, history
<1>7. CASE Environment \/ UNCHANGED vars
  BY <1>4, <1>7 DEF Environment, Register, Link, Touch, Change, vars, history
<1>8. QED
  BY <1>1, <1>2, <1>3, <1>5, <1>6, <1>7 DEF Next, SearchStep

\* Every step keeps what was found true to what was read.
THEOREM ReadInvariance == Spec => []ReadInv
<1>1. Init => ReadInv
  BY FS_EmptySet DEF Init, ReadInv
<1>2. QED
  BY <1>1, NextReadInv, Invariance, PTL DEF Spec

-----------------------------------------------------------------------------
(***************************************************************************)
(* What is reported.                                                       *)
(***************************************************************************)
Reported(h) == [file |-> h.file, row |-> h.row]

\* No query was asked of two files.
LEMMA ReadOnce ==
  ASSUME IInv, NEW q \in read
  PROVE  /\ q[1] \in Projects \union {0} /\ q[2] \in Files /\ q = <<q[1], q[2]>>
         /\ \A p \in read : p[1] = q[1] => p = q
<1>1. \A p \in read : p = <<0, Own>> \/ p \in opened
  BY DEF IInv, TypeOK
<1>2. \A p \in opened : p[1] \in Projects /\ p[2] \in Files /\ p = <<p[1], p[2]>> /\ p[1] # 0
  BY ProjectsAssumption DEF IInv, TypeOK
<1>3. \A o, p \in opened : o[1] = p[1] => o = p
  BY DEF IInv, LoopInv
<1>4. QED
  BY <1>1, <1>2, <1>3, FilesAssumption

\* Everything found was read; what a query gave was found.
LEMMA FoundIsRead ==
  ASSUME IInv, ReadInv
  PROVE  /\ \A h \in found : Reported(h) \in AllRead
         /\ \A q \in read : \A m \in RowsFrom(found, q[1]) :
              \E h \in found : Reported(h) = [file |-> q[2], row |-> m]
<1>1. ASSUME NEW h \in found
      PROVE  Reported(h) \in AllRead
  <2>1. PICK q \in read : q = <<h.from, h.file>>
    BY DEF ReadInv
  <2>2. h.row \in RowsFrom(found, q[1])
    BY <2>1 DEF RowsFrom
  <2>3. h.row \in Matching(req, q[1], q[2])
    <3>1. q[2] \in Files /\ req \in Requests
      BY ReadOnce DEF IInv, TypeOK
    <3>2. PICK rows : rows = RowsFrom(found, q[1])
      OBVIOUS
    <3>3. rows \in QueryRows(req, q[1], q[2])
      BY <3>2 DEF ReadInv
    <3>4. rows \subseteq Matching(req, q[1], q[2])
      BY <3>3 DEF QueryRows, kSubset
    <3>5. QED
      BY <2>2, <3>2, <3>4
  <2>4. Reported(h) \in {[file |-> q[2], row |-> m] : m \in Matching(req, q[1], q[2])}
    BY <2>1, <2>3 DEF Reported
  <2>5. QED
    BY <2>4 DEF AllRead
<1>2. ASSUME NEW q \in read, NEW m \in RowsFrom(found, q[1])
      PROVE  \E h \in found : Reported(h) = [file |-> q[2], row |-> m]
  <2>1. PICK h \in found : h.from = q[1] /\ h.row = m
    BY DEF RowsFrom
  <2>2. PICK p \in read : p = <<h.from, h.file>>
    BY DEF ReadInv
  <2>3. p = q
    BY <2>1, <2>2, ReadOnce
  <2>4. h.file = q[2]
    BY <2>2, <2>3
  <2>5. QED
    BY <2>1, <2>4 DEF Reported
<1>3. QED
  BY <1>1, <1>2

\* Queries are numbered.
LEMMA HitsAreHits ==
  ASSUME IInv
  PROVE  \A h \in found : h \in Hits /\ h.from \in Nat
<1>1. found \subseteq Hits /\ Projects \union {0} \subseteq Nat
  BY ProjectsAssumption DEF IInv, TypeOK
<1>2. \A h \in Hits : h.from \in Projects \union {0}
  BY DEF Hits
<1>3. QED
  BY <1>1, <1>2, Zenon

\* Of the hits with one key there is a first.
LEMMA FirstOfKey ==
  ASSUME IInv, NEW h \in found
  PROVE  \E d \in Deduped(found) : Key(d) = Key(h)
<1> DEFINE R == {ss \in Nat \X Nat : ss[1] < ss[2]}
           S == {o.from : o \in {e \in found : Key(e) = Key(h)}}
<1>1. IsWellFoundedOn(R, Nat)
  BY NatLessThanWellFounded, Zenon DEF OpToRel
<1>2. \A o \in found : o.from \in Nat
  BY HitsAreHits
<1>3. S \subseteq Nat /\ h.from \in S
  BY <1>2
<1>4. PICK x \in S : \A y \in S : ~ (<<y, x>> \in R)
  <2> HIDE DEF R, S
  <2> QED
    BY <1>1, <1>3, WFMin, Zenon
<1>5. ASSUME NEW y \in S
      PROVE  x <= y
  <2> HIDE DEF S
  <2>1. x \in Nat /\ y \in Nat /\ ~ (y < x)
    BY <1>3, <1>4
  <2>2. QED
    BY <2>1
<1>6. PICK d \in found : Key(d) = Key(h) /\ d.from = x
  OBVIOUS
<1>7. d \in Deduped(found)
  BY <1>5, <1>6 DEF Deduped
<1>8. QED
  BY <1>6, <1>7

\* Unless ids clash, the hits that are kept are the memories that were found.
LEMMA DedupedIsFound ==
  ASSUME IInv, ReadInv, ~IdsClash
  PROVE  /\ Deduped(found) \subseteq found /\ IsFiniteSet(Deduped(found))
         /\ \A h \in found : \E d \in Deduped(found) : Reported(d) = Reported(h)
         /\ \A d, e \in Deduped(found) : Reported(d) = Reported(e) => d = e
<1>1. Deduped(found) \subseteq found
  BY DEF Deduped
<1>2. IsFiniteSet(Deduped(found))
  BY <1>1, FS_Subset DEF ReadInv
<1>3. ASSUME NEW h \in found
      PROVE  \E d \in Deduped(found) : Reported(d) = Reported(h)
  <2>1. PICK d \in Deduped(found) : Key(d) = Key(h)
    BY FirstOfKey
  <2>2. Reported(d) \in AllRead /\ Reported(h) \in AllRead
    BY <1>1, FoundIsRead
  <2>3. Reported(d) = Reported(h)
    BY <2>1, <2>2 DEF IdsClash, Key, Reported
  <2>4. QED
    BY <2>3
<1>4. ASSUME NEW d \in Deduped(found), NEW e \in Deduped(found), Reported(d) = Reported(e)
      PROVE  d = e
  <2>1. d.file = e.file /\ d.row = e.row
    BY <1>4 DEF Reported
  <2>2. d.from <= e.from /\ e.from <= d.from
    BY <1>1, <2>1 DEF Deduped, Key
  <2>3. d \in Hits /\ e \in Hits /\ d.from \in Nat /\ e.from \in Nat
    BY <1>1, HitsAreHits
  <2>4. d.from = e.from
    BY <2>2, <2>3
  <2>5. QED
    BY <2>1, <2>3, <2>4 DEF Hits
<1>5. QED
  BY <1>1, <1>2, <1>3, <1>4

\* As many memories are reported as hits are kept.
LEMMA ReportedCount ==
  ASSUME NEW hits, IsFiniteSet(hits),
         \A d, e \in hits : Reported(d) = Reported(e) => d = e
  PROVE  /\ IsFiniteSet({Reported(h) : h \in hits})
         /\ Cardinality({Reported(h) : h \in hits}) = Cardinality(hits)
<1>1. PICK all : all = {Reported(h) : h \in hits}
  OBVIOUS
<1>2. PICK f : f = [h \in hits |-> Reported(h)]
  OBVIOUS
<1>3. f \in Bijection(hits, all)
  <2>1. f \in [hits -> all] /\ \A h \in hits : f[h] = Reported(h)
    BY <1>1, <1>2
  <2>2. \A x \in all : \E h \in hits : f[h] = x
    BY <1>1, <2>1
  <2>3. \A d, e \in hits : f[d] = f[e] => d = e
    BY <2>1
  <2>4. QED
    BY <2>1, <2>2, <2>3 DEF Bijection, Injection, Surjection, IsInjective
<1>4. QED
  BY <1>1, <1>3, FS_Bijection DEF ExistsBijection

\* One query's rows that are all among some memories are not more than these.
LEMMA RowsAmong ==
  ASSUME NEW rows, NEW f, NEW all, IsFiniteSet(all), IsFiniteSet(rows),
         \A m \in rows : [file |-> f, row |-> m] \in all
  PROVE  Cardinality(rows) <= Cardinality(all)
<1>1. [m \in rows |-> [file |-> f, row |-> m]] \in Injection(rows, all)
  BY DEF Injection, IsInjective
<1>2. QED
  BY <1>1, FS_Injection

\* What one query's LIMIT has cut is not listed before anything reported.
LEMMA NothingBetterLeft ==
  ASSUME IInv, ReadInv, ~IdsClash,
         NEW top \in BestOf(Deduped(found), req.top_k), Cardinality(top) = req.top_k,
         NEW x \in AllRead, x \notin {Reported(h) : h \in top},
         NEW t \in top
  PROVE  LimitRank(req, t.row) >= LimitRank(req, x.row)
<1>1. PICK q \in read : \E m \in Matching(req, q[1], q[2]) : x = [file |-> q[2], row |-> m]
  BY DEF AllRead
<1>2. PICK m \in Matching(req, q[1], q[2]) : x = [file |-> q[2], row |-> m]
  BY <1>1
<1>3. q[2] \in Files /\ req \in Requests /\ req.top_k \in Nat
  BY ReadOnce, RequestsAssumption DEF IInv, TypeOK, Request
<1>4. PICK rows \in QueryRows(req, q[1], q[2]) : rows = RowsFrom(found, q[1])
  BY DEF ReadInv
<1>5. /\ rows \subseteq Matching(req, q[1], q[2]) /\ Matching(req, q[1], q[2]) \subseteq Row
      /\ IsFiniteSet(rows)
      /\ rows = Matching(req, q[1], q[2]) \/ Cardinality(rows) = req.top_k + 1
      /\ \A r \in rows, o \in Matching(req, q[1], q[2]) \ rows :
           LimitRank(req, r) >= LimitRank(req, o)
  BY <1>3, QuerySize
<1>6. /\ top \subseteq Deduped(found) /\ Deduped(found) \subseteq found
      /\ \A h \in top, o \in Deduped(found) \ top : h.row.rank >= o.row.rank
  BY DedupedIsFound DEF BestOf, kSubset
<1>7. IsFiniteSet(top) /\ \A d, e \in top : Reported(d) = Reported(e) => d = e
  BY <1>6, DedupedIsFound, FS_Subset
<1>8. t.row \in Row /\ m \in Row
  BY <1>2, <1>5, <1>6, HitsAreHits, RowsAreRows DEF IInv, FoundInv, Hits
<1>9. ASSUME NEW r \in rows
      PROVE  \/ [file |-> q[2], row |-> r] \in {Reported(h) : h \in top}
             \/ LimitRank(req, t.row) >= LimitRank(req, r)
  <2>1. PICK h \in found : Reported(h) = [file |-> q[2], row |-> r]
    BY <1>4, <1>9, FoundIsRead
  <2>2. PICK d \in Deduped(found) : Reported(d) = [file |-> q[2], row |-> r]
    BY <2>1, DedupedIsFound
  <2>3. CASE d \in top
    BY <2>2, <2>3
  <2>4. CASE d \notin top
    <3>1. t.row.rank >= d.row.rank /\ d.row = r
      BY <1>6, <2>2, <2>4 DEF Reported
    <3>2. r \in Row
      BY <1>5
    <3>3. QED
      BY <1>8, <3>1, <3>2, LaterRanksHigher
  <2>5. QED
    BY <2>3, <2>4
<1>10. CASE m \in rows
  BY <1>2, <1>9, <1>10
<1>11. CASE m \notin rows
  <2>1. Cardinality(rows) = req.top_k + 1
    BY <1>5, <1>11
  <2>2. PICK r \in rows : [file |-> q[2], row |-> r] \notin {Reported(h) : h \in top}
    <3>1. SUFFICES ASSUME \A r \in rows : [file |-> q[2], row |-> r] \in {Reported(h) : h \in top}
                   PROVE  FALSE
      OBVIOUS
    <3>2. PICK all : all = {Reported(h) : h \in top}
      OBVIOUS
    <3>3. IsFiniteSet(all) /\ Cardinality(all) = req.top_k
      BY <1>7, <3>2, ReportedCount
    <3>4. Cardinality(rows) <= Cardinality(all)
      BY <1>5, <3>1, <3>2, <3>3, RowsAmong
    <3>5. QED
      BY <1>3, <2>1, <3>3, <3>4
  <2>3. LimitRank(req, t.row) >= LimitRank(req, r)
    BY <1>9, <2>2
  <2>4. LimitRank(req, r) >= LimitRank(req, m)
    BY <1>5, <1>11
  <2>5. r \in Row
    BY <1>5
  <2>6. /\ LimitRank(req, t.row) \in Nat /\ LimitRank(req, r) \in Nat
        /\ LimitRank(req, m) \in Nat
    BY <1>8, <2>5, LaterRanksHigher
  <2>7. QED
    BY <1>2, <2>3, <2>4, <2>6
<1>12. QED
  BY <1>10, <1>11

\* Deduplicated, sorted and cut, the answer is as if nothing had been cut before.
LEMMA MergeNewest ==
  ASSUME IInv, ReadInv, Merge
  PROVE  NewestReported'
<1>1. PICK top \in BestOf(Deduped(found), req.top_k) :
        /\ answer'.results = {Reported(h) : h \in top}
        /\ answer'.more = (Cardinality(Deduped(found)) > req.top_k)
  <2>1. PICK top \in BestOf(Deduped(found), req.top_k) :
          answer' = [results |-> {[file |-> h.file, row |-> h.row] : h \in top},
                     more |-> Cardinality(Deduped(found)) > req.top_k,
                     capped |-> pc = "merge",
                     total |-> Cardinality(Others),
                     searched |-> Cardinality(opened)]
    BY DEF Merge
  <2>2. /\ answer'.results = {[file |-> h.file, row |-> h.row] : h \in top}
        /\ answer'.more = (Cardinality(Deduped(found)) > req.top_k)
    BY <2>1
  <2>3. QED
    BY <2>2 DEF Reported
<1>2. PICK k : k = req.top_k
  OBVIOUS
<1>3. PICK kept : kept = Deduped(found)
  OBVIOUS
<1>4. PICK results : results = {Reported(h) : h \in top}
  OBVIOUS
<1>5. PICK all : all = AllRead
  OBVIOUS
<1>6. req' = req /\ AllRead' = all /\ IdsClash' = IdsClash
  BY <1>5 DEF Merge, history, AllRead, IdsClash, Matching
<1>7. k \in Nat
  BY <1>2, RequestsAssumption DEF IInv, TypeOK, Request
<1> SUFFICES ASSUME ~IdsClash
             PROVE  /\ results \subseteq all /\ Cardinality(results) <= k
                    /\ (Cardinality(kept) > k) <=> results # all
                    /\ \A x \in all \ results :
                         /\ Cardinality(results) = k
                         /\ \A y \in results : LimitRank(req, y.row) >= LimitRank(req, x.row)
  BY <1>1, <1>2, <1>3, <1>4, <1>6 DEF NewestReported, LimitRank
<1>8. /\ kept \subseteq found /\ IsFiniteSet(kept)
      /\ \A h \in found : \E d \in kept : Reported(d) = Reported(h)
      /\ \A d, e \in kept : Reported(d) = Reported(e) => d = e
  BY <1>3, DedupedIsFound
<1>9. /\ top \subseteq kept /\ IsFiniteSet(top)
      /\ Cardinality(top) \in Nat /\ Cardinality(kept) \in Nat
      /\ Cardinality(top) <= k
      /\ top = kept \/ (Cardinality(top) = k /\ Cardinality(kept) > k)
  BY <1>2, <1>3, <1>7, <1>8, CutSize DEF BestOf
<1>10. IsFiniteSet(results) /\ Cardinality(results) = Cardinality(top)
  BY <1>4, <1>8, <1>9, ReportedCount
<1>11. results \subseteq all
  BY <1>4, <1>5, <1>8, <1>9, FoundIsRead
<1>12. CASE top = kept
  <2>1. Cardinality(kept) <= k
    BY <1>9, <1>12
  <2>2. ASSUME NEW x \in all
        PROVE  x \in results
    <3>1. PICK q \in read : \E m \in Matching(req, q[1], q[2]) : x = [file |-> q[2], row |-> m]
      BY <1>5, <2>2 DEF AllRead
    <3>2. PICK rows \in QueryRows(req, q[1], q[2]) : rows = RowsFrom(found, q[1])
      BY DEF ReadInv
    <3>3. q[2] \in Files /\ req \in Requests
      BY ReadOnce DEF IInv, TypeOK
    <3>4. IsFiniteSet(rows) /\ (rows = Matching(req, q[1], q[2]) \/ Cardinality(rows) = k + 1)
      BY <1>2, <3>3, QuerySize
    <3>5. \A r \in rows : [file |-> q[2], row |-> r] \in results
      <4>1. \A r \in rows : \E h \in found : Reported(h) = [file |-> q[2], row |-> r]
        BY <3>2, FoundIsRead
      <4>2. QED
        BY <1>4, <1>8, <1>12, <4>1
    <3>6. Cardinality(rows) <= Cardinality(results)
      BY <1>10, <3>4, <3>5, RowsAmong
    <3>7. rows = Matching(req, q[1], q[2])
      BY <1>7, <1>9, <1>10, <3>4, <3>6
    <3>8. QED
      BY <3>1, <3>5, <3>7
  <2>3. results = all
    BY <1>11, <2>2
  <2>4. QED
    BY <1>7, <1>9, <1>10, <2>1, <2>3
<1>13. CASE Cardinality(top) = k /\ Cardinality(kept) > k
  <2>1. results # all
    <3>1. SUFFICES ASSUME results = all PROVE FALSE
      OBVIOUS
    <3>2. PICK more : more = {Reported(h) : h \in kept}
      OBVIOUS
    <3>3. IsFiniteSet(more) /\ Cardinality(more) = Cardinality(kept)
      BY <1>8, <3>2, ReportedCount
    <3>4. more \subseteq all
      BY <1>5, <1>8, <3>2, FoundIsRead
    <3>5. Cardinality(more) <= Cardinality(results)
      BY <1>10, <3>1, <3>4, FS_Subset
    <3>6. QED
      BY <1>7, <1>9, <1>10, <1>13, <3>3, <3>5
  <2>2. ASSUME NEW x \in all \ results, NEW y \in results
        PROVE  LimitRank(req, y.row) >= LimitRank(req, x.row)
    <3>1. PICK t \in top : y = Reported(t)
      BY <1>4, <2>2
    <3>2. LimitRank(req, t.row) >= LimitRank(req, x.row)
      BY <1>2, <1>4, <1>5, <1>13, <2>2, NothingBetterLeft
    <3>3. QED
      BY <3>1, <3>2 DEF Reported
  <2>3. QED
    BY <1>7, <1>10, <1>11, <1>13, <2>1, <2>2
<1>14. QED
  BY <1>9, <1>12, <1>13

(***************************************************************************)
(* Cutting each database to top_k + 1 rows, and then the whole to top_k,   *)
(* loses nothing that ranks above what is reported, and `more` says        *)
(* exactly whether anything was left out.                                  *)
(***************************************************************************)
THEOREM ReportsNewest == Spec => []NewestReported
<1>1. Init => NewestReported
  BY DEF Init, NewestReported
<1>2. ASSUME IInv, ReadInv, NewestReported, [Next]_vars
      PROVE  NewestReported'
  <2>1. CASE Merge
    BY <1>2, <2>1, MergeNewest
  <2>2. ASSUME pc' # "done" \/ UNCHANGED <<pc, req, answer, read>>
        PROVE  NewestReported'
    BY <1>2, <2>2 DEF NewestReported, IdsClash, AllRead, Matching, LimitRank
  <2>3. CASE (\E r \in Requests : Search(r)) \/ ListKnownProjects
             \/ (\E pid \in Projects : Expand(pid)) \/ NextLayer \/ QueryOwn
    BY <2>2, <2>3 DEF Search, ListKnownProjects, Expand, NextLayer, QueryOwn, Goto
  <2>4. CASE CheckAlias \/ Lookup \/ OpenForeign
    BY <2>2, <2>4 DEF CheckAlias, Lookup, OpenForeign, Skip, Goto
  <2>5. CASE Environment \/ UNCHANGED vars
    BY <2>2, <2>5 DEF Environment, Register, Link, Touch, Change, vars, history
  <2>6. QED
    BY <1>2, <2>1, <2>3, <2>4, <2>5 DEF Next, SearchStep
<1>3. QED
  BY <1>1, <1>2, Invariance, ReadInvariance, PTL DEF Spec
=============================================================================
