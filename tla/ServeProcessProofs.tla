-------------------------- MODULE ServeProcessProofs --------------------------
(***************************************************************************)
(* Proofs about ServeProcess: the limiter lets through neither too many    *)
(* calls nor too few and keeps a small table, for every number of keys and *)
(* every window; and a server keeps to the database of its project.        *)
(***************************************************************************)
EXTENDS ServeProcess, FiniteSetTheorems, TLAPS

(***************************************************************************)
(* The inductive invariant.  Of a key the table holds stamps that were     *)
(* admitted, and every one of them that still counts.                      *)
(***************************************************************************)
InWindow(stamps, now) == {s \in Live(stamps, now) : s[1] <= now}

LimiterInv ==
  /\ \A k \in Keys : buckets[k] \subseteq admitted[k]
  /\ \A k \in Keys : Live(admitted[k], clock) \subseteq buckets[k]
  /\ \A k \in Keys, now \in 0..clock : Cardinality(InWindow(admitted[k], now)) <= Max

\* A call beyond the binding check is for the bound project; files that were not
\* made hold nothing; unless it was replaced, what is at the path is the
\* connection's file.
ServerInv ==
  /\ pc \in {"conn", "run", "maintain"} =>
       call.tool # "migrate" /\ call.project \in {bound, NoProject}
  /\ pc = "maintain" => call.tool = "maintain"
  /\ pc = "migrate" => call.tool = "migrate"
  /\ pc = "run" => seen # NoFile
  /\ \A f \in Files : home[f] = NoProject => held[f] = {}
  /\ pc # "down" /\ ~replaced => at[bound] \in {NoFile, conn}

IInv == TypeOK /\ LimiterInv /\ ServerInv

-----------------------------------------------------------------------------
(***************************************************************************)
(* The limiter.                                                            *)
(***************************************************************************)

\* What was admitted for a key is finite, and so is every part of it.
LEMMA FiniteStamps ==
  ASSUME TypeOK, NEW k \in Keys, NEW S \in SUBSET admitted[k]
  PROVE  IsFiniteSet(S) /\ Cardinality(S) \in Nat
<1>1. clock \in Nat /\ calls \in Nat
  BY LimitsAssumption DEF TypeOK
<1>2. IsFiniteSet(0..clock) /\ IsFiniteSet(1..calls)
  BY <1>1, FS_Interval
<1>3. IsFiniteSet((0..clock) \X (1..calls))
  BY <1>2, FS_Product
<1>4. S \in SUBSET ((0..clock) \X (1..calls))
  BY DEF TypeOK
<1>5. QED
  BY <1>3, <1>4, FS_Subset, FS_CardinalityType

\* The stamps of the table that count are those admitted that count, also after
\* the sweep, which leaves the caller's key alone.
LEMMA LiveStamps ==
  ASSUME IInv, NEW k \in Keys, NEW key \in Keys
  PROVE  /\ Live(buckets[k], clock) = Live(admitted[k], clock)
         /\ Live(Swept(key)[k], clock) = Live(admitted[k], clock)
         /\ Swept(key) \in [Keys -> SUBSET ((0..clock) \X (1..calls))]
         /\ Swept(key)[k] \subseteq buckets[k]
         /\ Swept(key)[key] = buckets[key]
<1>1. Live(buckets[k], clock) = Live(admitted[k], clock)
  BY DEF IInv, LimiterInv, Live
<1>2. /\ Swept(key) \in [Keys -> SUBSET ((0..clock) \X (1..calls))]
      /\ Swept(key)[k] \subseteq buckets[k]
      /\ Swept(key)[key] = buckets[key]
  BY DEF IInv, TypeOK, Swept
<1>3. Live(Swept(key)[k], clock) = Live(admitted[k], clock)
  <2>1. CASE Swept(key)[k] = buckets[k]
    BY <1>1, <2>1
  <2>2. CASE Swept(key)[k] # buckets[k]
    <3>1. Live(buckets[k], clock) = {} /\ Swept(key)[k] = {}
      BY <2>2 DEF Swept, IInv, TypeOK
    <3>2. QED
      BY <1>1, <3>1 DEF Live
  <2>3. QED
    BY <2>1, <2>2
<1>4. QED
  BY <1>1, <1>2, <1>3

\* What a call does to the limiter.
LEMMA CallToolLimits ==
  ASSUME IInv, NEW r \in Requests, CallTool(r)
  PROVE  /\ Allowed(r.key) <=> Cardinality(Live(admitted[r.key], clock)) < Max
         /\ LimiterInv'
         /\ buckets' \in [Keys -> SUBSET ((0..clock) \X (1..calls'))]
         /\ admitted' \in [Keys -> SUBSET ((0..clock) \X (1..calls'))]
<1> DEFINE key == r.key
           live == Live(Swept(key)[key], clock)
           new == IF Allowed(key) THEN {<<clock, calls + 1>>} ELSE {}
<1>1. key \in Keys
  BY RequestsAssumption DEF Request
<1>2. /\ clock \in Nat /\ calls \in Nat /\ calls' = calls + 1 /\ clock' = clock
      /\ Window \in Nat \ {0} /\ Max \in Nat \ {0}
  BY LimitsAssumption DEF IInv, TypeOK, CallTool
<1>3. /\ buckets' = [Swept(key) EXCEPT ![key] = live \union new]
      /\ admitted' = [admitted EXCEPT ![key] = @ \union new]
  BY DEF CallTool, Check
<1>4. /\ buckets \in [Keys -> SUBSET ((0..clock) \X (1..calls))]
      /\ admitted \in [Keys -> SUBSET ((0..clock) \X (1..calls))]
  BY DEF IInv, TypeOK
<1>5. live = Live(admitted[key], clock) /\ live \subseteq buckets[key]
  <2>1. live = Live(admitted[key], clock)
    BY <1>1, LiveStamps
  <2>2. QED
    BY <1>1, <2>1 DEF IInv, LimiterInv
<1>6. Allowed(key) <=> Cardinality(Live(admitted[key], clock)) < Max
  BY <1>1, LiveStamps DEF Allowed
<1>7. /\ buckets' \in [Keys -> SUBSET ((0..clock) \X (1..calls'))]
      /\ admitted' \in [Keys -> SUBSET ((0..clock) \X (1..calls'))]
  <2>1. 1..calls \subseteq 1..calls' /\ calls + 1 \in 1..calls' /\ clock \in 0..clock
    BY <1>2
  <2>2. new \subseteq (0..clock) \X (1..calls')
    BY <2>1
  <2>3. (0..clock) \X (1..calls) \subseteq (0..clock) \X (1..calls')
    BY <2>1
  <2>4. Swept(key) \in [Keys -> SUBSET ((0..clock) \X (1..calls'))]
    <3>1. Swept(key) \in [Keys -> SUBSET ((0..clock) \X (1..calls))]
      BY <1>1, LiveStamps
    <3>2. QED
      BY <2>3, <3>1
  <2>5. live \subseteq (0..clock) \X (1..calls')
    BY <1>1, <1>4, <1>5, <2>3
  <2>6. QED
    BY <1>1, <1>3, <1>4, <2>2, <2>3, <2>4, <2>5
<1>8. ASSUME NEW k \in Keys
      PROVE  /\ buckets'[k] \subseteq admitted'[k]
             /\ Live(admitted'[k], clock') \subseteq buckets'[k]
  <2>1. CASE k = key
    <3>1. /\ buckets'[k] = live \union new /\ admitted'[k] = admitted[k] \union new
      <4>1. Swept(key) \in [Keys -> SUBSET ((0..clock) \X (1..calls))]
        BY <1>1, LiveStamps
      <4>2. QED
        BY <1>1, <1>3, <1>4, <2>1, <4>1
    <3>2. QED
      BY <1>2, <1>5, <2>1, <3>1 DEF Live
  <2>2. CASE k # key
    <3>1. buckets'[k] = Swept(key)[k] /\ admitted'[k] = admitted[k]
      <4>1. Swept(key) \in [Keys -> SUBSET ((0..clock) \X (1..calls))]
        BY <1>1, LiveStamps
      <4>2. QED
        BY <1>1, <1>3, <1>4, <2>2, <4>1
    <3>2. /\ Live(Swept(key)[k], clock) = Live(admitted[k], clock)
          /\ Swept(key)[k] \subseteq buckets[k]
      BY <1>1, LiveStamps
    <3>3. buckets[k] \subseteq admitted[k]
      BY DEF IInv, LimiterInv
    <3>4. Live(Swept(key)[k], clock) \subseteq Swept(key)[k]
      BY DEF Live
    <3>5. QED
      BY <1>2, <3>1, <3>2, <3>3, <3>4
  <2>3. QED
    BY <2>1, <2>2
<1>9. ASSUME NEW k \in Keys, NEW now \in 0..clock
      PROVE  Cardinality(InWindow(admitted'[k], now)) <= Max
  <2>1. Cardinality(InWindow(admitted[k], now)) <= Max
    BY DEF IInv, LimiterInv
  <2>2. CASE k # key \/ ~Allowed(key) \/ now # clock
    <3>1. admitted'[k] = admitted[k] \/ (k = key /\ admitted'[k] = admitted[k] \union {<<clock, calls + 1>>} /\ now < clock)
      BY <1>1, <1>2, <1>3, <1>4, <2>2
    <3>2. InWindow(admitted'[k], now) = InWindow(admitted[k], now)
      BY <1>2, <3>1 DEF InWindow, Live
    <3>3. QED
      BY <2>1, <3>2
  <2>3. CASE k = key /\ Allowed(key) /\ now = clock
    <3>1. admitted'[k] = admitted[k] \union {<<clock, calls + 1>>}
      BY <1>1, <1>3, <1>4, <2>3
    <3>2. InWindow(admitted'[k], now) = Live(admitted[k], clock) \union {<<clock, calls + 1>>}
      <4>1. \A s \in admitted[k] : s[1] <= clock
        BY <1>2, <1>4
      <4>2. QED
        BY <1>2, <2>3, <3>1, <4>1 DEF InWindow, Live
    <3>3. Cardinality(Live(admitted[k], clock)) < Max
      BY <1>6, <2>3
    <3>4. IsFiniteSet(Live(admitted[k], clock)) /\ Cardinality(Live(admitted[k], clock)) \in Nat
      <4>1. Live(admitted[k], clock) \in SUBSET admitted[k]
        BY DEF Live
      <4>2. QED
        BY <4>1, FiniteStamps DEF IInv
    <3>5. Cardinality(Live(admitted[k], clock) \union {<<clock, calls + 1>>})
            \in {Cardinality(Live(admitted[k], clock)), Cardinality(Live(admitted[k], clock)) + 1}
      BY <3>4, FS_AddElement
    <3>6. QED
      BY <1>2, <3>2, <3>3, <3>4, <3>5
  <2>4. QED
    BY <2>2, <2>3
<1>10. LimiterInv'
  BY <1>2, <1>8, <1>9 DEF LimiterInv
<1>11. QED
  BY <1>6, <1>7, <1>10

\* When time passes a window holds no more than one that ended earlier.
LEMMA TickLimits ==
  ASSUME IInv, Tick
  PROVE  LimiterInv'
<1>1. /\ clock \in Nat /\ clock' = clock + 1 /\ buckets' = buckets /\ admitted' = admitted
      /\ Window \in Nat /\ calls \in Nat
      /\ admitted \in [Keys -> SUBSET ((0..clock) \X (1..calls))]
  BY LimitsAssumption DEF IInv, TypeOK, Tick
<1>2. ASSUME NEW k \in Keys PROVE Live(admitted[k], clock') \subseteq Live(admitted[k], clock)
  BY <1>1 DEF Live
<1>3. ASSUME NEW k \in Keys, NEW now \in 0..clock'
      PROVE  Cardinality(InWindow(admitted[k], now)) <= Max
  <2>1. CASE now \in 0..clock
    BY <2>1 DEF IInv, LimiterInv
  <2>2. CASE now = clock'
    <3>1. InWindow(admitted[k], now) \in SUBSET InWindow(admitted[k], clock)
      BY <1>1, <2>2 DEF InWindow, Live
    <3>2. InWindow(admitted[k], clock) \in SUBSET admitted[k]
      BY DEF InWindow, Live
    <3>3. IsFiniteSet(InWindow(admitted[k], clock)) /\ Cardinality(InWindow(admitted[k], clock)) \in Nat
      BY <3>2, FiniteStamps DEF IInv
    <3>4. Cardinality(InWindow(admitted[k], now)) <= Cardinality(InWindow(admitted[k], clock))
      BY <3>1, <3>3, FS_Subset
    <3>5. Cardinality(InWindow(admitted[k], clock)) <= Max
      BY <1>1 DEF IInv, LimiterInv
    <3>6. Cardinality(InWindow(admitted[k], now)) \in Nat
      BY <3>1, <3>3, FS_Subset, FS_CardinalityType
    <3>7. QED
      BY <3>3, <3>4, <3>5, <3>6, LimitsAssumption
  <2>3. QED
    BY <1>1, <2>1, <2>2
<1>4. QED
  BY <1>1, <1>2, <1>3 DEF IInv, LimiterInv

\* A limiter that starts anew has let nothing through.
LEMMA EmptyLimits ==
  ASSUME buckets = [k \in Keys |-> {}], admitted = [k \in Keys |-> {}]
  PROVE  LimiterInv
<1>1. \A k \in Keys, now \in 0..clock : InWindow(admitted[k], now) = {}
  BY DEF InWindow, Live
<1>2. QED
  BY <1>1, FS_EmptySet, LimitsAssumption DEF LimiterInv, Live

-----------------------------------------------------------------------------
(***************************************************************************)
(* Files and connections.                                                  *)
(***************************************************************************)

\* What connect() leaves behind, whoever calls it.
LEMMA ConnectedFiles ==
  ASSUME IInv, NEW q \in Projects, NEW f \in Files, Connected(q, f)
  PROVE  /\ home' \in [Files -> Projects \union {NoProject}]
         /\ Made \subseteq Made' /\ f \in Made' /\ home'[f] = q
         /\ \A g \in Files \ {f} : home'[g] = home[g]
         /\ home[f] \in {q, NoProject}
         /\ at' \in [Projects -> Made' \union {NoFile}] /\ at'[q] = f
         /\ \A p \in Projects : at'[p] # NoFile => home'[at'[p]] = p
         /\ \A p \in Projects \ {q} : at'[p] = at[p]
         /\ at'[q] = at[q] \/ (q = bound => replaced')
         /\ replaced' \in BOOLEAN /\ (replaced => replaced')
         /\ \A g \in Made : home'[g] = home[g]
<1>1. CASE at[q] # NoFile /\ f = at[q] /\ UNCHANGED <<at, home, replaced>>
  BY <1>1 DEF IInv, TypeOK, Made, Files, NoFile
<1>2. CASE /\ at[q] = NoFile /\ Fresh(f)
           /\ at' = [at EXCEPT ![q] = f]
           /\ home' = [home EXCEPT ![f] = q]
           /\ replaced' = (replaced \/ q = bound)
  <2>1. home[f] = NoProject /\ f \notin Made
    BY <1>2 DEF Fresh, Made
  <2>2. home' \in [Files -> Projects \union {NoProject}] /\ home'[f] = q
    BY <1>2 DEF IInv, TypeOK
  <2>3. \A g \in Files \ {f} : home'[g] = home[g]
    BY <1>2 DEF IInv, TypeOK
  <2>4. Made' = Made \union {f}
    BY <2>1, <2>2, <2>3, ProjectsAssumption DEF Made
  <2>5. \A g \in Made : home'[g] = home[g]
    BY <2>1, <2>3 DEF Made
  <2>6. at' \in [Projects -> Made' \union {NoFile}] /\ at'[q] = f
    BY <1>2, <2>4 DEF IInv, TypeOK
  <2>7. \A p \in Projects \ {q} : at'[p] = at[p]
    BY <1>2 DEF IInv, TypeOK
  <2>8. \A p \in Projects : at'[p] # NoFile => home'[at'[p]] = p
    BY <2>2, <2>5, <2>6, <2>7 DEF IInv, TypeOK
  <2>9. /\ replaced' \in BOOLEAN /\ (replaced => replaced')
        /\ q = bound => replaced'
    BY <1>2 DEF IInv, TypeOK
  <2>10. QED
    BY <2>1, <2>2, <2>3, <2>4, <2>5, <2>6, <2>7, <2>8, <2>9
<1>3. QED
  BY <1>1, <1>2 DEF Connected

\* A connection leaves every server's own invariant as it is.
LEMMA ConnectedServer ==
  ASSUME IInv, NEW q \in Projects, NEW f \in Files, Connected(q, f), bound' = bound, conn' = conn
  PROVE  /\ conn' \in Made' \union {NoFile}
         /\ bound # NoProject => conn' \in Made' /\ home'[conn'] = bound
         /\ bound # NoProject /\ ~replaced' => at'[bound] \in {NoFile, conn}
<1>1. bound \in Projects \union {NoProject} /\ (pc = "down" <=> bound = NoProject)
  BY DEF IInv, TypeOK
<1>2. QED
  BY <1>1, ConnectedFiles DEF IInv, TypeOK, ServerInv

LEMMA BindProjectKeeps ==
  ASSUME IInv, NEW q \in Projects, BindProject(q)
  PROVE  IInv'
<1>1. PICK f \in Files : Connected(q, f) /\ conn' = f
  BY DEF BindProject
<1>2. /\ pc = "down" /\ pc' = "ready" /\ bound' = q /\ answer' = "none"
      /\ buckets' = [k \in Keys |-> {}] /\ admitted' = [k \in Keys |-> {}]
      /\ clock' = clock /\ calls' = calls /\ held' = held /\ call' = call /\ seen' = seen
  BY DEF BindProject
<1>3. LimiterInv'
  <2>1. \A k \in Keys, now \in 0..clock' : InWindow(admitted'[k], now) = {}
    BY <1>2 DEF InWindow, Live
  <2>2. QED
    BY <1>2, <2>1, FS_EmptySet, LimitsAssumption DEF LimiterInv, Live
<1>4. TypeOK'
  <2>1. /\ clock' \in 0..MaxClock /\ calls' \in 0..MaxCalls /\ held' \in [Files -> SUBSET Projects]
        /\ call' \in Requests /\ seen' \in Made' \union {NoFile}
    BY <1>1, <1>2, ConnectedFiles DEF IInv, TypeOK
  <2>2. /\ buckets' \in [Keys -> SUBSET ((0..clock') \X (1..calls'))]
        /\ admitted' \in [Keys -> SUBSET ((0..clock') \X (1..calls'))]
    BY <1>2
  <2>3. QED
    BY <1>1, <1>2, <2>1, <2>2, ConnectedFiles, ProjectsAssumption DEF TypeOK, Answers
<1>5. ServerInv'
  <2>1. \A g \in Files : home'[g] = NoProject => held'[g] = {}
    BY <1>1, <1>2, ConnectedFiles, ProjectsAssumption DEF IInv, ServerInv
  <2>2. QED
    BY <1>1, <1>2, <2>1, ConnectedFiles DEF ServerInv
<1>6. QED
  BY <1>3, <1>4, <1>5 DEF IInv

\* Steps that leave the limiter alone.
LEMMA SameLimits ==
  ASSUME IInv, UNCHANGED limiter
  PROVE  /\ LimiterInv'
         /\ clock' \in 0..MaxClock /\ calls' \in 0..MaxCalls
         /\ buckets' \in [Keys -> SUBSET ((0..clock') \X (1..calls'))]
         /\ admitted' \in [Keys -> SUBSET ((0..clock') \X (1..calls'))]
BY DEF IInv, TypeOK, LimiterInv, limiter, InWindow, Live

LEMMA ExitKeeps == ASSUME IInv, Exit PROVE IInv'
<1>1. UNCHANGED limiter /\ UNCHANGED files
  BY DEF Exit
<1>2. TypeOK'
  BY <1>1, SameLimits DEF Exit, IInv, TypeOK, files, Made, NoFile, Answers
<1>3. ServerInv'
  BY <1>1 DEF Exit, IInv, ServerInv, files
<1>4. QED
  BY <1>1, <1>2, <1>3, SameLimits DEF IInv

LEMMA CallToolKeeps == ASSUME IInv, NEW r \in Requests, CallTool(r) PROVE IInv'
<1>1. /\ LimiterInv'
      /\ buckets' \in [Keys -> SUBSET ((0..clock) \X (1..calls'))]
      /\ admitted' \in [Keys -> SUBSET ((0..clock) \X (1..calls'))]
  BY CallToolLimits
<1>2. /\ pc = "ready" /\ calls' = calls + 1 /\ calls' \in 0..MaxCalls /\ call' = r /\ clock' = clock
      /\ UNCHANGED <<at, home, held, bound, conn, seen, replaced>>
  BY LimitsAssumption DEF CallTool, IInv, TypeOK, files
<1>3. /\ pc' \in {"ready", "conn", "maintain", "migrate"}
      /\ answer' \in Answers
      /\ pc' # "ready" => ~Mismatch(r)
      /\ pc' = "maintain" => r.tool = "maintain"
      /\ pc' = "migrate" => r.tool = "migrate"
      /\ pc' = "conn" => r.tool \notin {"maintain", "migrate"}
  BY DEF CallTool, Answer, Answers
<1>4. TypeOK'
  BY <1>1, <1>2, <1>3 DEF IInv, TypeOK, Made
<1>5. ServerInv'
  BY <1>2, <1>3 DEF IInv, ServerInv, Mismatch
<1>6. QED
  BY <1>1, <1>4, <1>5 DEF IInv

LEMMA GetConnKeeps == ASSUME IInv, GetConn PROVE IInv'
<1>1. UNCHANGED limiter /\ UNCHANGED files
  BY DEF GetConn
<1>2. /\ pc = "conn" /\ seen' = at[bound] /\ UNCHANGED <<bound, conn, call, replaced>>
      /\ \/ at[bound] = NoFile /\ answer' = "error" /\ pc' = "ready"
         \/ at[bound] # NoFile /\ pc' = "run" /\ answer' = answer
  BY DEF GetConn, Answer
<1>3. bound \in Projects
  BY <1>2 DEF IInv, TypeOK
<1>4. TypeOK'
  BY <1>1, <1>2, <1>3, SameLimits DEF IInv, TypeOK, files, Made, NoFile, Answers
<1>5. ServerInv'
  BY <1>1, <1>2 DEF IInv, ServerInv, files
<1>6. QED
  BY <1>1, <1>4, <1>5, SameLimits DEF IInv

\* The project that a call past the binding check names, if it is no read.
LEMMA BoundCall ==
  ASSUME IInv, pc \in {"run", "maintain"}, call.tool \notin {"search", "status"}
  PROVE  call.project = bound /\ bound \in Projects
BY RequestsAssumption DEF IInv, TypeOK, ServerInv

LEMMA StoreKeeps == ASSUME IInv, Store PROVE IInv'
<1>1. /\ UNCHANGED limiter /\ UNCHANGED <<at, home, bound, conn, call, replaced>>
      /\ pc = "run" /\ pc' = "ready" /\ answer' \in {"stored", "error"} /\ seen' = NoFile
      /\ call.tool = "store"
      /\ held' = held \/ held' = [held EXCEPT ![conn] = @ \union {call.project}]
  BY DEF Store, Answer
<1>2. call.project = bound /\ bound \in Projects
  BY <1>1, BoundCall
<1>3. conn \in Made
  BY <1>1 DEF IInv, TypeOK
<1>4. /\ held' \in [Files -> SUBSET Projects]
      /\ \A f \in Files : home[f] = NoProject => held'[f] = {}
  BY <1>1, <1>2, <1>3 DEF IInv, TypeOK, ServerInv, Made
<1>5. TypeOK'
  BY <1>1, <1>4, SameLimits DEF IInv, TypeOK, Made, NoFile, Answers
<1>6. ServerInv'
  BY <1>1, <1>4 DEF IInv, ServerInv
<1>7. QED
  BY <1>1, <1>5, <1>6, SameLimits DEF IInv

LEMMA ReadKeeps == ASSUME IInv, Read PROVE IInv'
<1>1. /\ UNCHANGED limiter /\ UNCHANGED files /\ UNCHANGED <<bound, conn, call, replaced>>
      /\ pc = "run" /\ pc' = "ready" /\ answer' \in {"ok", "error"} /\ seen' = NoFile
  BY DEF Read, Answer
<1>2. TypeOK'
  BY <1>1, SameLimits DEF IInv, TypeOK, files, Made, NoFile, Answers
<1>3. ServerInv'
  BY <1>1 DEF IInv, ServerInv, files
<1>4. QED
  BY <1>1, <1>2, <1>3, SameLimits DEF IInv

\* Maintenance, a migration or another process connects and may then change the
\* memories of the file it has opened.
LEMMA ConnectingKeeps ==
  ASSUME IInv, UNCHANGED limiter, UNCHANGED <<bound, conn, call, seen>>,
         NEW q \in Projects, NEW f \in Files, Connected(q, f),
         held' \in [Files -> SUBSET Projects], \A g \in Files \ {f} : held'[g] = held[g],
         pc' = pc \/ (pc # "down" /\ pc' = "ready"), answer' \in Answers
  PROVE  IInv'
<1>1. TypeOK'
  <2>1. call' \in Requests /\ seen' \in Made' \union {NoFile}
    BY ConnectedFiles DEF IInv, TypeOK
  <2>2. /\ pc' \in {"down", "ready", "conn", "run", "maintain", "migrate"}
        /\ pc' = "down" <=> pc = "down"
        /\ bound' \in Projects \union {NoProject} /\ (pc' = "down" <=> bound' = NoProject)
    BY DEF IInv, TypeOK
  <2>3. QED
    BY <2>1, <2>2, SameLimits, ConnectedFiles, ConnectedServer DEF TypeOK
<1>2. ServerInv'
  <2>1. \A g \in Files : home'[g] = NoProject => held'[g] = {}
    BY ConnectedFiles, ProjectsAssumption DEF IInv, ServerInv
  <2>2. pc' # "down" /\ ~replaced' => at'[bound] \in {NoFile, conn}
    BY ConnectedServer DEF IInv, TypeOK
  <2>3. QED
    BY <2>1, <2>2 DEF IInv, ServerInv
<1>3. QED
  BY <1>1, <1>2, SameLimits DEF IInv

\* A tool that fails before it connects.
LEMMA FailingKeeps ==
  ASSUME IInv, UNCHANGED limiter, UNCHANGED <<files, replaced>>,
         UNCHANGED <<bound, conn, call, seen>>, pc # "down", pc' = "ready", answer' \in Answers
  PROVE  IInv'
<1>1. TypeOK'
  BY SameLimits DEF IInv, TypeOK, files, Made
<1>2. ServerInv'
  BY DEF IInv, ServerInv, files
<1>3. QED
  BY <1>1, <1>2, SameLimits DEF IInv

LEMMA MaintainKeeps == ASSUME IInv, Maintain PROVE IInv'
<1>1. /\ UNCHANGED limiter /\ UNCHANGED <<bound, conn, call, seen>>
      /\ pc = "maintain" /\ pc' = "ready" /\ answer' \in Answers
  BY DEF Maintain, Answer, Answers
<1>2. call.tool = "maintain" /\ call.project \in Projects
  BY <1>1, BoundCall DEF IInv, ServerInv
<1>3. CASE UNCHANGED <<files, replaced>>
  BY <1>1, <1>3, FailingKeeps
<1>4. ASSUME NEW f \in Files, Connected(call.project, f), Prune(f) PROVE IInv'
  <2>1. held' \in [Files -> SUBSET Projects] /\ \A g \in Files \ {f} : held'[g] = held[g]
    BY <1>4 DEF Prune, IInv, TypeOK
  <2>2. QED
    BY <1>1, <1>2, <1>4, <2>1, ConnectingKeeps
<1>5. QED
  BY <1>3, <1>4 DEF Maintain

LEMMA MigrateKeeps == ASSUME IInv, Migrate PROVE IInv'
<1>1. /\ UNCHANGED limiter /\ UNCHANGED <<bound, conn, call, seen>>
      /\ pc = "migrate" /\ pc' = "ready" /\ answer' \in Answers
  BY DEF Migrate, Answer, Answers
<1>2. call.project \in Projects
  BY <1>1, RequestsAssumption DEF IInv, ServerInv, TypeOK, Request
<1>3. CASE UNCHANGED <<files, replaced>>
  BY <1>1, <1>3, FailingKeeps
<1>4. ASSUME NEW f \in Files, Connected(call.project, f), Copy(f) PROVE IInv'
  <2>1. held' \in [Files -> SUBSET Projects] /\ \A g \in Files \ {f} : held'[g] = held[g]
    BY <1>2, <1>4 DEF Copy, IInv, TypeOK
  <2>2. QED
    BY <1>1, <1>2, <1>4, <2>1, ConnectingKeeps
<1>5. QED
  BY <1>3, <1>4 DEF Migrate

LEMMA RemakeKeeps == ASSUME IInv, NEW q \in Projects, Remake(q) PROVE IInv'
<1>1. PICK f \in Files : Connected(q, f)
  BY DEF Remake
<1>2. UNCHANGED limiter /\ UNCHANGED <<bound, conn, call, seen>> /\ pc' = pc /\ held' = held
  BY DEF Remake, server
<1>3. answer' \in Answers /\ held' \in [Files -> SUBSET Projects]
  BY DEF Remake, server, IInv, TypeOK
<1>4. QED
  BY <1>1, <1>2, <1>3, ConnectingKeeps

LEMMA RemoveKeeps == ASSUME IInv, NEW q \in Projects, Remove(q) PROVE IInv'
<1>1. UNCHANGED limiter /\ UNCHANGED <<home, held, pc, bound, conn, call, seen, answer, replaced>>
      /\ at' = [at EXCEPT ![q] = NoFile]
  BY DEF Remove, server
<1>2. TypeOK'
  BY <1>1, SameLimits DEF IInv, TypeOK, Made
<1>3. ServerInv'
  BY <1>1 DEF IInv, ServerInv, TypeOK
<1>4. QED
  BY <1>1, <1>2, <1>3, SameLimits DEF IInv

LEMMA TickKeeps == ASSUME IInv, Tick PROVE IInv'
<1>1. clock' = clock + 1 /\ clock' \in 0..MaxClock
      /\ UNCHANGED <<buckets, admitted, calls, at, home, held, pc, bound, conn, call, seen, answer, replaced>>
  BY LimitsAssumption DEF Tick, IInv, TypeOK, files, server
<1>2. 0..clock \subseteq 0..clock'
  BY <1>1, LimitsAssumption DEF IInv, TypeOK
<1>3. /\ buckets' \in [Keys -> SUBSET ((0..clock') \X (1..calls'))]
      /\ admitted' \in [Keys -> SUBSET ((0..clock') \X (1..calls'))]
  <2>1. (0..clock) \X (1..calls) \subseteq (0..clock') \X (1..calls)
    BY <1>2
  <2>2. /\ buckets \in [Keys -> SUBSET ((0..clock) \X (1..calls))]
        /\ admitted \in [Keys -> SUBSET ((0..clock) \X (1..calls))]
    BY DEF IInv, TypeOK
  <2>3. QED
    BY <1>1, <2>1, <2>2
<1>4. TypeOK'
  BY <1>1, <1>3 DEF IInv, TypeOK, Made
<1>5. ServerInv'
  BY <1>1 DEF IInv, ServerInv
<1>6. QED
  BY <1>4, <1>5, TickLimits DEF IInv

LEMMA InitIInv == Init => IInv
<1>1. SUFFICES ASSUME Init PROVE IInv
  OBVIOUS
<1>2. (CHOOSE r \in Requests : TRUE) \in Requests
  BY RequestsAssumption
<1>3. TypeOK
  <2>1. call \in Requests
    BY <1>1, <1>2 DEF Init
  <2>2. /\ clock \in 0..MaxClock /\ calls \in 0..MaxCalls
        /\ buckets \in [Keys -> SUBSET ((0..clock) \X (1..calls))]
        /\ admitted \in [Keys -> SUBSET ((0..clock) \X (1..calls))]
        /\ home \in [Files -> Projects \union {NoProject}]
        /\ at \in [Projects -> Made \union {NoFile}]
        /\ held \in [Files -> SUBSET Projects]
    BY <1>1, LimitsAssumption DEF Init
  <2>3. QED
    BY <1>1, <2>1, <2>2, ProjectsAssumption DEF Init, TypeOK, NoFile, Answers
<1>4. LimiterInv
  BY <1>1, EmptyLimits DEF Init
<1>5. ServerInv
  BY <1>1 DEF Init, ServerInv
<1>6. QED
  BY <1>3, <1>4, <1>5 DEF IInv

LEMMA NextIInv == IInv /\ [Next]_vars => IInv'
<1>1. SUFFICES ASSUME IInv, [Next]_vars PROVE IInv'
  OBVIOUS
<1>2. CASE UNCHANGED vars
  <2>1. UNCHANGED limiter
    BY <1>2 DEF vars
  <2>2. TypeOK' /\ ServerInv'
    BY <1>1, <1>2 DEF vars, limiter, files, server, IInv, TypeOK, ServerInv, Made
  <2>3. QED
    BY <1>1, <2>1, <2>2, SameLimits DEF IInv
<1>3. CASE Next
  BY <1>1, <1>2, <1>3, BindProjectKeeps, RemoveKeeps, RemakeKeeps, CallToolKeeps, GetConnKeeps,
     StoreKeeps, ReadKeeps, MaintainKeeps, MigrateKeeps, ExitKeeps, TickKeeps
     DEF Next, RefuseToServe
<1>4. QED
  BY <1>1, <1>2, <1>3

-----------------------------------------------------------------------------
(***************************************************************************)
(* The theorems.                                                           *)
(***************************************************************************)

\* The inductive invariant holds in every reachable state of `remagraph serve`.
THEOREM Invariance == Spec => []IInv
<1>1. QED
  BY InitIInv, NextIInv, PTL DEF Spec

\* Type correctness, with the files and connections that belong together.
THEOREM TypeCorrect == Spec => []TypeOK
<1>1. IInv => TypeOK
  BY DEF IInv
<1>2. QED
  BY <1>1, Invariance, PTL

\* _RateLimiter lets no more than Max calls of a key through in any window.
THEOREM NoWindowExceeded == Spec => []WindowRespected
<1>1. IInv => WindowRespected
  BY DEF IInv, LimiterInv, WindowRespected, InWindow
<1>2. QED
  BY <1>1, Invariance, PTL

\* A call is turned down exactly when its key has used up the window that ends
\* now, whatever the sweeps have dropped.
LimiterExactStep ==
  calls' # calls =>
    (answer' = "rate_limited" <=> Cardinality(Live(admitted[call'.key], clock)) >= Max)

LEMMA NextLimiterExact == IInv /\ [Next]_vars => [LimiterExactStep]_vars
<1>1. SUFFICES ASSUME IInv, Next, calls' # calls
               PROVE  answer' = "rate_limited" <=>
                        Cardinality(Live(admitted[call'.key], clock)) >= Max
  BY DEF LimiterExactStep
<1>2. PICK r \in Requests : CallTool(r)
  BY <1>1 DEF Next, RefuseToServe, vars, limiter, BindProject, Remove, Remake, GetConn,
              Store, Read, Maintain, Migrate, Exit, Tick
<1>3. call' = r /\ r.key \in Keys
  BY <1>2, RequestsAssumption DEF CallTool, Request
<1>4. answer' = "rate_limited" <=> ~Allowed(r.key)
  BY <1>2 DEF CallTool, Answer
<1>5. Allowed(r.key) <=> Cardinality(Live(admitted[r.key], clock)) < Max
  BY <1>1, <1>2, CallToolLimits
<1>6. Cardinality(Live(admitted[r.key], clock)) \in Nat
  <2>1. Live(admitted[r.key], clock) \in SUBSET admitted[r.key]
    BY DEF Live
  <2>2. QED
    BY <1>1, <1>3, <2>1, FiniteStamps DEF IInv
<1>7. QED
  BY <1>3, <1>4, <1>5, <1>6, LimitsAssumption

THEOREM LimiterIsExact == Spec => LimiterExact
<1>1. Spec => [][LimiterExactStep]_vars
  BY NextLimiterExact, Invariance, PTL DEF Spec
<1>2. QED
  BY <1>1 DEF LimiterExact, LimiterExactStep

\* However many keys a server has seen, its table holds those in use, or no more
\* than one above the threshold.
TableBoundedStep ==
  calls' # calls =>
    \/ Cardinality(Table') <= Threshold + 1
    \/ \A k \in Table' : Live(buckets'[k], clock) # {}

LEMMA NextTableBounded == IInv /\ [Next]_vars => [TableBoundedStep]_vars
<1>1. SUFFICES ASSUME IInv, Next, calls' # calls
               PROVE  \/ Cardinality(Table') <= Threshold + 1
                      \/ \A k \in Table' : Live(buckets'[k], clock) # {}
  BY DEF TableBoundedStep
<1>2. PICK r \in Requests : CallTool(r)
  BY <1>1 DEF Next, RefuseToServe, vars, limiter, BindProject, Remove, Remake, GetConn,
              Store, Read, Maintain, Migrate, Exit, Tick
<1> DEFINE key == r.key
           live == Live(Swept(key)[key], clock)
           new == IF Allowed(key) THEN {<<clock, calls + 1>>} ELSE {}
<1>3. /\ key \in Keys /\ buckets' = [Swept(key) EXCEPT ![key] = live \union new]
      /\ buckets \in [Keys -> SUBSET ((0..clock) \X (1..calls))]
      /\ clock \in Nat /\ Window \in Nat \ {0}
  BY <1>1, <1>2, RequestsAssumption, LimitsAssumption DEF CallTool, Check, Request, IInv, TypeOK
<1>4. Swept(key) \in [Keys -> SUBSET ((0..clock) \X (1..calls))]
  BY <1>1, <1>3, LiveStamps
<1>5. CASE Cardinality(Table) <= Threshold
  <2>1. Swept(key) = buckets
    BY <1>5 DEF Swept
  <2>2. Table' \in SUBSET (Table \union {key})
    BY <1>3, <2>1 DEF Table
  <2>3. IsFiniteSet(Table)
    BY LimitsAssumption, FS_Subset DEF Table
  <2>4. /\ IsFiniteSet(Table \union {key}) /\ Cardinality(Table) \in Nat
        /\ Cardinality(Table \union {key}) \in {Cardinality(Table), Cardinality(Table) + 1}
    BY <2>3, FS_AddElement, FS_CardinalityType
  <2>5. IsFiniteSet(Table') /\ Cardinality(Table') <= Cardinality(Table \union {key})
    BY <2>2, <2>4, FS_Subset
  <2>6. Cardinality(Table') \in Nat
    BY <2>5, FS_CardinalityType
  <2>7. QED
    BY <1>5, <2>4, <2>5, <2>6, LimitsAssumption
<1>6. CASE ~(Cardinality(Table) <= Threshold)
  <2>1. ASSUME NEW k \in Table' PROVE Live(buckets'[k], clock) # {}
    <3>1. k \in Keys /\ buckets'[k] # {}
      BY <2>1 DEF Table
    <3>2. CASE k = key
      <4>1. buckets'[k] = live \union new
        BY <1>3, <1>4, <3>2
      <4>2. Live(live \union new, clock) = live \union new
        BY <1>3 DEF Live
      <4>3. QED
        BY <3>1, <4>1, <4>2
    <3>3. CASE k # key
      <4>1. buckets'[k] = Swept(key)[k]
        BY <1>3, <1>4, <3>1, <3>3
      <4>2. Swept(key)[k] = IF Live(buckets[k], clock) = {} THEN {} ELSE buckets[k]
        BY <1>6, <3>1, <3>3 DEF Swept
      <4>3. QED
        BY <3>1, <4>1, <4>2
    <3>4. QED
      BY <3>2, <3>3
  <2>2. QED
    BY <2>1
<1>7. QED
  BY <1>5, <1>6

THEOREM TableIsBounded == Spec => TableBounded
<1>1. Spec => [][TableBoundedStep]_vars
  BY NextTableBounded, Invariance, PTL DEF Spec
<1>2. QED
  BY <1>1 DEF TableBounded, TableBoundedStep

\* No tool but the migration changes another project's database, or puts another
\* project's memories into the bound one.
BoundProjectOnlyStep ==
  \A f \in Files : held'[f] # held[f] /\ call.tool # "migrate" =>
    /\ home[f] = bound
    /\ held'[f] \subseteq held[f] \union {bound}

LEMMA NextBoundProjectOnly == IInv /\ [Next]_vars => [BoundProjectOnlyStep]_vars
<1>1. SUFFICES ASSUME IInv, Next, NEW f \in Files, held'[f] # held[f], call.tool # "migrate"
               PROVE  home[f] = bound /\ held'[f] \subseteq held[f] \union {bound}
  BY DEF BoundProjectOnlyStep
<1>2. CASE Store
  <2>1. /\ call.project = bound /\ home[conn] = bound /\ conn \in Files
        /\ held' = [held EXCEPT ![conn] = @ \union {call.project}]
    BY <1>1, <1>2, BoundCall DEF Store, IInv, TypeOK, Made
  <2>2. QED
    BY <1>1, <2>1 DEF IInv, TypeOK
<1>3. CASE Maintain
  <2>1. call.project = bound /\ bound \in Projects
    BY <1>1, <1>3, BoundCall DEF Maintain, IInv, ServerInv
  <2>2. PICK g \in Files : Connected(call.project, g) /\ Prune(g)
    BY <1>1, <1>3 DEF Maintain, files
  <2>3. f = g /\ held'[f] \subseteq held[f] /\ held[f] # {}
    BY <1>1, <2>2 DEF Prune, IInv, TypeOK
  <2>4. home[g] \in {bound, NoProject}
    BY <1>1, <2>1, <2>2, ConnectedFiles
  <2>5. QED
    BY <1>1, <2>3, <2>4 DEF IInv, ServerInv
<1>4. CASE Migrate
  BY <1>1, <1>4 DEF Migrate, IInv, ServerInv
<1>5. Store \/ Maintain \/ Migrate
  BY <1>1 DEF Next, RefuseToServe, vars, files, BindProject, Remove, Remake, CallTool, GetConn,
              Read, Exit, Tick
<1>6. QED
  BY <1>2, <1>3, <1>4, <1>5

THEOREM KeepsToItsProject == Spec => BoundProjectOnly
<1>1. Spec => [][BoundProjectOnlyStep]_vars
  BY NextBoundProjectOnly, Invariance, PTL DEF Spec
<1>2. QED
  BY <1>1 DEF BoundProjectOnly, BoundProjectOnlyStep

\* What is reported stored can be found at the project's path, unless another
\* database was made there or the path changed during the call.
StoredReachableStep ==
  answer' = "stored" /\ pc = "run" => conn = at[bound] \/ at[bound] # seen \/ replaced

LEMMA NextStoredReachable == IInv /\ [Next]_vars => [StoredReachableStep]_vars
<1>1. SUFFICES ASSUME IInv, pc = "run", at[bound] = seen, ~replaced
               PROVE  conn = at[bound]
  BY DEF StoredReachableStep
<1>2. QED
  BY <1>1 DEF IInv, ServerInv

THEOREM StoredIsReachable == Spec => StoredReachable
<1>1. Spec => [][StoredReachableStep]_vars
  BY NextStoredReachable, Invariance, PTL DEF Spec
<1>2. QED
  BY <1>1 DEF StoredReachable, StoredReachableStep
=============================================================================
