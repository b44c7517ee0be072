------------------------------ MODULE StoreSpec ------------------------------
(***************************************************************************)
(* What remagraph_store promises its callers, whatever other processes do  *)
(* with the same database.  A call takes effect in one indivisible step,   *)
(* or not at all:                                                          *)
(*   - a call that is answered "stored" has taken effect exactly once;     *)
(*   - a call that is answered anything else, except that its process      *)
(*     died, has had no effect;                                            *)
(*   - the effect adds one active row under an unused id, with all of its  *)
(*     labels, and retires exactly the rows the request replaces.          *)
(* MemoryStore is shown to implement this specification.                   *)
(***************************************************************************)
CONSTANTS Procs, Requests, Rows

VARIABLES
  rows,     \* the committed rows
  phase,    \* per process: "idle", "pending" or "applied"
  asked,    \* per process: the request of the call under way
  answer    \* per process: the answer to its last call, "none" during a call

vars == <<rows, phase, asked, answer>>

Refusals == {"rejected", "error", "raised", "crashed"}

Init ==
  /\ rows = {}
  /\ phase = [p \in Procs |-> "idle"]
  /\ asked \in [Procs -> Requests]
  /\ answer = [p \in Procs |-> "none"]

Invoke(p, r) ==
  /\ phase[p] = "idle"
  /\ phase' = [phase EXCEPT ![p] = "pending"]
  /\ asked' = [asked EXCEPT ![p] = r]
  /\ answer' = [answer EXCEPT ![p] = "none"]
  /\ UNCHANGED rows

\* A row the request makes obsolete: the previous snapshot of the same task,
\* or a constraint the request names.
Replaces(r, m) ==
  \/ /\ r.kind \in {"status_update", "fleet_member"}
     /\ <<m.project, m.task, m.kind>> = <<r.project, r.task, r.kind>>
  \/ /\ r.kind = "discovered_constraint"
     /\ m.id \in r.invalidates

After(r, m) ==
  IF m.status = "active" /\ Replaces(r, m)
  THEN [m EXCEPT !.status = IF r.kind = "discovered_constraint"
                            THEN "invalidated" ELSE "superseded"]
  ELSE m

Apply(p) ==
  LET r == asked[p] IN
  /\ phase[p] = "pending"
  \* Every constraint the request names exists and is a constraint.
  /\ r.kind = "discovered_constraint" =>
       \A i \in r.invalidates : \E m \in rows : m.id = i /\ m.kind = r.kind
  /\ \E new \in rows' :
       /\ new \in Rows
       /\ <<new.project, new.task, new.kind>> = <<r.project, r.task, r.kind>>
       /\ <<new.content, new.labels>> = <<r.content, r.labels>>
       /\ new.status = "active"
       /\ \A m \in rows : m.id # new.id
       /\ rows' = {After(r, m) : m \in rows} \union {new}
  /\ phase' = [phase EXCEPT ![p] = "applied"]
  /\ UNCHANGED <<asked, answer>>

Refuse(p) ==
  /\ phase[p] = "pending"
  /\ \E a \in Refusals : answer' = [answer EXCEPT ![p] = a]
  /\ phase' = [phase EXCEPT ![p] = "idle"]
  /\ UNCHANGED <<rows, asked>>

Acknowledge(p) ==
  /\ phase[p] = "applied"
  /\ \E a \in {"stored", "crashed"} : answer' = [answer EXCEPT ![p] = a]
  /\ phase' = [phase EXCEPT ![p] = "idle"]
  /\ UNCHANGED <<rows, asked>>

Next ==
  \E p \in Procs :
    \/ \E r \in Requests : Invoke(p, r)
    \/ Apply(p)
    \/ Refuse(p)
    \/ Acknowledge(p)

Spec == Init /\ [][Next]_vars
=============================================================================
