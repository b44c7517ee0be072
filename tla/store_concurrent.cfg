\* Two processes store snapshots and constraints in one database: p1 keeps
\* running; p2 may stop anywhere, also with the write lock.
SPECIFICATION FairSpec
CONSTANTS
  p1 = p1
  p2 = p2
  NoProc = NoProc
  proj = proj
  task = task
  a = a
  b = b
  c = c
  lab = lab
  Procs = {p1, p2}
  ReadOnly = {}
  Responsive = {p1}
  Projects = {proj}
  Tasks = {task}
  Contents = {a, b}
  Labels = {lab}
  Similar <- Distinct
  Requests <- MixedRequests
  LockRetries = 2
  DedupCap = 2
  Embeds = {TRUE}
  DayLength = 1
  MaxClock = 1
  MaxRows = 2
INVARIANTS
  SingleActive
  IdsNeverCollide
  AuditSound
PROPERTIES
  Durable
  ImplementsStoreSpec
  CallEnds
