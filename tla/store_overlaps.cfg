\* Overlapping stores of near-duplicates and of snapshots, on two days.
SPECIFICATION HSpec
CONSTANTS
  p1 = p1
  p2 = p2
  NoProc = NoProc
  proj = proj
  task = task
  a = a
  b = b
  c = c
  Procs = {p1, p2}
  ReadOnly = {}
  Responsive = {}
  Projects = {proj}
  Tasks = {task}
  Contents = {a, b, c}
  Labels = {}
  Similar <- AlikeAB
  Requests <- MCRequests
  LockRetries = 1
  DedupCap = 1
  Embeds = {TRUE, FALSE}
  DayLength = 1
  MaxClock = 1
  MaxRows = 2
INVARIANTS
  SupersededReported
PROPERTIES
  DuplicatesOverlap
  DisorderOverlaps
SYMMETRY Symmetry
CHECK_DEADLOCK FALSE
