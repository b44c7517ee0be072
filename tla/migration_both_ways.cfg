\* Opposite migrations; p2 may stop for ever with its locks.
SPECIFICATION FairSpec
CONSTANTS
  p1 = p1
  p2 = p2
  NoProc = NoProc
  A = A
  B = B
  task = task
  a = a
  b = b
  c = c
  theirs = theirs
  lab = lab
  Procs = {p1, p2}
  Responsive = {p1}
  Projects = {A, B}
  Tasks = {task}
  Contents = {a, b, c}
  Labels = {lab}
  Similar <- Identical
  Routes <- BothWays
  Mentions <- MentionAll
  Requests <- CollidingRequests
  Dates = {0}
  LockRetries = 1
  MaxRows = 2
INVARIANTS
  LocksHeld
PROPERTIES
  CopyBeforeRetire
  MigrationEnds
