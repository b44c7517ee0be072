\* Two processes migrate the same project into one that stores as well.
SPECIFICATION Spec
CONSTANTS
  p1 = p1
  p2 = p2
  NoProc = NoProc
  A = A
  B = B
  task = task
  a = a
  b = b
  c = c
  theirs = theirs
  lab = lab
  Procs = {p1, p2}
  Responsive = {}
  Projects = {A, B}
  Tasks = {task}
  Contents = {a, b, c, theirs}
  Labels = {lab}
  Similar <- Identical
  Routes <- OneWay
  Mentions <- MentionAll
  Requests <- OneWayRequests
  Dates = {0}
  LockRetries = 1
  MaxRows = 3
INVARIANTS
  NothingLost
  SecondCopiesCollide
SYMMETRY Symmetry
