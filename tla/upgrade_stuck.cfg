\* A crash between the two statements of the step from version 2, or a slow second
\* process that starts from version 1.
SPECIFICATION Spec
CONSTANTS
  p1 = p1
  p2 = p2
  a = a
  b = b
  c = c
  Procs = {p1, p2}
  Mems = {a, b, c}
  Old <- TwoOld
  Starts = {1, 2}
  MaxRowid = 5
  MaxCrashes = 1
INVARIANTS
  Reopenable
