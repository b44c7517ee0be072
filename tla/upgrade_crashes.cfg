\* Two processes upgrade one database, from every version; one may die.
SPECIFICATION FairSpec
CONSTANTS
  p1 = p1
  p2 = p2
  a = a
  b = b
  c = c
  Procs = {p1, p2}
  Mems = {a, b}
  Old <- TwoOld
  Starts = {0, 1, 2, 3, 4, 5, 6, 7}
  MaxRowid = 4
  MaxCrashes = 1
INVARIANTS
  TypeOK
  VersionTruthful
  ReadyComplete
  IndexAligned
PROPERTIES
  UpgradeKeepsRows
  NewerKept
  OpensEventually
