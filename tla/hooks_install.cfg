\* Two invocations of package 2, a user and a crash anywhere.
SPECIFICATION Spec
CONSTANTS
  p1 = p1
  p2 = p2
  Procs = {p1, p2}
  Repo = Repo
  Custom = Custom
  UserTemplate = UserTemplate
  OwnTemplate = OwnTemplate
  Unset = Unset
  Missing = Missing
  Versions = {2}
  Start <- MCStart
  MaxCalls = 3
  MaxChanges = 1
SYMMETRY MCSymmetry
INVARIANTS
  InstalledIsUsed
PROPERTIES
  HooksKept
  NeverDowngraded
CHECK_DEADLOCK FALSE
