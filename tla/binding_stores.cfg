\* Commands, servers, `init` and a migration; r was once registered at shared.
SPECIFICATION BSpec
CONSTANTS
  p1 = p1
  p2 = p2
  a = a
  r = r
  shared = shared
  conv_a = conv_a
  conv_r = conv_r
  Callers = {p1, p2}
  Projects = {a, r}
  Restricted = {r}
  Default = Default
  Dirs = {shared, conv_a, conv_r}
  Shared = shared
  Conv <- MCConv
  None = None
  Envs = {None, shared, conv_a}
  Poisoned = {r}
  Routes <- AToR
  MaxMemories = 1
  MaxMigrations = 1
SYMMETRY MCSymmetry
INVARIANTS
  RestrictedElsewhere
PROPERTIES
  ClaimRespected
  RegistryValidated
