\* A server, started for either project, and other processes.
SPECIFICATION Spec
CONSTANTS
  A = A
  B = B
  alice = alice
  bob = bob
  tools = tools
  NoProject = NoProject
  Projects = {A, B}
  Keys = {alice, bob, tools}
  Requests <- ClientRequests
  Window = 2
  Max = 2
  Threshold = 1
  MaxClock = 3
  MaxCalls = 5
  MaxFiles = 2
PROPERTIES
  LimiterExact
  TableBounded
  BoundProjectOnly
  StoredReachable
