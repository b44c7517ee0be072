\* One search after the other over four projects, two of which share a file,
\* while others register, link, remove and damage.
SPECIFICATION Spec
CONSTANTS
  own = own
  f1 = f1
  f2 = f2
  NoFile = NoFile
  NoProject = NoProject
  NoCap = NoCap
  Projects = {1, 2, 3, 4}
  Files = {own, f1, f2}
  Own = own
  Memories <- SmallMemories
  Requests <- SmallRequests
  CapDefault = 3
  CapOfEnv = NoCap
  HardCap = 2
  Second = 2
  FirstRegistry <- SmallRegistry
  FirstEdges <- FirstLinks
  FirstDisk <- SmallDisk
  Links <- LaterLinks
  MaxChanges = 3
INVARIANTS
  SearchComplete
  OnlyRelatedOpened
  CapRespected
  NoMemoryTwice
  NewestReported
PROPERTIES
  NeverCreates
