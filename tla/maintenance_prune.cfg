\* Three days, two ids beside one memory that arrives; one stop.
SPECIFICATION FairSpec
CONSTANTS
  p1 = p1
  p2 = p2
  p3 = p3
  own = own
  other = other
  Procs = {p1, p2, p3}
  Projects = {own, other}
  Serves <- MCServes
  ReadOnly = {p3}
  AgeDays = 1
  MaxPerTask = 1
  MaxDate = 2
  MaxRows = 2
  MaxArrivals = 1
  MaxFailures = 1
PROPERTIES
  OnlyStalePruned
  OnlyMigrationsReuseIds
  UnlabelledPruned
