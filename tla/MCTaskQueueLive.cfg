SPECIFICATION FairSpec
CONSTANTS
  Keys = {scan, digest}
  Services = {}
  Callers = {c1, c2}
  Direct = {}
  Worker = worker
  MaxRuns = 3
  MaxBoots = 1
  MaxFaults = 3
PROPERTIES
  QueuedIsStarted
CHECK_DEADLOCK FALSE
