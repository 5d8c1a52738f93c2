SPECIFICATION Spec
CONSTANTS
  Keys = {scan, digest}
  Services = {watcher}
  Callers = {c1, c2}
  Direct = {d1}
  Worker = worker
  MaxRuns = 3
  MaxBoots = 2
  MaxFaults = 3
SYMMETRY Symmetry
INVARIANTS
  TypeOK
  OneActivePerKey
  RunningIsOwned ExecutionIsRecorded
  FirstQueuedFirstRun
  NoLostWakeup
PROPERTIES
  OutcomeIsFinal
  ImplementsJobQueue
CHECK_DEADLOCK FALSE
