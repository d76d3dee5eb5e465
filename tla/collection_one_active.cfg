\* Section 7.2 of the stage-1 design on tasks of one source.
SPECIFICATION Spec
CONSTANTS
  Sources = {gdii}
  Requests = {r1}
  Scheduler = scheduler
  Collectors = {k1}
  MaxTasks = 2
  Toggling = FALSE
  NoValue = NoValue
INVARIANTS
  OneActiveTask
