\* One source that is enabled and disabled, four tasks, two callers and two collectors that may die.
SPECIFICATION FairSpec
CONSTANTS
  Sources = {gdii}
  Requests = {r1}
  Scheduler = scheduler
  Collectors = {k1, k2}
  MaxTasks = 4
  Toggling = TRUE
  NoValue = NoValue
INVARIANTS
  TypeOK
  HealthCountsOutcomes
  OneEventPerEpisode
PROPERTIES
  TasksFinishUnlessLost
