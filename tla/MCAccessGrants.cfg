CONSTANTS
  Users = {u1}
  Sites = {s1, s2}
  GrantIds = {g1, g2}
  Handlers = {h1, h2}
  NoDate = NoDate
  InputDates <- SomeDates
  Schedules <- SomeHours
  Policies = {1}
  DirectoryEnabled = TRUE
  RoleGroup = RoleGroup
  MaxTime = 2
SPECIFICATION GrantsSpec
SYMMETRY Symmetry
INVARIANTS DecidedOnce CapHolds EvaluateRight
PROPERTIES RetiredFrozen SyncExact
CHECK_DEADLOCK FALSE
