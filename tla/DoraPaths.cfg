\* Both paths at once: a mapped run of the Task and one that marks, a request that may be posted again.
SPECIFICATION Spec
CONSTANTS
  Requests = {r1}
  Times = {1, 2}
  Retries = 1
  MaxMarks = 2
  Mapped = {1}
  MaxSyncs = 1
  MaxFailures = 1
  MaxCrashes = 1
  MaxQueue = 1
INVARIANTS
  TypeOK
  NoSaveLost
  StoreWithinMemory
PROPERTIES
  CountersAreDurable
CHECK_DEADLOCK FALSE
