\* The informer path alone: two runs of the Task, which may overlap.
SPECIFICATION FairSpec
CONSTANTS
  Requests = {}
  Times = {1, 2}
  Retries = 0
  MaxMarks = 2
  Mapped = {}
  MaxSyncs = 2
  MaxFailures = 1
  MaxCrashes = 1
  MaxQueue = 1
INVARIANTS
  NotBeforeMark
PROPERTIES
  ConfirmedIsSettled
CONSTRAINT
  OneFault
CHECK_DEADLOCK FALSE
