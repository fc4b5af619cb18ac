\* One mark, no failure: a notification overtaken by the handler's own patch.
SPECIFICATION Spec
CONSTANTS
  Requests = {}
  Times = {1, 2}
  Retries = 0
  MaxMarks = 1
  Mapped = {}
  MaxSyncs = 1
  MaxFailures = 0
  MaxCrashes = 0
  MaxQueue = 1
INVARIANTS
  RecordedOnce
CHECK_DEADLOCK FALSE
