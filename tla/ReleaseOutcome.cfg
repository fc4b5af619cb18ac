\* Two syncs in a row, a rotation and two faults at any point.
SPECIFICATION FairSpec
CONSTANTS
  JobRetries = 1
  CurlRetries = 1
  MaxSyncs = 2
  MaxFaults = 2
  MaxRotations = 1
INVARIANTS
  TypeOK
  OneRunPerPod
  NoOutcomeSwallowed
  NoStaleToken
  ReportedIsDelivered
  NoOutcomeForgotten
PROPERTIES
  ImplementsOutcomeReports
  OutcomeReported
CHECK_DEADLOCK FALSE
