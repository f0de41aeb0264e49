SPECIFICATION FairSpec
CONSTANTS
  Confs <- MCConfs
  Workers = 6
INVARIANTS TypeOK PullsExact AppliedOnce AcksExact ReportsOnce SumsHeeded
PROPERTIES Ends
CHECK_DEADLOCK FALSE
