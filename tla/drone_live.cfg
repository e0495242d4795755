SPECIFICATION FairSpec
CONSTANTS
  j1 = j1
  j2 = j2
  j3 = j3
  m1 = m1
  r1 = r1
  w1 = w1
  w2 = w2
  none = none
  NoJob = none
  Jobs <- OneJob
  Missions <- OneMission
  MissionOf <- MissionOfOne
  TypeOf <- Photogrammetry
  Requests <- OneRequest
  Limit = 1
  Assets = 0
  MaxCopies = 2
  Faults <- BrokerFaults
  Workers <- TwoWorkers
  MaxRetries = 1
  MaxCrashes = 1
  Progresses <- Start
CHECK_DEADLOCK FALSE
INVARIANTS SingleRunner
PROPERTIES StartedJobsSettle
ACTION_CONSTRAINT CancelledBefore
