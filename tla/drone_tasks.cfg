SPECIFICATION Spec
CONSTANTS
  j1 = j1
  j2 = j2
  j3 = j3
  m1 = m1
  r1 = r1
  w1 = w1
  w2 = w2
  none = none
  NoJob = none
  Jobs <- ThreeJobs
  Missions <- OneMission
  MissionOf <- MissionOfThree
  TypeOf <- OneOfEach
  Requests <- OneRequest
  Limit = 1
  Assets = 2
  MaxCopies = 1
  Faults <- AllFaults
  Workers <- OneWorker
  MaxRetries = 2
  MaxCrashes = 1
  Progresses <- Samples
CHECK_DEADLOCK FALSE
CONSTRAINT OneJobUsed
INVARIANTS VerdictMatchesRow CompleteHasItsOutputs NoSilentLoss OutputsPerDelivery
PROPERTIES CompleteIsFinal StageOrder ApiSpec
