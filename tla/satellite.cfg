SPECIFICATION Spec
CONSTANTS
  j1 = j1
  j2 = j2
  j3 = j3
  m1 = m1
  r1 = r1
  r2 = r2
  w1 = w1
  none = none
  NoJob = none
  Jobs <- AnalyticsJobs
  Missions <- OneMission
  MissionOf <- SameMission
  TypeOf <- AnalyticsTypes
  Requests <- TwoRequests
  Limit = 1
  Assets = 1
  MaxCopies = 2
  Faults <- SomeFaults
  Workers <- OneWorker
  MaxCrashes = 1
  Unit = 10
  Pixels <- TwoPixels
  SpectralInputs <- SomeSpectralInputs
  ChangeInputs <- SomeChangeInputs
CHECK_DEADLOCK FALSE
CONSTRAINT OneJobUsedOrNoneTaken
SYMMETRY Symmetry
INVARIANTS
  QuotaBound
  NoSilentLoss
  VerdictHasItsLayer
  ResultsAreSound
PROPERTIES
  ApiSpec
