SPECIFICATION Spec
CONSTANTS
  m1 = m1
  p1 = p1
  f1 = f1
  f2 = f2
  r1 = r1
  r2 = r2
  none = none
  Missions = {m1}
  Project = p1
  Files = {f1, f2}
  MissionOf <- MCMissionOf
  NoFile = none
  Requests = {r1, r2}
  MaxSize = 2
  MaxOpened = 3
  Verdicts = {"PROCESSING"}
  Faults = {"rollback"}
SYMMETRY Symmetry
CHECK_DEADLOCK FALSE
INVARIANTS RowsHaveParents MeterNeverOvercounts CountsAreImages IngestedIsAnnounced SerialTotalsExact
