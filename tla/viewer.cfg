SPECIFICATION Spec
CONSTANTS
  Rasters = {a1, a2, a3}
  Clouds = {c1, c2}
  Projected = {c1}
  HasRegion = FALSE
INVARIANTS
  NothingLoadedTwice
  CloudsHaveTheirZone
PROPERTIES
  RastersSettle
